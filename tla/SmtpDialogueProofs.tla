------------------------- MODULE SmtpDialogueProofs -------------------------
(***************************************************************************)
(* Proofs about how SmtpProtocol authenticates: which mechanism is tried,  *)
(* what its dialogue with the server looks like, and what is given up.     *)
(***************************************************************************)
EXTENDS SmtpProtocolProofs

(***************************************************************************)
(* The order of the tests is one in ProcessAuth and AuthLoginStep1, another *)
(* in AuthLoginStep2, and a third where a mechanism is given up.  The       *)
(* invariant says what they have in common.                                 *)
(***************************************************************************)

\* GivenUp, as the if and else-if that it is in the code.
First(left) ==
    IF "GSSAPI" \in left THEN {"GSSAPI"}
    ELSE IF "CRAM-MD5" \in left THEN {"CRAM-MD5"}
    ELSE IF "NTLM" \in left THEN {"NTLM"}
    ELSE IF "MSN" \in left THEN {"MSN"}
    ELSE IF "PLAIN" \in left THEN {"PLAIN"}
    ELSE IF "LOGIN" \in left THEN {"LOGIN"}
    ELSE {}

\* What the server says to a mechanism is heard here, ...
Answered == {"SEND_AUTH_GSSAPI_STEP", "AUTH_LOGIN_STEP0_RESPONSE", "AUTH_LOGIN_RESPONSE"}

\* ... and one is under way here.
Authenticating ==
    Answered \cup {"SEND_AUTH_GSSAPI_FIRST", "SEND_AUTH_LOGIN_STEP0",
                   "SEND_AUTH_LOGIN_STEP1", "SEND_AUTH_LOGIN_STEP2"}

OneLine == {"CRAM-MD5", "NTLM", "PLAIN"}

\* Which flags lead to which stage, and are still there in it.
FlagsSteer ==
    /\ Stage \in {"SEND_AUTH_GSSAPI_FIRST", "SEND_AUTH_GSSAPI_STEP"} => "GSSAPI" \in m_flags
    /\ Stage \in {"SEND_AUTH_LOGIN_STEP0", "AUTH_LOGIN_STEP0_RESPONSE"} =>
         /\ m_flags \cap ({"GSSAPI"} \cup OneLine) = {}
         /\ m_flags \cap {"MSN", "LOGIN"} # {}
    /\ Stage = "SEND_AUTH_LOGIN_STEP1" =>
         "GSSAPI" \notin m_flags /\ m_flags \cap (OneLine \cup {"MSN", "LOGIN"}) # {}

\* A dialogue is one of the mechanism that is tried, and goes on while the
\* server's challenges are answered.
Talking ==
    /\ dialogue # {} => Stage \in Authenticating \cup EndStages
    /\ Stage \in Authenticating => dialogue \in {{}, First(m_flags)}
    /\ Stage \in Answered /\ Seen # 0 =>
         dialogue = IF Seen \in 300 .. 399 THEN First(m_flags) ELSE {}
    /\ Stage \in {"SEND_AUTH_GSSAPI_FIRST", "SEND_AUTH_LOGIN_STEP0"} => dialogue = {}
    /\ Stage = "SEND_AUTH_LOGIN_STEP1" =>
         dialogue = IF m_flags \cap OneLine = {} THEN First(m_flags) ELSE {}
    /\ Stage = "AUTH_LOGIN_RESPONSE" /\ Seen \in 300 .. 399 => First(m_flags) = {Step2Line}
    /\ Stage = "SEND_AUTH_LOGIN_STEP2" => dialogue = {Step2Line} /\ dialogue = First(m_flags)
    /\ Stage = "AUTH_EXTERNAL_RESPONSE" => Seen \notin 300 .. 399

\* What is sent and not yet answered.
Speaking ==
    reply = 0 =>
      /\ command.verb = "AUTH" => /\ dialogue = {}
                                  /\ IF Stage = "AUTH_EXTERNAL_RESPONSE"
                                     THEN command.params = {"EXTERNAL"} \cap m_flags
                                     ELSE command.params = First(m_flags)
      /\ command.verb = "line" =>
           \/ command.params = dialogue
           \/ dialogue = {} /\ {"MSN", "PLAIN"} \subseteq m_flags
      /\ Stage = "AUTH_LOGIN_RESPONSE" /\ command.verb = "line" /\ dialogue # {} =>
           challenges = 0 \/ First(m_flags) = {Step2Line}
      /\ Stage = "AUTH_LOGIN_RESPONSE" /\ command.verb = "AUTH" =>
           First(m_flags) \in {{"PLAIN"}, {Step2Line}}

\* A handler that judges an answer has one.
Heard == m_nextState \in Answered => m_responseCode # 0

\* The server has just said no.
Failing == Stage \in Answered /\ Seen # 0 /\ Seen \notin 200 .. 399

\* What was refused is given up, at the latest when the refusal has been read.
Tried ==
    /\ Stage \in {"START_CONNECT", "EXTN_LOGIN_RESPONSE", "SEND_EHLO_RESPONSE"} =>
         refused = {}
    /\ Stage = "TLS_RESPONSE" /\ Seen = 220 => refused = {}
    /\ Stage \in Authenticating \cup {"AUTH_PROCESS_STATE", "AUTH_EXTERNAL_RESPONSE",
                                      "TLS_RESPONSE"} =>
         IF Failing THEN (m_flags \ First(m_flags)) \cap refused \subseteq {"EXTERNAL"}
                    ELSE m_flags \cap refused \subseteq {"EXTERNAL"}

\* The mechanisms that are tried are those of one answer to EHLO.
OneOffer ==
    /\ offered \in Offers \cup {{}}
    /\ \E o \in Offers \cup {{}} : (m_flags \cup m_origAuthFlags) \cap Mechanism \subseteq o

AuthInv == FlagsSteer /\ Talking /\ Speaking /\ Heard /\ Tried /\ OneOffer

-----------------------------------------------------------------------------
(* What the code gives up is the first of the mechanisms left.             *)

LEMMA GivenUpIsFirst == ASSUME NEW left PROVE GivenUp(left) = First(left)
<1>1. DOMAIN FallBack = {1, 2, 3, 4, 5, 6}
  <2>1. DOMAIN FallBack = 1 .. 6
    BY DEF FallBack
  <2>2. QED
    BY <2>1
<1>2. /\ FallBack[1] = "GSSAPI" /\ FallBack[2] = "CRAM-MD5" /\ FallBack[3] = "NTLM"
      /\ FallBack[4] = "MSN" /\ FallBack[5] = "PLAIN" /\ FallBack[6] = "LOGIN"
  BY DEF FallBack
<1>3. /\ 1 .. 1 - 1 = {} /\ 1 .. 2 - 1 = {1} /\ 1 .. 3 - 1 = {1, 2} /\ 1 .. 4 - 1 = {1, 2, 3}
      /\ 1 .. 5 - 1 = {1, 2, 3, 4} /\ 1 .. 6 - 1 = {1, 2, 3, 4, 5}
  OBVIOUS
<1> DEFINE Ahead(i) == FallBack[i] \in left /\ \A j \in 1 .. i - 1 : FallBack[j] \notin left
<1>4. /\ Ahead(1) <=> "GSSAPI" \in left
      /\ Ahead(2) <=> "CRAM-MD5" \in left /\ "GSSAPI" \notin left
      /\ Ahead(3) <=> "NTLM" \in left /\ {"GSSAPI", "CRAM-MD5"} \cap left = {}
      /\ Ahead(4) <=> "MSN" \in left /\ {"GSSAPI", "CRAM-MD5", "NTLM"} \cap left = {}
      /\ Ahead(5) <=> "PLAIN" \in left /\ {"GSSAPI", "CRAM-MD5", "NTLM", "MSN"} \cap left = {}
      /\ Ahead(6) <=> /\ "LOGIN" \in left
                     /\ {"GSSAPI", "CRAM-MD5", "NTLM", "MSN", "PLAIN"} \cap left = {}
  <2>1. Ahead(1) <=> "GSSAPI" \in left
    BY <1>2, <1>3
  <2>2. Ahead(2) <=> "CRAM-MD5" \in left /\ "GSSAPI" \notin left
    BY <1>2, <1>3
  <2>3. Ahead(3) <=> "NTLM" \in left /\ {"GSSAPI", "CRAM-MD5"} \cap left = {}
    BY <1>2, <1>3
  <2>4. Ahead(4) <=> "MSN" \in left /\ {"GSSAPI", "CRAM-MD5", "NTLM"} \cap left = {}
    BY <1>2, <1>3
  <2>5. Ahead(5) <=> "PLAIN" \in left /\ {"GSSAPI", "CRAM-MD5", "NTLM", "MSN"} \cap left = {}
    BY <1>2, <1>3
  <2>6. Ahead(6) <=> /\ "LOGIN" \in left
                     /\ {"GSSAPI", "CRAM-MD5", "NTLM", "MSN", "PLAIN"} \cap left = {}
    BY <1>2, <1>3
  <2>7. QED
    BY <2>1, <2>2, <2>3, <2>4, <2>5, <2>6
<1>5. GivenUp(left) = {FallBack[i] : i \in {i \in {1, 2, 3, 4, 5, 6} : Ahead(i)}}
  BY <1>1 DEF GivenUp
<1> HIDE DEF Ahead
<1>6. ASSUME NEW m PROVE m \in GivenUp(left) <=> m \in First(left)
  <2>1. m \in GivenUp(left) <=> \E i \in {1, 2, 3, 4, 5, 6} : Ahead(i) /\ m = FallBack[i]
    BY <1>5
  <2>2. m \in GivenUp(left) <=>
            \/ Ahead(1) /\ m = "GSSAPI"
            \/ Ahead(2) /\ m = "CRAM-MD5"
            \/ Ahead(3) /\ m = "NTLM"
            \/ Ahead(4) /\ m = "MSN"
            \/ Ahead(5) /\ m = "PLAIN"
            \/ Ahead(6) /\ m = "LOGIN"
    BY <1>2, <2>1
  <2>3. QED
    BY <1>4, <2>2 DEF First
<1>7. QED
  BY <1>6

\* What First may be, and from what.
LEMMA FirstOf ==
    ASSUME NEW left
    PROVE  /\ First(left) \subseteq left
           /\ First(left) \in {{}, {"GSSAPI"}, {"CRAM-MD5"}, {"NTLM"}, {"MSN"}, {"PLAIN"}, {"LOGIN"}}
           /\ "GSSAPI" \in left => First(left) = {"GSSAPI"}
           /\ left \cap {"GSSAPI", "CRAM-MD5", "NTLM", "MSN", "PLAIN", "LOGIN"} # {}
                => First(left) # {}
  BY DEF First

-----------------------------------------------------------------------------
(* Steps that are not about authentication.                                *)

known == <<m_flags, m_origAuthFlags, dialogue, challenges, refused, offered>>

\* Flags that are given up, and flags that are taken back.
LEMMA OneOfferLeft ==
    ASSUME OneOffer, m_flags' \subseteq m_flags \cup m_origAuthFlags,
           m_origAuthFlags' \subseteq m_origAuthFlags, offered' \in Offers \cup {{}}
    PROVE  OneOffer'
<1>1. PICK o \in Offers \cup {{}} : (m_flags \cup m_origAuthFlags) \cap Mechanism \subseteq o
  BY DEF OneOffer
<1>2. (m_flags' \cup m_origAuthFlags') \cap Mechanism \subseteq o
  BY <1>1
<1>3. QED
  BY <1>2 DEF OneOffer

\* Nothing that the invariant is about is under way after the step.
LEMMA Apart ==
    ASSUME OneOffer', command'.verb \notin {"AUTH", "line"},
           dialogue' = {} \/ Stage' \in EndStages,
           Stage' \in {"START_CONNECT", "EXTN_LOGIN_RESPONSE", "SEND_EHLO_RESPONSE"}
                => refused' = {},
           Stage' \notin Authenticating \cup {"AUTH_PROCESS_STATE", "AUTH_EXTERNAL_RESPONSE",
                                             "TLS_RESPONSE"}
    PROVE  AuthInv'
<1>1. FlagsSteer'
  BY DEF FlagsSteer, Authenticating, Answered
<1>2. Talking'
  BY DEF Talking, Authenticating, Answered
<1>3. Speaking'
  BY DEF Speaking
<1>4. Tried'
  BY DEF Tried
<1>5. Heard'
  BY DEF Heard, Stage, Authenticating, Answered
<1>6. QED
  BY <1>1, <1>2, <1>3, <1>4, <1>5 DEF AuthInv

LEMMA Elsewhere ==
    ASSUME AuthInv, UNCHANGED known, command'.verb \notin {"AUTH", "line"},
           dialogue = {} \/ Stage' \in EndStages,
           Stage' \in {"START_CONNECT", "EXTN_LOGIN_RESPONSE", "SEND_EHLO_RESPONSE"}
                => refused = {},
           Stage' \notin Authenticating \cup {"AUTH_PROCESS_STATE", "AUTH_EXTERNAL_RESPONSE",
                                             "TLS_RESPONSE"}
    PROVE  AuthInv'
<1>1. OneOffer'
  BY OneOfferLeft DEF AuthInv, OneOffer, known
<1>2. dialogue' = dialogue /\ refused' = refused
  BY DEF known
<1>3. QED
  BY <1>1, <1>2, Apart

\* A mechanism is about to be chosen.
LEMMA Choosing ==
    ASSUME OneOffer', Stage' = "AUTH_PROCESS_STATE", command'.verb = "none",
           dialogue' = {}, m_flags' \cap refused' \subseteq {"EXTERNAL"}
    PROVE  AuthInv'
<1>1. FlagsSteer'
  BY DEF FlagsSteer
<1>2. Talking'
  BY DEF Talking, Authenticating, Answered
<1>3. Speaking'
  BY DEF Speaking
<1>4. Tried'
  BY DEF Tried, Failing, Authenticating, Answered
<1>5. Heard'
  BY DEF Heard, Stage, Answered
<1>6. QED
  BY <1>1, <1>2, <1>3, <1>4, <1>5 DEF AuthInv

\* The step is one of the user, of the connection, or reads an answer.
LEMMA SameStage ==
    ASSUME AuthInv, UNCHANGED known, Stage' = Stage, Seen' = Seen, Heard',
           \/ UNCHANGED <<command, reply>>
           \/ command'.verb \notin {"AUTH", "line"}
    PROVE  AuthInv'
<1>1. Step2Line' = Step2Line /\ First(m_flags)' = First(m_flags)
  BY DEF known, Step2Line
<1>2. FlagsSteer'
  BY DEF AuthInv, FlagsSteer, known
<1>3. Talking'
  BY <1>1 DEF AuthInv, Talking, known
<1>4. Speaking'
  BY <1>1 DEF AuthInv, Speaking, known
<1>5. Tried'
  BY <1>1 DEF AuthInv, Tried, Failing, known
<1>6. OneOffer'
  BY DEF AuthInv, OneOffer, known
<1>7. QED
  BY <1>2, <1>3, <1>4, <1>5, <1>6 DEF AuthInv

\* What Send and Goto come to in a handler.
LEMMA SendsTo ==
    ASSUME CommandFits, m_nextState # "RESPONSE", NEW verb, NEW params, NEW after,
           Send(Cmd(verb, params), after)
    PROVE  /\ reply' = 0
           /\ \/ Stage' = "ERROR_DONE" /\ command' = NoCommand /\ command'.verb = "none"
              \/ /\ Stage' = after /\ command'.verb = verb /\ command'.params = params
                 /\ Seen' = 0
  BY DEF Send, Stage, Seen, CommandFits, NoCommand, Cmd

LEMMA GoesTo ==
    ASSUME CommandFits, m_nextState # "RESPONSE", NEW state, state # "RESPONSE", Goto(state)
    PROVE  /\ Stage' = state /\ Seen' = m_responseCode'
           /\ command'.verb = "none" /\ reply' = 0
  BY DEF Goto, Stage, Seen, CommandFits, NoCommand, Cmd, wire

LEMMA Handles ==
    ASSUME m_nextState # "RESPONSE"
    PROVE  Stage = m_nextState /\ Seen = m_responseCode
  BY DEF Stage, Seen

LEMMA FailsAway ==
    ASSUME AuthInv, CommandFits, m_nextState # "RESPONSE", UNCHANGED known, Fail
    PROVE  AuthInv'
<1>1. Stage' = "ERROR_DONE" /\ command'.verb \in {"none", "QUIT"}
  BY SendsTo DEF Fail
<1>2. QED
  BY <1>1, Elsewhere DEF EndStages, Authenticating, Answered

\* A handler that goes on to the envelope, or that ends.
LEMMA OtherHandlers ==
    ASSUME IInv, AuthInv,
           \/ LoadUrl \/ ExtensionLoginResponse \/ SendHeloResponse \/ SendMailResponse
           \/ SendRecipientResponse \/ SendDataResponse \/ SendPostData
           \/ SendMessageResponse \/ Finish \/ PasswordRefused
    PROVE  AuthInv'
<1>1. CommandFits /\ m_nextState # "RESPONSE" /\ Stage = m_nextState /\ UNCHANGED known
  BY DEF IInv, known, flags, server, Stage, LoadUrl, ExtensionLoginResponse,
     SendHeloResponse, SendMailResponse, SendRecipientResponse, SendDataResponse,
     SendPostData, SendMessageResponse, Finish, PasswordRefused, Prompting
<1>2. CASE Fail
  BY <1>1, <1>2, FailsAway
<1>3. CASE PasswordRefused
  BY <1>2, <1>3 DEF PasswordRefused
<1>4. CASE Finish
  <2>1. Stage' \in EndStages /\ command' = command
    BY <1>4 DEF Finish, Stage, EndStages
  <2>2. command'.verb = "none"
    BY <1>1, <2>1 DEF CommandFits, NoCommand, Cmd
  <2>3. QED
    BY <1>1, <2>1, <2>2, Elsewhere DEF EndStages, Authenticating, Answered
<1>5. CASE LoadUrl
  <2>1. dialogue = {} /\ refused = {}
    BY <1>1, <1>5 DEF AuthInv, Talking, Tried, LoadUrl, Authenticating, Answered, EndStages
  <2>2. /\ Stage' \in {"ERROR_DONE", "EXTN_LOGIN_RESPONSE"}
        /\ command'.verb \in {"none", "connect"}
    BY <1>1, <1>5 DEF LoadUrl, Stage, CommandFits, NoCommand, Cmd
  <2>3. QED
    BY <1>1, <2>1, <2>2, Elsewhere DEF Authenticating, Answered
<1>6. CASE ExtensionLoginResponse /\ ~ Fail
  <2>1. dialogue = {} /\ refused = {} /\ Send(Cmd("EHLO", {}), "SEND_EHLO_RESPONSE")
    BY <1>1, <1>6
       DEF AuthInv, Talking, Tried, ExtensionLoginResponse, Authenticating, Answered, EndStages
  <2>2. /\ Stage' \in {"ERROR_DONE", "SEND_EHLO_RESPONSE"}
        /\ command'.verb \in {"none", "EHLO"}
    BY <1>1, <2>1, SendsTo
  <2>3. QED
    BY <1>1, <2>1, <2>2, Elsewhere DEF Authenticating, Answered
<1>7. CASE /\ SendHeloResponse \/ SendMailResponse \/ SendRecipientResponse
              \/ SendDataResponse \/ SendPostData \/ SendMessageResponse
           /\ ~ Fail
  <2>1. dialogue = {}
    BY <1>1, <1>7 DEF AuthInv, Talking, Authenticating, Answered, EndStages, SendHeloResponse,
       SendMailResponse, SendRecipientResponse, SendDataResponse, SendPostData,
       SendMessageResponse
  <2>2. /\ Stage' \in {"ERROR_DONE", "SEND_MAIL_RESPONSE", "SEND_RCPT_RESPONSE",
                       "SEND_DATA_RESPONSE", "SEND_MESSAGE_RESPONSE", "DONE", "SEND_POST_DATA"}
        /\ command'.verb \in {"none", "MAIL", "RCPT", "DATA", "message", "QUIT"}
    <3>1. CASE Send(Cmd("MAIL", MailParams), "SEND_MAIL_RESPONSE")
      BY <1>1, <3>1, SendsTo
    <3>2. CASE Send(Cmd("RCPT", RcptParams), "SEND_RCPT_RESPONSE")
      BY <1>1, <3>2, SendsTo
    <3>3. CASE Send(Cmd("DATA", {}), "SEND_DATA_RESPONSE")
      BY <1>1, <3>3, SendsTo
    <3>4. CASE Send(Cmd("message", {}), "SEND_MESSAGE_RESPONSE")
      BY <1>1, <3>4, SendsTo
    <3>5. CASE Send(Cmd("QUIT", {}), "DONE")
      BY <1>1, <3>5, SendsTo
    <3>6. CASE Goto("SEND_MAIL_RESPONSE")
      BY <1>1, <3>6, GoesTo
    <3>7. CASE Goto("SEND_POST_DATA")
      BY <1>1, <3>7, GoesTo
    <3>8. QED
      BY <1>7, <3>1, <3>2, <3>3, <3>4, <3>5, <3>6, <3>7 DEF SendHeloResponse,
         SendMailResponse, SendRecipientResponse, SendDataResponse, SendPostData,
         SendMessageResponse
  <2>3. QED
    BY <1>1, <2>1, <2>2, Elsewhere DEF Authenticating, Answered
<1>8. QED
  BY <1>2, <1>3, <1>4, <1>5, <1>6, <1>7
LEMMA SteadySteps ==
    ASSUME IInv, AuthInv,
           SmtpResponse \/ PasswordGiven \/ OnStopRequest \/ ChangePrefs \/ UNCHANGED vars
    PROVE  AuthInv'
<1>1. UNCHANGED known
  BY DEF known, vars, flags, server, SmtpResponse, PasswordGiven, OnStopRequest, ChangePrefs
<1>2. CASE SmtpResponse
  <2>1. /\ Stage' = Stage /\ Seen' = Seen /\ m_responseCode' # 0
        /\ command'.verb = "none"
    BY <1>2, AnswerSeen DEF IInv, SmtpResponse, NoCommand, Cmd
  <2>2. QED
    BY <1>1, <2>1, SameStage DEF Heard
<1>3. CASE PasswordGiven \/ OnStopRequest \/ ChangePrefs \/ UNCHANGED vars
  <2>1. UNCHANGED <<m_nextState, m_nextStateAfterResponse, m_responseCode, command, reply>>
    BY <1>3 DEF PasswordGiven, OnStopRequest, ChangePrefs, vars, machine, wire
  <2>2. Stage' = Stage /\ Seen' = Seen /\ Heard'
    BY <2>1 DEF Stage, Seen, AuthInv, Heard
  <2>3. QED
    BY <1>1, <2>1, <2>2, SameStage
<1>4. QED
  BY <1>2, <1>3

-----------------------------------------------------------------------------
(* EHLO and STARTTLS                                                       *)

LEMMA EhloKeeps == ASSUME IInv, AuthInv, SendEhloResponse PROVE AuthInv'
<1>1. /\ m_nextState = "SEND_EHLO_RESPONSE" /\ m_nextState # "RESPONSE" /\ CommandFits
      /\ Stage = "SEND_EHLO_RESPONSE" /\ UNCHANGED <<dialogue, refused, offered>>
  BY DEF SendEhloResponse, Stage, server, IInv
<1>2. /\ m_flags = {} /\ m_origAuthFlags = {} /\ dialogue = {} /\ refused = {}
      /\ offered \in Offers \cup {{}}
  BY <1>1 DEF IInv, FlagsOffered, AuthInv, Talking, Tried, OneOffer, Authenticating,
     Answered, EndStages
<1>3. OneOffer'
  <2>1. (m_flags' \cup m_origAuthFlags') \cap Mechanism \subseteq offered
    BY <1>2 DEF SendEhloResponse, FlagsOf, flags, Mechanism
  <2>2. QED
    BY <1>1, <1>2, <2>1 DEF OneOffer
<1>4. CASE Fail
  <2>1. Stage' = "ERROR_DONE" /\ command'.verb \in {"none", "QUIT"}
    BY <1>1, <1>4, SendsTo DEF Fail
  <2>2. QED
    BY <1>3, <2>1, Apart DEF EndStages, Authenticating, Answered
<1>5. CASE Goto("AUTH_PROCESS_STATE")
  <2>1. Stage' = "AUTH_PROCESS_STATE" /\ command'.verb = "none"
    BY <1>1, <1>5, GoesTo
  <2>2. QED
    BY <1>1, <1>2, <1>3, <2>1, Choosing
<1>6. CASE Send(Cmd("HELO", {}), "SEND_HELO_RESPONSE")
  <2>1. /\ Stage' \in {"ERROR_DONE", "SEND_HELO_RESPONSE"}
        /\ command'.verb \in {"none", "HELO"}
    BY <1>1, <1>6, SendsTo
  <2>2. QED
    BY <1>1, <1>2, <1>3, <2>1, Apart DEF EndStages, Authenticating, Answered
<1>7. QED
  BY <1>4, <1>5, <1>6 DEF SendEhloResponse

LEMMA TLSKeeps == ASSUME IInv, AuthInv, SendTLSResponse PROVE AuthInv'
<1>1. /\ m_nextState = "TLS_RESPONSE" /\ m_nextState # "RESPONSE" /\ CommandFits
      /\ Stage = "TLS_RESPONSE" /\ Seen = m_responseCode
      /\ UNCHANGED <<dialogue, refused, offered>>
  BY DEF SendTLSResponse, Stage, Seen, server, IInv
<1>2. /\ dialogue = {} /\ offered \in Offers \cup {{}} /\ OneOffer
      /\ m_flags \cap refused \subseteq {"EXTERNAL"}
      /\ m_responseCode = 220 => refused = {}
  BY <1>1 DEF AuthInv, Talking, Tried, OneOffer, Failing, Authenticating, Answered, EndStages
<1>3. OneOffer'
  BY <1>1, <1>2, OneOfferLeft, TLSOutcomes
<1>4. CASE Fail
  <2>1. Stage' = "ERROR_DONE" /\ command'.verb \in {"none", "QUIT"}
    BY <1>1, <1>4, SendsTo DEF Fail
  <2>2. QED
    BY <1>3, <2>1, Apart DEF EndStages, Authenticating, Answered
<1>5. CASE Goto("AUTH_PROCESS_STATE") /\ m_flags' = m_flags \ {"STARTTLS"}
  <2>1. Stage' = "AUTH_PROCESS_STATE" /\ command'.verb = "none"
    BY <1>1, <1>5, GoesTo
  <2>2. QED
    BY <1>1, <1>2, <1>3, <1>5, <2>1, Choosing
<1>6. CASE m_responseCode = 220 /\ m_nextState' = "EXTN_LOGIN_RESPONSE" /\ command' = command
  <2>1. Stage' = "EXTN_LOGIN_RESPONSE" /\ command'.verb = "none"
    BY <1>1, <1>6 DEF Stage, CommandFits, NoCommand, Cmd
  <2>2. QED
    BY <1>1, <1>2, <1>3, <1>6, <2>1, Apart DEF Authenticating, Answered
<1>7. QED
  BY <1>4, <1>5, <1>6 DEF SendTLSResponse
-----------------------------------------------------------------------------
(* The handlers that authenticate                                          *)

LEMMA ChoiceKeeps == ASSUME IInv, AuthInv, ProcessAuth PROVE AuthInv'
<1>1. /\ m_nextState = "AUTH_PROCESS_STATE" /\ m_nextState # "RESPONSE" /\ CommandFits
      /\ Stage = "AUTH_PROCESS_STATE" /\ UNCHANGED known
  BY DEF ProcessAuth, Stage, flags, server, known, IInv
<1>2. dialogue = {} /\ m_flags \cap refused \subseteq {"EXTERNAL"}
  BY <1>1 DEF AuthInv, Talking, Tried, Failing, Authenticating, Answered, EndStages
<1>3. OneOffer'
  BY <1>1, OneOfferLeft DEF AuthInv, OneOffer, known
<1>4. CASE Fail
  BY <1>1, <1>4, FailsAway
<1>5. CASE Send(Cmd("STARTTLS", {}), "TLS_RESPONSE")
  <2>1. CASE Stage' = "ERROR_DONE" /\ command'.verb = "none"
    BY <1>1, <2>1, Elsewhere DEF EndStages, Authenticating, Answered
  <2>2. CASE Stage' = "TLS_RESPONSE" /\ command'.verb = "STARTTLS" /\ Seen' = 0
    BY <1>1, <1>2, <1>3, <2>2 DEF AuthInv, FlagsSteer, Talking, Speaking, Heard, Tried,
       Failing, Authenticating, Answered, Stage, known
  <2>3. QED
    BY <1>1, <1>5, <2>1, <2>2, SendsTo
<1>6. CASE Send(Cmd("AUTH", {"EXTERNAL"}), "AUTH_EXTERNAL_RESPONSE") /\ "EXTERNAL" \in m_flags
  <2>1. CASE Stage' = "ERROR_DONE" /\ command'.verb = "none"
    BY <1>1, <2>1, Elsewhere DEF EndStages, Authenticating, Answered
  <2>2. CASE /\ Stage' = "AUTH_EXTERNAL_RESPONSE" /\ Seen' = 0
             /\ command'.verb = "AUTH" /\ command'.params = {"EXTERNAL"}
    BY <1>1, <1>2, <1>3, <1>6, <2>2 DEF AuthInv, FlagsSteer, Talking, Speaking, Heard, Tried,
       Failing, Authenticating, Answered, Stage, known
  <2>3. QED
    BY <1>1, <1>6, <2>1, <2>2, SendsTo
<1>7. CASE Proceed(AuthState)
  <2>1. /\ AuthState # "RESPONSE"
        /\ AuthState \in {"SEND_HELO_RESPONSE", "SEND_AUTH_GSSAPI_FIRST",
                         "SEND_AUTH_LOGIN_STEP1", "SEND_AUTH_LOGIN_STEP0"}
    BY DEF AuthState
  <2>2. Stage' = AuthState /\ command'.verb = "none"
    BY <1>1, <1>7, <2>1, GoesTo DEF Proceed
  <2>3. CASE AuthState = "SEND_HELO_RESPONSE"
    BY <1>1, <1>2, <2>2, <2>3, Elsewhere DEF Authenticating, Answered
  <2>4. CASE AuthState = "SEND_AUTH_GSSAPI_FIRST" /\ "GSSAPI" \in m_flags
    BY <1>1, <1>2, <1>3, <2>2, <2>4 DEF AuthInv, FlagsSteer, Talking, Speaking, Heard, Tried,
       Failing, Authenticating, Answered, Stage, known
  <2>5. CASE /\ AuthState = "SEND_AUTH_LOGIN_STEP1" /\ "GSSAPI" \notin m_flags
             /\ m_flags \cap OneLine # {}
    BY <1>1, <1>2, <1>3, <2>2, <2>5 DEF AuthInv, FlagsSteer, Talking, Speaking, Heard, Tried,
       Failing, Authenticating, Answered, Stage, known
  <2>6. CASE /\ AuthState = "SEND_AUTH_LOGIN_STEP0"
             /\ m_flags \cap ({"GSSAPI"} \cup OneLine) = {}
             /\ m_flags \cap {"MSN", "LOGIN"} # {}
    BY <1>1, <1>2, <1>3, <2>2, <2>6 DEF AuthInv, FlagsSteer, Talking, Speaking, Heard, Tried,
       Failing, Authenticating, Answered, Stage, known
  <2>7. QED
    BY <2>3, <2>4, <2>5, <2>6 DEF AuthState, OneLine
<1>8. QED
  BY <1>4, <1>5, <1>6, <1>7 DEF ProcessAuth

\* The answer is that the mechanism has failed.
LEMMA FailureKeeps ==
    ASSUME IInv, AuthInv, AuthLoginResponse, m_responseCode \notin 200 .. 399
    PROVE  AuthInv'
<1>1. /\ m_nextState \in {"AUTH_LOGIN_RESPONSE", "AUTH_EXTERNAL_RESPONSE"}
      /\ m_nextState # "RESPONSE" /\ CommandFits
      /\ Stage = m_nextState /\ Seen = m_responseCode
      /\ UNCHANGED <<m_origAuthFlags, dialogue, offered>>
  BY DEF AuthLoginResponse, Stage, Seen, IInv
<1>2. dialogue = {} /\ (m_flags \ First(m_flags)) \cap refused \subseteq {"EXTERNAL"}
  <2>1. m_responseCode \notin 300 .. 399
    OBVIOUS
  <2>2. m_nextState = "AUTH_LOGIN_RESPONSE" => m_responseCode # 0
    BY DEF AuthInv, Heard, Answered
  <2>3. QED
    BY <1>1, <2>1, <2>2 DEF AuthInv, Talking, Tried, Failing, Authenticating, Answered, EndStages
<1>3. Stage' = "AUTH_PROCESS_STATE" /\ command'.verb = "none"
  BY <1>1, GoesTo DEF AuthLoginResponse, Proceed
<1>4. CASE m_flags' = m_flags \ First(m_flags) /\ refused' = refused
  <2>1. OneOffer'
    BY <1>1, <1>4, OneOfferLeft DEF AuthInv, OneOffer
  <2>2. QED
    BY <1>1, <1>2, <1>3, <1>4, <2>1, Choosing
<1>5. CASE m_flags' \subseteq m_flags \cup m_origAuthFlags /\ refused' = {}
  <2>1. OneOffer'
    BY <1>1, <1>5, OneOfferLeft DEF AuthInv, OneOffer
  <2>2. QED
    BY <1>1, <1>2, <1>3, <1>5, <2>1, Choosing
<1>6. QED
  BY <1>4, <1>5, GivenUpIsFirst DEF AuthLoginResponse

LEMMA ResponseKeeps == ASSUME IInv, AuthInv, AuthLoginResponse PROVE AuthInv'
<1>1. /\ m_nextState \in {"AUTH_LOGIN_RESPONSE", "AUTH_EXTERNAL_RESPONSE"}
      /\ m_nextState # "RESPONSE" /\ CommandFits
      /\ Stage = m_nextState /\ Seen = m_responseCode
  BY DEF AuthLoginResponse, Stage, Seen, IInv
<1>2. CASE m_responseCode \in 200 .. 299 /\ Proceed("SEND_HELO_RESPONSE") /\ UNCHANGED known
  <2>1. m_responseCode # 0 /\ m_responseCode \notin 300 .. 399
    BY <1>2
  <2>2. dialogue = {}
    BY <1>1, <2>1 DEF AuthInv, Talking, Authenticating, Answered, EndStages
  <2>3. Stage' = "SEND_HELO_RESPONSE" /\ command'.verb = "none"
    BY <1>1, <1>2, GoesTo DEF Proceed
  <2>4. QED
    BY <1>2, <2>2, <2>3, Elsewhere DEF EndStages, Authenticating, Answered
<1>3. CASE m_responseCode \in 300 .. 399 /\ Proceed("SEND_AUTH_LOGIN_STEP2") /\ UNCHANGED known
  <2>1. m_responseCode # 0 /\ m_responseCode \in 200 .. 399
    BY <1>3
  <2>2. m_nextState = "AUTH_LOGIN_RESPONSE"
    BY <1>1, <1>3 DEF AuthInv, Talking
  <2>3. /\ dialogue = First(m_flags) /\ First(m_flags) = {Step2Line}
        /\ m_flags \cap refused \subseteq {"EXTERNAL"} /\ OneOffer
    BY <1>1, <1>3, <2>1, <2>2 DEF AuthInv, Talking, Tried, Failing, Authenticating, Answered
  <2>4. Stage' = "SEND_AUTH_LOGIN_STEP2" /\ command'.verb = "none"
    BY <1>1, <1>3, GoesTo DEF Proceed
  <2>5. Step2Line' = Step2Line
    BY <1>3 DEF Step2Line, known
  <2>6. OneOffer'
    BY <1>3, <2>3, OneOfferLeft DEF OneOffer, known
  <2>7. FlagsSteer' /\ Speaking' /\ Heard'
    BY <2>4 DEF FlagsSteer, Speaking, Heard, Stage, Answered
  <2>8. Talking' /\ Tried'
    BY <1>3, <2>3, <2>4, <2>5 DEF Talking, Tried, Failing, Authenticating, Answered, known
  <2>9. QED
    BY <2>6, <2>7, <2>8 DEF AuthInv
<1>4. CASE m_responseCode \notin 200 .. 399
  BY <1>4, FailureKeeps
<1>5. QED
  BY <1>2, <1>3, <1>4 DEF AuthLoginResponse, known

LEMMA GSSAPIFirstKeeps == ASSUME IInv, AuthInv, AuthGSSAPIFirst PROVE AuthInv'
<1>1. /\ m_nextState = "SEND_AUTH_GSSAPI_FIRST" /\ m_nextState # "RESPONSE" /\ CommandFits
      /\ Stage = "SEND_AUTH_GSSAPI_FIRST"
      /\ UNCHANGED <<m_origAuthFlags, dialogue, challenges, refused, offered>>
  BY DEF AuthGSSAPIFirst, Stage, server, IInv
<1>2. /\ dialogue = {} /\ m_flags \cap refused \subseteq {"EXTERNAL"}
      /\ "GSSAPI" \in m_flags /\ OneOffer
  BY <1>1 DEF AuthInv, FlagsSteer, Talking, Tried, Failing, Authenticating, Answered
<1>3. CASE Send(Cmd("AUTH", {"GSSAPI"}), "SEND_AUTH_GSSAPI_STEP") /\ UNCHANGED m_flags
  <2>1. UNCHANGED known
    BY <1>1, <1>3 DEF known
  <2>2. CASE Stage' = "ERROR_DONE" /\ command'.verb = "none"
    BY <2>1, <2>2, Elsewhere DEF EndStages, Authenticating, Answered
  <2>3. CASE /\ Stage' = "SEND_AUTH_GSSAPI_STEP" /\ Seen' = 0
             /\ command'.verb = "AUTH" /\ command'.params = {"GSSAPI"}
    <3>1. First(m_flags') = {"GSSAPI"}
      BY <1>2, <1>3 DEF First
    <3>2. OneOffer'
      BY <1>2, <2>1, OneOfferLeft DEF OneOffer, known
    <3>3. m_nextState' = "RESPONSE"
      BY <1>1, <1>3, <2>3 DEF Send, Stage
    <3>4. FlagsSteer' /\ Talking' /\ Heard'
      BY <1>2, <2>1, <2>3, <3>3 DEF FlagsSteer, Talking, Heard, Answered, known
    <3>5. Speaking' /\ Tried'
      BY <1>2, <2>1, <2>3, <3>1 DEF Speaking, Tried, Failing, known
    <3>6. QED
      BY <3>2, <3>4, <3>5 DEF AuthInv
  <2>4. QED
    BY <1>1, <1>3, <2>2, <2>3, SendsTo
<1>4. CASE Goto("AUTH_PROCESS_STATE") /\ m_flags' = m_flags \ {"GSSAPI"}
  <2>1. Stage' = "AUTH_PROCESS_STATE" /\ command'.verb = "none"
    BY <1>1, <1>4, GoesTo
  <2>2. OneOffer'
    BY <1>1, <1>2, <1>4, OneOfferLeft DEF OneOffer
  <2>3. QED
    BY <1>1, <1>2, <1>4, <2>1, <2>2, Choosing
<1>5. QED
  BY <1>3, <1>4 DEF AuthGSSAPIFirst
LEMMA GSSAPIStepKeeps == ASSUME IInv, AuthInv, AuthGSSAPIStep PROVE AuthInv'
<1>1. /\ m_nextState = "SEND_AUTH_GSSAPI_STEP" /\ m_nextState # "RESPONSE" /\ CommandFits
      /\ Stage = "SEND_AUTH_GSSAPI_STEP" /\ Seen = m_responseCode /\ m_responseCode # 0
      /\ m_responseCode' = m_responseCode /\ UNCHANGED known
  BY DEF AuthGSSAPIStep, Stage, Seen, flags, server, known, IInv, AuthInv, Heard, Answered
<1>2. /\ OneOffer /\ "GSSAPI" \in m_flags /\ First(m_flags) = {"GSSAPI"}
      /\ dialogue = IF m_responseCode \in 300 .. 399 THEN {"GSSAPI"} ELSE {}
      /\ Failing <=> m_responseCode \notin 200 .. 399
      /\ IF Failing THEN (m_flags \ First(m_flags)) \cap refused \subseteq {"EXTERNAL"}
                    ELSE m_flags \cap refused \subseteq {"EXTERNAL"}
  BY <1>1 DEF AuthInv, FlagsSteer, Talking, Tried, Failing, Authenticating, Answered, First
<1>3. OneOffer' /\ First(m_flags') = First(m_flags)
  BY <1>1, <1>2, OneOfferLeft DEF OneOffer, known
<1>4. CASE Goto("AUTH_LOGIN_RESPONSE") /\ m_responseCode \notin 300 .. 399
  <2>1. /\ Stage' = "AUTH_LOGIN_RESPONSE" /\ Seen' = m_responseCode
        /\ command'.verb = "none" /\ Heard'
    BY <1>1, <1>4, GoesTo DEF Heard
  <2>2. FlagsSteer' /\ Talking' /\ Speaking'
    BY <1>1, <1>2, <1>4, <2>1 DEF FlagsSteer, Talking, Speaking, Answered, known
  <2>3. Tried'
    BY <1>1, <1>2, <1>3, <2>1 DEF Tried, Failing, Answered, known
  <2>4. QED
    BY <1>3, <2>1, <2>2, <2>3 DEF AuthInv
<1>5. CASE m_responseCode \in 300 .. 399
  <2>1. /\ dialogue' = {"GSSAPI"} /\ First(m_flags') = {"GSSAPI"} /\ "GSSAPI" \in m_flags'
        /\ m_flags' \cap refused' \subseteq {"EXTERNAL"}
    BY <1>1, <1>2, <1>3, <1>5 DEF known
  <2>2. CASE Stage' = "ERROR_DONE" /\ command'.verb = "none"
    BY <1>1, <2>2, Elsewhere DEF EndStages, Authenticating, Answered
  <2>3. CASE /\ Stage' \in {"SEND_AUTH_GSSAPI_STEP", "AUTH_LOGIN_RESPONSE"} /\ Seen' = 0
             /\ \/ command'.verb = "cancel" /\ Stage' = "SEND_AUTH_GSSAPI_STEP"
                \/ /\ command'.verb = "line" /\ command'.params = {"GSSAPI"}
                   /\ Stage' = "AUTH_LOGIN_RESPONSE" => challenges' = 0
    <3>1. Heard'
      BY <1>1 DEF Heard
    <3>2. FlagsSteer' /\ Talking'
      BY <2>1, <2>3 DEF FlagsSteer, Talking, Authenticating, Answered
    <3>3. Speaking' /\ Tried'
      BY <2>1, <2>3 DEF Speaking, Tried, Failing
    <3>4. QED
      BY <1>3, <3>1, <3>2, <3>3 DEF AuthInv
  <2>4. CASE Send(Cmd("cancel", {}), "SEND_AUTH_GSSAPI_STEP")
    BY <1>1, <2>2, <2>3, <2>4, SendsTo
  <2>5. CASE Send(Cmd("line", {"GSSAPI"}), "AUTH_LOGIN_RESPONSE") /\ challenges = 0
    BY <1>1, <2>2, <2>3, <2>5, SendsTo DEF known
  <2>6. CASE Send(Cmd("line", {"GSSAPI"}), "SEND_AUTH_GSSAPI_STEP")
    BY <1>1, <2>2, <2>3, <2>6, SendsTo
  <2>7. QED
    BY <1>5, <2>4, <2>5, <2>6 DEF AuthGSSAPIStep
<1>6. QED
  BY <1>4, <1>5 DEF AuthGSSAPIStep

LEMMA Step0Keeps == ASSUME IInv, AuthInv, AuthLoginStep0 PROVE AuthInv'
<1> DEFINE m == IF "MSN" \in m_flags THEN "MSN" ELSE "LOGIN"
<1>1. /\ m_nextState = "SEND_AUTH_LOGIN_STEP0" /\ m_nextState # "RESPONSE" /\ CommandFits
      /\ Stage = "SEND_AUTH_LOGIN_STEP0" /\ UNCHANGED known
      /\ Send(Cmd("AUTH", {m}), "AUTH_LOGIN_STEP0_RESPONSE")
  BY DEF AuthLoginStep0, Stage, flags, server, known, IInv
<1>2. /\ dialogue = {} /\ OneOffer /\ m_flags \cap refused \subseteq {"EXTERNAL"}
      /\ m_flags \cap ({"GSSAPI"} \cup OneLine) = {} /\ m_flags \cap {"MSN", "LOGIN"} # {}
  BY <1>1 DEF AuthInv, FlagsSteer, Talking, Tried, Failing, Authenticating, Answered
<1>3. First(m_flags) = {m}
  BY <1>2 DEF First, OneLine
<1>4. OneOffer'
  BY <1>1, <1>2, OneOfferLeft DEF OneOffer, known
<1>5. CASE Stage' = "ERROR_DONE" /\ command'.verb = "none"
  BY <1>1, <1>5, Elsewhere DEF EndStages, Authenticating, Answered
<1>6. CASE /\ Stage' = "AUTH_LOGIN_STEP0_RESPONSE" /\ Seen' = 0
           /\ command'.verb = "AUTH" /\ command'.params = {m}
  <2>1. m_nextState' = "RESPONSE"
    BY <1>1, <1>6 DEF Send, Stage
  <2>2. First(m_flags') = {m}
    BY <1>1, <1>3 DEF known
  <2> HIDE DEF m
  <2>3. FlagsSteer' /\ Talking' /\ Heard'
    BY <1>1, <1>2, <1>6, <2>1 DEF FlagsSteer, Talking, Heard, Answered, known
  <2>4. Speaking' /\ Tried'
    BY <1>1, <1>2, <1>6, <2>2 DEF Speaking, Tried, Failing, known
  <2>5. QED
    BY <1>4, <2>3, <2>4 DEF AuthInv
<1> HIDE DEF m
<1>7. QED
  BY <1>1, <1>5, <1>6, SendsTo

LEMMA Step0ResponseKeeps == ASSUME IInv, AuthInv, AuthLoginStep0Response PROVE AuthInv'
<1>1. /\ m_nextState = "AUTH_LOGIN_STEP0_RESPONSE" /\ m_nextState # "RESPONSE" /\ CommandFits
      /\ Stage = "AUTH_LOGIN_STEP0_RESPONSE" /\ Seen = m_responseCode /\ m_responseCode # 0
      /\ m_responseCode' = m_responseCode /\ UNCHANGED known
  BY DEF AuthLoginStep0Response, Stage, Seen, flags, server, known, IInv, AuthInv, Heard, Answered
<1>2. /\ OneOffer /\ m_flags \cap ({"GSSAPI"} \cup OneLine) = {}
      /\ m_flags \cap {"MSN", "LOGIN"} # {}
      /\ dialogue = IF m_responseCode \in 300 .. 399 THEN First(m_flags) ELSE {}
      /\ Failing <=> m_responseCode \notin 200 .. 399
      /\ IF Failing THEN (m_flags \ First(m_flags)) \cap refused \subseteq {"EXTERNAL"}
                    ELSE m_flags \cap refused \subseteq {"EXTERNAL"}
  BY <1>1 DEF AuthInv, FlagsSteer, Talking, Tried, Failing, Authenticating, Answered
<1>3. OneOffer' /\ First(m_flags') = First(m_flags) /\ Heard'
  BY <1>1, <1>2, OneOfferLeft DEF OneOffer, Heard, known
<1>4. CASE Goto("AUTH_LOGIN_RESPONSE") /\ m_responseCode \notin 300 .. 399
  <2>1. Stage' = "AUTH_LOGIN_RESPONSE" /\ Seen' = m_responseCode /\ command'.verb = "none"
    BY <1>1, <1>4, GoesTo
  <2>2. FlagsSteer' /\ Talking' /\ Speaking'
    BY <1>1, <1>2, <1>4, <2>1 DEF FlagsSteer, Talking, Speaking, Answered, known
  <2>3. Tried'
    BY <1>1, <1>2, <1>3, <2>1 DEF Tried, Failing, Answered, known
  <2>4. QED
    BY <1>3, <2>2, <2>3 DEF AuthInv
<1>5. CASE Goto("SEND_AUTH_LOGIN_STEP1") /\ m_responseCode \in 300 .. 399
  <2>1. Stage' = "SEND_AUTH_LOGIN_STEP1" /\ command'.verb = "none"
    BY <1>1, <1>5, GoesTo
  <2>2. FlagsSteer' /\ Talking' /\ Speaking'
    BY <1>1, <1>2, <1>3, <1>5, <2>1
       DEF FlagsSteer, Talking, Speaking, Authenticating, Answered, OneLine, known
  <2>3. Tried'
    BY <1>1, <1>2, <1>5, <2>1 DEF Tried, Failing, Answered, known
  <2>4. QED
    BY <1>3, <2>2, <2>3 DEF AuthInv
<1>6. QED
  BY <1>4, <1>5 DEF AuthLoginStep0Response

\* The mechanism that AuthLoginStep1 goes on with is the first of those left, but
\* for MSN beside PLAIN.
LEMMA Step1Fits ==
    ASSUME "GSSAPI" \notin m_flags, m_flags \cap (OneLine \cup {"MSN", "LOGIN"}) # {},
           dialogue = IF m_flags \cap OneLine = {} THEN First(m_flags) ELSE {}
    PROVE  \/ /\ Step1Command.verb = "AUTH" /\ Step1Command.params = First(m_flags)
              /\ First(m_flags) \in {{"PLAIN"}, {Step2Line}} /\ dialogue = {}
           \/ /\ Step1Command.verb = "line" /\ Step1Command.params = dialogue
              /\ First(m_flags) = {Step2Line}
           \/ /\ Step1Command.verb = "line" /\ dialogue = {}
              /\ {"MSN", "PLAIN"} \subseteq m_flags
  BY DEF Step1Command, Step2Line, First, OneLine, Cmd

LEMMA Step1Keeps == ASSUME IInv, AuthInv, AuthLoginStep1 PROVE AuthInv'
<1>1. /\ m_nextState = "SEND_AUTH_LOGIN_STEP1" /\ m_nextState # "RESPONSE" /\ CommandFits
      /\ Stage = "SEND_AUTH_LOGIN_STEP1" /\ UNCHANGED known
  BY DEF AuthLoginStep1, Stage, flags, server, known, IInv
<1>2. CASE Fail
  BY <1>1, <1>2, FailsAway
<1>3. CASE Send(Step1Command, "AUTH_LOGIN_RESPONSE")
  <2>1. /\ OneOffer /\ "GSSAPI" \notin m_flags
        /\ m_flags \cap (OneLine \cup {"MSN", "LOGIN"}) # {}
        /\ m_flags \cap refused \subseteq {"EXTERNAL"}
        /\ dialogue = IF m_flags \cap OneLine = {} THEN First(m_flags) ELSE {}
    BY <1>1 DEF AuthInv, FlagsSteer, Talking, Tried, Failing, Authenticating, Answered
  <2>2. Step1Command = Cmd(Step1Command.verb, Step1Command.params)
    BY DEF Step1Command, Cmd
  <2>3. Step2Line' = Step2Line /\ First(m_flags') = First(m_flags) /\ OneOffer'
    BY <1>1, <2>1, OneOfferLeft DEF Step2Line, OneOffer, known
  <2>4. CASE Stage' = "ERROR_DONE" /\ command'.verb = "none"
    BY <1>1, <2>4, Elsewhere DEF EndStages, Authenticating, Answered
  <2>5. CASE /\ Stage' = "AUTH_LOGIN_RESPONSE" /\ Seen' = 0
             /\ command'.verb = Step1Command.verb /\ command'.params = Step1Command.params
    <3>1. m_nextState' = "RESPONSE"
      BY <1>1, <1>3, <2>5 DEF Send, Stage
    <3>2. dialogue \in {{}, First(m_flags)}
      BY <2>1
    <3>3. FlagsSteer' /\ Talking' /\ Heard'
      BY <1>1, <2>3, <2>5, <3>1, <3>2
         DEF FlagsSteer, Talking, Heard, Authenticating, Answered, known
    <3>4. Speaking'
      BY <1>1, <2>1, <2>3, <2>5, Step1Fits DEF Speaking, known
    <3>5. Tried'
      BY <1>1, <2>1, <2>5 DEF Tried, Failing, known
    <3>6. QED
      BY <2>3, <3>3, <3>4, <3>5 DEF AuthInv
  <2>6. QED
    BY <1>1, <1>3, <2>2, <2>4, <2>5, SendsTo
<1>4. QED
  BY <1>2, <1>3 DEF AuthLoginStep1

LEMMA Step2Keeps == ASSUME IInv, AuthInv, AuthLoginStep2 PROVE AuthInv'
<1>1. /\ m_nextState = "SEND_AUTH_LOGIN_STEP2" /\ m_nextState # "RESPONSE" /\ CommandFits
      /\ Stage = "SEND_AUTH_LOGIN_STEP2" /\ UNCHANGED known
      /\ Send(Cmd("line", {Step2Line}), "AUTH_LOGIN_RESPONSE")
  BY DEF AuthLoginStep2, Stage, flags, server, known, IInv
<1>2. /\ OneOffer /\ dialogue = {Step2Line} /\ dialogue = First(m_flags)
      /\ m_flags \cap refused \subseteq {"EXTERNAL"}
  BY <1>1 DEF AuthInv, Talking, Tried, Failing, Authenticating, Answered
<1>3. Step2Line' = Step2Line /\ First(m_flags') = First(m_flags) /\ OneOffer'
  BY <1>1, <1>2, OneOfferLeft DEF Step2Line, OneOffer, known
<1>4. CASE Stage' = "ERROR_DONE" /\ command'.verb = "none"
  BY <1>1, <1>4, Elsewhere DEF EndStages, Authenticating, Answered
<1>5. CASE /\ Stage' = "AUTH_LOGIN_RESPONSE" /\ Seen' = 0
           /\ command'.verb = "line" /\ command'.params = {Step2Line}
  <2>1. m_nextState' = "RESPONSE"
    BY <1>1, <1>5 DEF Send, Stage
  <2>2. FlagsSteer' /\ Talking' /\ Heard'
    BY <1>1, <1>2, <1>3, <1>5, <2>1
       DEF FlagsSteer, Talking, Heard, Authenticating, Answered, known
  <2>3. Speaking' /\ Tried'
    BY <1>1, <1>2, <1>3, <1>5 DEF Speaking, Tried, Failing, known
  <2>4. QED
    BY <1>3, <2>2, <2>3 DEF AuthInv
<1>6. QED
  BY <1>1, <1>4, <1>5, SendsTo
-----------------------------------------------------------------------------
(* What the server answers                                                 *)

\* Only what the server says, and what it has refused, may matter then.
LEMMA Answering ==
    ASSUME TypeOK, CommandFits, AuthInv, ServerAnswers
    PROVE  /\ reply = 0 /\ Seen = 0 /\ Seen' = reply' /\ reply' # 0
           /\ m_nextState = "RESPONSE" /\ Stage \in StagesOf(command.verb)
           /\ UNCHANGED <<Stage, m_flags, m_origAuthFlags, command, Step2Line>>
           /\ ~ Failing
           /\ FlagsSteer' /\ Speaking' /\ Heard'
           /\ OneOffer'
<1>1. /\ m_nextState = "RESPONSE" /\ reply = 0
      /\ UNCHANGED <<machine, flags, tls, m_addressesLeft, m_sendDone, password,
                     choices, result, asked, channel, command>>
  BY ServerLeaves
<1>2. /\ Seen = 0 /\ Seen' = reply' /\ ~ Failing
      /\ UNCHANGED <<Stage, m_flags, m_origAuthFlags, command, Step2Line>>
  BY <1>1 DEF Seen, Stage, Failing, machine, flags, Step2Line
<1>3. reply' # 0
  <2>1. command.verb \in Verb \ {"none"}
    BY StagesKnown DEF ServerAnswers
  <2>2. \A code \in PlainAnswers[command.verb] : code # 0
    BY <2>1 DEF PlainAnswers, Verb
  <2>3. QED
    BY <2>2 DEF ServerAnswers, ServerDialogue, ServerAuth, Answer
<1>4. Stage \in StagesOf(command.verb)
  BY <1>1 DEF CommandFits, Stage
<1>5. FlagsSteer' /\ Speaking' /\ Heard'
  BY <1>1, <1>2, <1>3 DEF AuthInv, FlagsSteer, Speaking, Heard, Answered, machine
<1>6. offered' \in {offered, {}} \cup Offers
  BY DEF ServerAnswers, server
<1>7. OneOffer'
  BY <1>2, <1>6, OneOfferLeft DEF AuthInv, OneOffer
<1>8. QED
  BY <1>1, <1>2, <1>3, <1>4, <1>5, <1>7

\* The server goes on with a dialogue.
LEMMA DialogueKeeps ==
    ASSUME IInv, AuthInv, ServerAnswers, dialogue # {}
    PROVE  Talking' /\ Tried'
<1>1. TypeOK /\ CommandFits /\ ServerDialogue
  BY DEF IInv, ServerAnswers
<1>2. /\ reply = 0 /\ Seen = 0 /\ Seen' = reply' /\ ~ Failing
      /\ Stage \in StagesOf(command.verb)
      /\ UNCHANGED <<Stage, m_flags, command, Step2Line>> /\ First(m_flags') = First(m_flags)
  BY <1>1, Answering
<1>3. CASE Stage \in EndStages
  BY <1>2, <1>3 DEF Talking, Tried, EndStages, Authenticating, Answered
<1>4. CASE Stage \in Authenticating
  <2>1. Stage \in Answered /\ command.verb \in {"AUTH", "line", "cancel"}
    BY <1>1, <1>2, <1>4, StagesKnown DEF StagesOf, Verb, Authenticating, Answered
  <2>2. dialogue = First(m_flags) /\ m_flags \cap refused \subseteq {"EXTERNAL"}
    BY <1>2, <1>4 DEF AuthInv, Talking, Tried
  <2>3. CASE /\ command.verb = "line" /\ challenges > 0 /\ reply' = 334
             /\ UNCHANGED <<dialogue, refused>>
    <3>1. Stage = "AUTH_LOGIN_RESPONSE" => First(m_flags) = {Step2Line}
      <4>1. 0 \in Nat /\ ~ 0 > 0
        OBVIOUS
      <4>2. challenges # 0
        BY <2>3, <4>1
      <4>3. QED
        BY <1>2, <2>3, <4>2 DEF AuthInv, Speaking
    <3>2. Talking'
      BY <1>2, <2>1, <2>2, <2>3, <3>1 DEF Talking, Authenticating, Answered
    <3>3. Tried'
      BY <1>2, <2>1, <2>2, <2>3 DEF Tried, Failing, Authenticating, Answered
    <3>4. QED
      BY <3>2, <3>3
  <2>4. CASE reply' = 235 /\ dialogue' = {} /\ refused' = refused
    BY <1>2, <2>1, <2>2, <2>4 DEF Talking, Tried, Failing, Authenticating, Answered
  <2>5. CASE reply' = 535 /\ dialogue' = {} /\ refused' = refused \cup dialogue
    BY <1>2, <2>1, <2>2, <2>5 DEF Talking, Tried, Failing, Authenticating, Answered
  <2>6. QED
    BY <1>1, <2>3, <2>4, <2>5 DEF ServerDialogue, Answer
<1>5. QED
  BY <1>3, <1>4 DEF AuthInv, Talking

\* The server answers to AUTH.
LEMMA AuthAnswered ==
    ASSUME IInv, AuthInv, ServerAnswers, dialogue = {}, command.verb = "AUTH", ServerAuth
    PROVE  Talking' /\ Tried'
<1>1. TypeOK /\ CommandFits
  BY DEF IInv
<1>2. /\ reply = 0 /\ Seen = 0 /\ Seen' = reply' /\ ~ Failing
      /\ Stage \in Answered \cup {"AUTH_EXTERNAL_RESPONSE"}
      /\ UNCHANGED <<Stage, m_flags, command, Step2Line>> /\ First(m_flags') = First(m_flags)
  BY <1>1, Answering DEF StagesOf, Answered
<1>3. m_flags \cap refused \subseteq {"EXTERNAL"}
  BY <1>2 DEF AuthInv, Tried, Authenticating
<1>4. PICK m \in command.params :
         \/ Challenges(m) = 0 /\ reply' = 235 /\ UNCHANGED <<dialogue, refused>>
         \/ Challenges(m) > 0 /\ reply' = 334 /\ dialogue' = {m} /\ refused' = refused
         \/ reply' = 535 /\ refused' = refused \cup {m} /\ dialogue' = dialogue
  BY DEF ServerAuth, Answer
<1>5. CASE Stage = "AUTH_EXTERNAL_RESPONSE"
  <2>1. m = "EXTERNAL"
    BY <1>2, <1>4, <1>5 DEF AuthInv, Speaking
  <2>2. ~ Challenges(m) > 0
    BY <2>1 DEF Challenges
  <2>3. QED
    BY <1>2, <1>3, <1>4, <1>5, <2>1, <2>2 DEF Talking, Tried, Failing, Authenticating, Answered
<1>6. CASE Stage \in Answered
  <2>1. {m} = First(m_flags)
    <3>1. m \in First(m_flags)
      BY <1>2, <1>4, <1>6 DEF AuthInv, Speaking, Answered
    <3>2. QED
      BY <3>1, FirstOf
  <2>2. CASE Challenges(m) = 0 /\ reply' = 235 /\ UNCHANGED <<dialogue, refused>>
    BY <1>2, <1>3, <1>6, <2>2 DEF Talking, Tried, Failing, Authenticating, Answered
  <2>3. CASE Challenges(m) > 0 /\ reply' = 334 /\ dialogue' = {m} /\ refused' = refused
    <3>1. m # "PLAIN"
      BY <2>3 DEF Challenges
    <3>2. Stage = "AUTH_LOGIN_RESPONSE" => First(m_flags) = {Step2Line}
      BY <1>2, <2>1, <3>1 DEF AuthInv, Speaking
    <3>3. QED
      BY <1>2, <1>3, <1>6, <2>1, <2>3, <3>2 DEF Talking, Tried, Failing, Authenticating, Answered
  <2>4. CASE reply' = 535 /\ refused' = refused \cup {m} /\ dialogue' = dialogue
    BY <1>2, <1>3, <1>6, <2>1, <2>4 DEF Talking, Tried, Failing, Authenticating, Answered
  <2>5. QED
    BY <1>4, <2>2, <2>3, <2>4
<1>7. QED
  BY <1>2, <1>5, <1>6

\* The server answers to anything else.
LEMMA OtherAnswers ==
    ASSUME IInv, AuthInv, ServerAnswers, dialogue = {}, command.verb # "AUTH" \/ ~ ServerAuth
    PROVE  Talking' /\ Tried'
<1>1. TypeOK /\ CommandFits
  BY DEF IInv
<1>2. /\ reply = 0 /\ Seen = 0 /\ Seen' = reply' /\ ~ Failing
      /\ Stage \in StagesOf(command.verb)
      /\ UNCHANGED <<Stage, m_flags, command, Step2Line>> /\ First(m_flags') = First(m_flags)
  BY <1>1, Answering
<1>3. /\ dialogue' = {} /\ refused' \in {refused, {}}
      /\ command.verb = "STARTTLS" => reply' # 220 \/ refused' = {}
      /\ command.verb \in {"line", "cancel"} => reply' = 500
      /\ command.verb # "AUTH"
  BY DEF ServerAnswers, server, PlainAnswers, Answer
<1>4. Stage = "TLS_RESPONSE" => command.verb = "STARTTLS"
  BY <1>1, <1>2, StagesKnown DEF StagesOf, Verb
<1>5. Stage \in Answered \cup {"AUTH_EXTERNAL_RESPONSE"} => command.verb \in {"line", "cancel"}
  BY <1>1, <1>2, <1>3, StagesKnown DEF StagesOf, Verb, Answered
<1>6. Stage \notin {"SEND_AUTH_GSSAPI_FIRST", "SEND_AUTH_LOGIN_STEP0", "SEND_AUTH_LOGIN_STEP1",
                   "SEND_AUTH_LOGIN_STEP2", "AUTH_PROCESS_STATE"}
  BY <1>1, <1>2, StagesKnown
<1>7. Talking'
  BY <1>2, <1>3, <1>5, <1>6 DEF Talking, Authenticating, Answered
<1>8. Tried'
  BY <1>2, <1>3, <1>4, <1>6 DEF AuthInv, Tried, Failing, Authenticating, Answered
<1>9. QED
  BY <1>7, <1>8

LEMMA ServerKeeps == ASSUME IInv, AuthInv, ServerAnswers PROVE AuthInv'
<1>1. Talking' /\ Tried'
  BY DialogueKeeps, AuthAnswered, OtherAnswers
<1>2. FlagsSteer' /\ Speaking' /\ Heard' /\ OneOffer'
  BY Answering DEF IInv
<1>3. QED
  BY <1>1, <1>2 DEF AuthInv
-----------------------------------------------------------------------------
(* The theorems                                                            *)

LEMMA AuthInitially == Init => AuthInv
<1> SUFFICES ASSUME Init PROVE AuthInv
  OBVIOUS
<1>1. /\ Stage = "START_CONNECT" /\ command.verb = "none" /\ m_nextState = "START_CONNECT"
      /\ m_flags = {} /\ m_origAuthFlags = {} /\ dialogue = {} /\ refused = {} /\ offered = {}
  BY DEF Init, Stage, NoCommand, Cmd
<1>2. FlagsSteer /\ Talking /\ Speaking /\ Heard /\ Tried
  BY <1>1 DEF FlagsSteer, Talking, Speaking, Heard, Tried, Failing, Authenticating, Answered
<1>3. OneOffer
  BY <1>1 DEF OneOffer
<1>4. QED
  BY <1>2, <1>3 DEF AuthInv

LEMMA AuthStep == IInv /\ AuthInv /\ [Next]_vars => AuthInv'
  BY OtherHandlers, SteadySteps, EhloKeeps, TLSKeeps, ChoiceKeeps, ResponseKeeps,
     GSSAPIFirstKeeps, GSSAPIStepKeeps, Step0Keeps, Step0ResponseKeeps, Step1Keeps,
     Step2Keeps, ServerKeeps DEF Next, Client

LEMMA AuthInvariance == Spec => [](IInv /\ AuthInv)
<1>1. Init => IInv /\ AuthInv
  BY Initially, AuthInitially
<1>2. IInv /\ AuthInv /\ [Next]_vars => IInv' /\ AuthInv'
  BY Inductive, AuthStep
<1>3. QED
  BY <1>1, <1>2, PTL DEF Spec

\* AUTH names a mechanism that was not refused with the password in use, whatever
\* the server offers, but for EXTERNAL, which has no password: AuthLoginResponse
\* never gives it up.  From a server that does not offer it, FallsBack follows.
THEOREM RefusedIsNotRetried ==
    /\ Spec => [](command.verb = "AUTH" /\ reply = 0 =>
                     command.params \cap refused \subseteq {"EXTERNAL"})
    /\ (\A o \in Offers : "EXTERNAL" \notin o) => (Spec => []FallsBack)
<1>1. ASSUME IInv, AuthInv, command.verb = "AUTH", reply = 0
      PROVE  /\ command.params \cap refused \subseteq {"EXTERNAL"}
             /\ command.params \subseteq m_flags
  <2>1. TypeOK /\ CommandFits
    BY <1>1 DEF IInv
  <2>2. m_nextState = "RESPONSE" /\ Stage \in Answered \cup {"AUTH_EXTERNAL_RESPONSE"}
    BY <1>1, <2>1 DEF CommandFits, Stage, StagesOf, Answered, NoCommand, Cmd
  <2>3. command.params \subseteq m_flags
    BY <1>1, <2>2, FirstOf DEF AuthInv, Speaking
  <2>4. m_flags \cap refused \subseteq {"EXTERNAL"}
    BY <1>1, <2>2 DEF AuthInv, Tried, Failing, Seen, Authenticating
  <2>5. QED
    BY <2>3, <2>4
<1>2. IInv /\ AuthInv => (command.verb = "AUTH" /\ reply = 0 =>
                              command.params \cap refused \subseteq {"EXTERNAL"})
  BY <1>1
<1>3. Spec => [](command.verb = "AUTH" /\ reply = 0 =>
                     command.params \cap refused \subseteq {"EXTERNAL"})
  BY <1>2, AuthInvariance, PTL
<1>4. ASSUME \A o \in Offers : "EXTERNAL" \notin o
      PROVE  Spec => []FallsBack
  <2>1. IInv /\ AuthInv => FallsBack
    <3>1. AuthInv => "EXTERNAL" \notin m_flags
      BY <1>4 DEF AuthInv, OneOffer, Mechanism
    <3>2. QED
      BY <1>1, <3>1 DEF FallsBack
  <2>2. QED
    BY <2>1, AuthInvariance, PTL
<1>5. QED
  BY <1>3, <1>4

\* A line that is no command belongs to the dialogue that goes on, whatever the
\* server offers, but for MSN beside PLAIN: there AuthLoginStep1 sends a line of
\* MSN where no AUTH has opened a dialogue.  From a server that does not offer
\* both, LineInDialogue follows.
THEOREM LinesAreOfTheDialogue ==
    /\ Spec => [](command.verb = "line" /\ reply = 0 =>
                     \/ command.params = dialogue
                     \/ dialogue = {} /\ {"MSN", "PLAIN"} \subseteq m_flags)
    /\ (\A o \in Offers : ~ ({"MSN", "PLAIN"} \subseteq o)) => (Spec => []LineInDialogue)
<1>1. IInv /\ AuthInv => (command.verb = "line" /\ reply = 0 =>
                              \/ command.params = dialogue
                              \/ dialogue = {} /\ {"MSN", "PLAIN"} \subseteq m_flags)
  BY DEF AuthInv, Speaking
<1>2. Spec => [](command.verb = "line" /\ reply = 0 =>
                     \/ command.params = dialogue
                     \/ dialogue = {} /\ {"MSN", "PLAIN"} \subseteq m_flags)
  BY <1>1, AuthInvariance, PTL
<1>3. ASSUME \A o \in Offers : ~ ({"MSN", "PLAIN"} \subseteq o)
      PROVE  Spec => []LineInDialogue
  <2>1. AuthInv => ~ ({"MSN", "PLAIN"} \subseteq m_flags)
    BY <1>3 DEF AuthInv, OneOffer, Mechanism
  <2>2. IInv /\ AuthInv => LineInDialogue
    BY <1>1, <2>1 DEF LineInDialogue
  <2>3. QED
    BY <2>2, AuthInvariance, PTL
<1>4. QED
  BY <1>2, <1>3
=============================================================================
