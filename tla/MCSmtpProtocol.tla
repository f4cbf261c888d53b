--------------------------- MODULE MCSmtpProtocol ---------------------------
(***************************************************************************)
(* Small instances of SmtpProtocol for TLC.                                *)
(***************************************************************************)
EXTENDS SmtpProtocol

\* Every way to offer four mechanisms that the client begins in three ways, in
\* clear and on a server with STARTTLS.
PasswordOffers ==
    {o \cup w : o \in SUBSET {"GSSAPI", "CRAM-MD5", "PLAIN", "LOGIN"},
                w \in {{}, {"STARTTLS", "DSN"}}}

\* MSN, which shares its steps with LOGIN; without PLAIN.
OtherOffers == {o \cup {"STARTTLS"} : o \in SUBSET {"NTLM", "MSN", "LOGIN"}}

\* Extensions of the envelope, with one mechanism.
EnvelopeOffers ==
    {o \cup {"PLAIN"} : o \in SUBSET {"STARTTLS", "DSN", "PRIORITY", "SIZE", "LIMIT"}}

SessionOffers == PasswordOffers \cup OtherOffers \cup EnvelopeOffers

SomePreferences == {{"SUCCESS", "FULL"}, {"FAILURE", "NEVER"}}

Safest == [trySSL |-> "always", authAny |-> TRUE, trySecAuth |-> TRUE,
           username |-> TRUE, requestDSN |-> TRUE]
Usual == [Safest EXCEPT !.trySSL = "try"]

\* What is most demanding, and each thing that is different for one account.
SessionSettings ==
    {Safest, Usual, [Safest EXCEPT !.trySSL = "smtps", !.requestDSN = FALSE],
     [Usual EXCEPT !.authAny = FALSE], [Usual EXCEPT !.username = FALSE],
     [Safest EXCEPT !.trySSL = "never", !.trySecAuth = FALSE]}
=============================================================================
