---------------------------- MODULE OutOfOffice ----------------------------
(***************************************************************************)
(* The out-of-office add-on: the window with the list of accounts          *)
(* (OutOfOfficeAccountListView.js, OutOfOfficeManager.js), the session     *)
(* with the ManageSieve server (OutOfOfficeSieveServer.js) and the queue   *)
(* of requests of a connection (Sieve.js, SieveRequest.js), against        *)
(* servers that hold one script for each account.                          *)
(*                                                                         *)
(* The handlers call each other, and all of them work on the same global   *)
(* objects: they are operators from a client to a client, and an action    *)
(* runs one of them from end to end.  The field ok says whether the        *)
(* handler has run without an exception.                                   *)
(***************************************************************************)
EXTENDS Naturals, Sequences

CONSTANTS
    Account,        \* accounts of the list
    First,          \* the first of them
    Secure,         \* those with TLS, on servers that offer it
    Anonymous,      \* those without a user name
    Scripted,       \* those whose server holds a script at the start
    Env,            \* faults that may happen
    Conn,           \* bound: Sieve objects alive at a time
    MaxClicks       \* bound: what the user does

None == "none"

ASSUME OutOfOfficeAssumption ==
    /\ None \notin Account /\ First \in Account
    /\ Secure \subseteq Account /\ Anonymous \subseteq Account
    /\ Scripted \subseteq Account
    /\ Env \subseteq {"refuse", "referral", "break", "close", "tear", "password"}
    /\ Conn \subseteq Nat /\ 0 \notin Conn
    /\ MaxClicks \in Nat

VARIABLES
    client,     \* the objects of the add-on
    server,     \* for each account, the script and whether it is active
    hasty,      \* history: the user went on before an answer had come
    clicks      \* what the user has done

vars == <<client, server, hasty, clicks>>

\* "create" is the PUTSCRIPT of createScript, with listeners of its own.
OnScript == {"listscripts", "setactive", "getscript", "putscript", "create"}
Cmd == OnScript \cup {"init", "starttls", "capability", "authenticate", "logout"}
Request == [cmd : Cmd, arg : BOOLEAN]
Req(cmd) == [cmd |-> cmd, arg |-> FALSE]
NoRequest == [cmd |-> None, arg |-> FALSE]

\* An answer: the command it answers, OK, NO or a referral, and what
\* LISTSCRIPTS says about the script of the add-on.
Answer == [of : Cmd \cup {None}, res : {None, "OK", "NO", "REFERRAL"},
           found : BOOLEAN, active : BOOLEAN]
NoAnswer == [of |-> None, res |-> None, found |-> FALSE, active |-> FALSE]

\* "NO ERRORCODE:0001", which stands for the error of a connection.
ErrorAnswer == [NoAnswer EXCEPT !.res = "NO"]

\* A Sieve object.  asked and reply are the two directions of its socket;
\* data is an answer kept because a listener raised an exception; torn, that
\* only a part of that answer has come; login and over are the server's: the
\* client has logged in, or out.
Sieve == [account : Account, open : BOOLEAN, queue : Seq(Request),
          asked : Request \cup {NoRequest}, reply : Answer, data : Answer,
          torn : BOOLEAN, login : BOOLEAN, over : BOOLEAN,
          moved : BOOLEAN]

Unused(a) == [account |-> a, open |-> FALSE, queue |-> <<>>, asked |-> NoRequest,
              reply |-> NoAnswer, data |-> NoAnswer, torn |-> FALSE,
              login |-> FALSE, over |-> FALSE, moved |-> FALSE]

-----------------------------------------------------------------------------
(* The queue of a connection *)

Throw(w) == [w EXCEPT !.ok = FALSE]

\* outstream.write: an exception when the connection is gone.
Write(w, c) ==
    IF w.sieve[c].open
      THEN [w EXCEPT !.sieve[c].asked = Head(w.sieve[c].queue)]
      ELSE Throw(w)

\* Faulty: writes a request at once, whatever is ahead.
AddRequestAtOnce(w, c, r) ==
    IF c \notin Conn \/ ~w.sieve[c].open THEN Throw(w)
    ELSE [w EXCEPT !.sieve[c].queue = Append(@, r), !.sieve[c].asked = r]

\* Nothing is written while another request is ahead; the request for the
\* greeting of the server writes nothing.
AddRequest(w, c, r) ==
    IF c \notin Conn THEN Throw(w)
    ELSE LET v == [w EXCEPT !.sieve[c].queue = Append(@, r)]
         IN IF Len(v.sieve[c].queue) > 1 \/ r.cmd = "init" THEN v ELSE Write(v, c)

\* The requests that wait stay in the queue.
Disconnect(w, c) ==
    [w EXCEPT !.sieve[c].open = FALSE, !.sieve[c].asked = NoRequest,
              !.sieve[c].reply = NoAnswer]

\* Sieve objects that nothing refers to any more.
Free(w) == {c \in Conn : ~w.sieve[c].open /\ c # w.gSieve /\ c # w.own}

\* A new Sieve with its SieveInitRequest, connected: the server greets it.
\* moved says whether a referral has led to that server.
NewSieve(w, moved) ==
    LET c == CHOOSE x \in Free(w) : TRUE
    IN [w EXCEPT !.gSieve = c, !.own = c,
                 !.sieve[c] = [Unused(w.account) EXCEPT !.open = TRUE, !.moved = moved,
                                 !.queue = <<Req("init")>>, !.asked = Req("init")]]

-----------------------------------------------------------------------------
(* The window *)

\* postStatusAndUpdateUI: a status that comes when nothing is under way is
\* given to the first account.  With an error the manager forgets its session.
PostStatus(w, active, error) ==
    LET cur == IF w.current = None THEN First ELSE w.current
        v == [w EXCEPT !.shown[cur] = active,
                       !.internal = @ \/ cur # w.row,
                       !.row = cur,
                       !.managed = IF error THEN None ELSE @,
                       !.current = None, !.progress = FALSE, !.activating = FALSE]
    IN [v EXCEPT !.canEdit = v.shown[cur]]

-----------------------------------------------------------------------------
(* The session: OutOfOfficeSieveServer and its listeners *)

\* Faulty: takes the selected row for the new state.
ActivateScriptRow(w, active) ==
    IF ~w.connected THEN w
    ELSE AddRequest(w, w.gSieve, [cmd |-> "setactive", arg |-> w.row])

ActivateScript(w, active) ==
    IF ~w.connected THEN w
    ELSE AddRequest(w, w.gSieve, [cmd |-> "setactive", arg |-> active])

UpdateScriptListStatus(w) ==
    IF ~w.connected \/ w.gSieve \notin Conn THEN w
    ELSE AddRequest(w, w.gSieve, Req("listscripts"))

CreateScript(w) ==
    IF w.own \notin Conn THEN w ELSE AddRequest(w, w.own, Req("create"))

\* levent.onLogoutResponse: the old connection, if any, is not the session's
\* own, and is left to the server.
LoggedOut(w) ==
    LET v == IF w.own \in Conn /\ w.sieve[w.own].open THEN Disconnect(w, w.own) ELSE w
    IN IF ~v.enabled[v.account] THEN v ELSE NewSieve(v, FALSE)

\* The constructor: the new object takes the place of the old one at once,
\* and waits until the old connection has logged out.
NewSession(w, a, activate) ==
    LET v == [w EXCEPT !.account = a, !.own = 0, !.connected = FALSE,
                       !.activate = activate]
    IN IF v.gSieve \notin Conn \/ ~v.sieve[v.gSieve].open THEN LoggedOut(v)
       ELSE AddRequest(v, v.gSieve, Req("logout"))

\* Faulty: does not tell the window.
OnTreatErrorSilently(w) ==
    IF w.gSieve \notin Conn THEN Throw(w)
    ELSE LET v == Disconnect([w EXCEPT !.enabled[w.account] = FALSE], w.gSieve)
         IN [v EXCEPT !.gSieve = 0, !.managed = None]

OnTreatError(w) ==
    IF w.gSieve \notin Conn THEN Throw(w)
    ELSE LET v == Disconnect([w EXCEPT !.enabled[w.account] = FALSE], w.gSieve)
         IN PostStatus([v EXCEPT !.gSieve = 0], FALSE, TRUE)

OnError(w, answer) ==
    IF w.gSieve \notin Conn THEN Throw(w)
    ELSE IF answer.res = "REFERRAL" THEN NewSieve(Disconnect(w, w.gSieve), TRUE)
    ELSE IF w.tryToCreate
      THEN LET v == CreateScript(w)
           IN [v EXCEPT !.tryToCreate = ~v.ok]
    ELSE OnTreatError(w)

OnLoginResponse(w) ==
    LET v == [w EXCEPT !.connected = TRUE]
    IN IF v.activate THEN ActivateScript(v, v.shown[v.account])
       ELSE UpdateScriptListStatus(v)

\* Faulty: goes on without a password.
OnAuthenticateAnyway(w, password) ==
    IF w.gSieve \notin Conn THEN Throw(w)
    ELSE IF w.account \in Anonymous \/ ~password THEN OnLoginResponse(w)
    ELSE AddRequest(w, w.gSieve, Req("authenticate"))

\* password says whether there is one.
OnAuthenticate(w, password) ==
    IF w.gSieve \notin Conn THEN Throw(w)
    ELSE IF w.account \in Anonymous THEN OnLoginResponse(w)
    ELSE IF ~password THEN OnTreatError(w)
    ELSE AddRequest(w, w.gSieve, Req("authenticate"))

OnInitResponse(w, password) ==
    IF w.gSieve \in Conn /\ w.account \in Secure
      THEN AddRequest(w, w.gSieve, Req("starttls"))
      ELSE OnAuthenticate(w, password)

\* Faulty: takes a script that is there for one that is active.
OnListScriptResponseFound(w, answer) ==
    LET v == IF answer.found THEN w ELSE CreateScript(w)
    IN IF v.ok THEN PostStatus(v, answer.found, FALSE) ELSE v

OnListScriptResponse(w, answer) ==
    IF answer.found THEN PostStatus(w, answer.active, FALSE)
    ELSE LET v == CreateScript(w)
         IN IF v.ok THEN PostStatus(v, FALSE, FALSE) ELSE v

OnStartTLSResponse(w) ==
    IF w.gSieve \notin Conn \/ ~w.sieve[w.gSieve].open THEN Throw(w)
    ELSE AddRequest(w, w.gSieve, Req("capability"))

OnSetActiveResponse(w) ==
    IF w.gSieve \notin Conn THEN Throw(w) ELSE UpdateScriptListStatus(w)

\* What addResponse of each request does with an answer.  A refused
\* createScript raises an exception: its answer has no getScriptName.
Listener(w, cmd, answer, password) ==
    IF answer.res # "OK"
      THEN IF cmd = "create" THEN Throw(w) ELSE OnError(w, answer)
    ELSE CASE cmd = "init"         -> OnInitResponse(w, password)
           [] cmd = "starttls"     -> OnStartTLSResponse(w)
           [] cmd = "capability"   -> OnAuthenticate(w, password)
           [] cmd = "authenticate" -> OnLoginResponse(w)
           [] cmd = "listscripts"  -> OnListScriptResponse(w, answer)
           [] cmd = "setactive"    -> OnSetActiveResponse(w)
           [] cmd \in {"getscript", "create"} -> [w EXCEPT !.tryToCreate = FALSE]
           [] cmd = "putscript"    -> w
           [] cmd = "logout"       -> LoggedOut(w)

\* onStopRequest: with an error the first request is told, if what has come
\* can be parsed; an exception is swallowed.
Stopped(w, c, error, parsable, password) ==
    LET s == w.sieve[c]
        answer == IF s.data # NoAnswer THEN s.data ELSE ErrorAnswer
        v == IF error /\ parsable /\ s.queue # <<>>
               THEN [Listener(w, Head(s.queue).cmd, answer, password) EXCEPT !.ok = TRUE]
               ELSE w
    IN IF v.sieve[c].open THEN Disconnect(v, c) ELSE v

\* The rest of onDataAvailable after the listener: the request is removed and
\* the next one is written.  When the connection is gone the exception ends
\* the stream.
NextRequest(w, c, password) ==
    LET v == [w EXCEPT !.sieve[c].queue = Tail(@), !.sieve[c].data = NoAnswer]
        next == Write(v, c)
    IN IF v.sieve[c].queue = <<>> THEN v
       ELSE IF next.ok THEN next
       ELSE Stopped(v, c, TRUE, TRUE, password)

\* connectServer of the manager
ConnectServer(w, a, activate) ==
    IF ~w.enabled[a] THEN [PostStatus(w, FALSE, FALSE) EXCEPT !.managed = None]
    ELSE LET v == IF activate THEN [w EXCEPT !.shown[a] = ~@] ELSE w
         IN IF v.managed # a
              THEN NewSession([v EXCEPT !.managed = a], a, activate)
            ELSE IF activate THEN ActivateScript(v, v.shown[a])
            ELSE v

OnTreeSelect(w) ==
    IF w.current # None THEN w
    ELSE IF w.internal THEN [w EXCEPT !.internal = FALSE]
    ELSE ConnectServer([w EXCEPT !.current = w.row, !.progress = TRUE],
                       w.row, w.activating)

\* onUpdateControl
UpdateControl(w) ==
    [w EXCEPT !.activating = FALSE, !.canEdit = w.shown[w.row]]

-----------------------------------------------------------------------------
(* The user *)

Unanswered ==
    \/ client.current # None \/ client.tryToCreate
    \/ client.gSieve \in Conn /\ client.sieve[client.gSieve].queue # <<>>

\* What the user can do: the controls are enabled, and no dialog is open.
Click ==
    /\ clicks < MaxClicks /\ clicks' = clicks + 1
    /\ ~client.progress /\ ~client.dialog
    /\ Free(client) # {}
    /\ hasty' = (hasty \/ Unanswered)
    /\ UNCHANGED server

\* An exception ends the handler, which has done what it has done.
\* Objects that nothing refers to are gone.
Done(w) ==
    \E v \in {w} : LET free == Free(v) IN
        client' = [v EXCEPT
                     !.ok = TRUE,
                     !.sieve = [c \in Conn |-> IF c \in free THEN Unused(First) ELSE @[c]]]

\* onTreeSelect: opening the window selects the first account.
SelectRow(a) ==
    /\ Click
    /\ a # client.row /\ (client.row = None => a = First)
    /\ Done(OnTreeSelect([client EXCEPT !.row = a]))

\* onEnableClick: the next state of the account, or another try to connect.
EnableClick ==
    /\ Click
    /\ client.row # None
    /\ LET a == client.row
           w == [client EXCEPT !.enabled[a] = TRUE, !.activating = TRUE]
       IN IF ~client.enabled[a] /\ client.current = None
            THEN Done(OnTreeSelect(w))
            ELSE Done(ConnectServer([w EXCEPT !.current = a], a, TRUE))

\* onEditClick: the dialog loads the script (loadScript) of the session.
EditClick ==
    /\ Click
    /\ client.canEdit
    /\ LET w == [client EXCEPT !.dialog = TRUE]
           v == AddRequest(w, w.gSieve, Req("getscript"))
       IN IF w.managed = None \/ w.gSieve \notin Conn THEN Done(w)
          ELSE Done([v EXCEPT !.tryToCreate = @ \/ v.ok])

\* The dialog is closed; when it was accepted, saveSettings and saveScript.
EditDone(accept) ==
    /\ client.dialog
    /\ LET w == [client EXCEPT !.dialog = FALSE]
           v == IF ~accept THEN w
                ELSE IF w.managed = None THEN Throw(w)
                ELSE AddRequest(w, w.gSieve, Req("putscript"))
       IN Done(IF v.ok THEN UpdateControl(v) ELSE v)
    /\ hasty' = (hasty \/ (accept /\ Unanswered))
    /\ UNCHANGED <<server, clicks>>

-----------------------------------------------------------------------------
(* The servers and the network *)

\* The command on the wire of c is one that its server can obey.
Able(c) ==
    LET s == client.sieve[c]
        script == server[s.account].script # None
    IN /\ s.asked.cmd \in OnScript => s.login
       /\ s.asked.cmd = "getscript" => script
       /\ (s.asked.cmd = "setactive" /\ s.asked.arg) => script

Told(c, res) ==
    LET s == client.sieve[c]
    IN [client EXCEPT
          !.sieve[c].asked = NoRequest,
          !.sieve[c].reply = [of |-> s.asked.cmd, res |-> res,
                              found |-> server[s.account].script # None,
                              active |-> server[s.account].active],
          !.sieve[c].login = @ \/ (res = "OK" /\ s.asked.cmd = "authenticate")
                                \/ s.account \in Anonymous,
          !.sieve[c].over = s.asked.cmd = "logout"]

Obey(c) ==
    LET s == client.sieve[c]
    IN /\ s.asked # NoRequest /\ Able(c)
       /\ client' = Told(c, "OK")
       /\ server' = CASE s.asked.cmd = "setactive" ->
                           [server EXCEPT ![s.account].active = s.asked.arg]
                      [] s.asked.cmd = "putscript" ->
                           [server EXCEPT ![s.account].script = "user"]
                      [] s.asked.cmd = "create" ->
                           [server EXCEPT ![s.account].script = "new"]
                      [] OTHER -> server
       /\ UNCHANGED <<hasty, clicks>>

\* A server refuses what it cannot do, and maybe more.
Refuse(c, res) ==
    LET s == client.sieve[c]
    IN /\ s.asked # NoRequest /\ s.asked.cmd \notin {"init", "logout"}
       /\ \/ res = "NO" /\ ("refuse" \in Env \/ ~Able(c))
          \/ res = "REFERRAL" /\ "referral" \in Env /\ ~s.moved
       /\ client' = Told(c, res)
       /\ UNCHANGED <<server, hasty, clicks>>

\* A part of an answer comes alone: it cannot be parsed.
Tear(c) ==
    /\ "tear" \in Env
    /\ client.sieve[c].reply # NoAnswer /\ ~client.sieve[c].torn
    /\ client.sieve[c].queue # <<>>
    /\ client' = [client EXCEPT !.sieve[c].torn = TRUE]
    /\ UNCHANGED <<server, hasty, clicks>>

\* onDataAvailable: an answer that was kept is parsed again before the new
\* one; an exception of the listener is taken for an answer not yet complete.
DataAvailable(c, password) ==
    LET s == client.sieve[c]
        w == [client EXCEPT !.sieve[c].reply = NoAnswer, !.sieve[c].torn = FALSE]
        answer == IF s.data # NoAnswer THEN s.data ELSE s.reply
        v == Listener(w, Head(s.queue).cmd, answer, password)
    IN /\ s.open /\ s.reply # NoAnswer
       /\ Free(client) # {}
       /\ password \/ "password" \in Env
       /\ IF s.queue = <<>> THEN Done(w)
          ELSE IF v.ok THEN Done(NextRequest(v, c, password))
          ELSE Done([v EXCEPT !.sieve[c].data = answer])
       /\ UNCHANGED <<server, hasty, clicks>>

\* onStopRequest: the server has closed the connection, after a LOGOUT or of
\* its own accord, or the network is gone.
StopRequest(c, error, parsable, password) ==
    LET s == client.sieve[c]
    IN /\ s.open
       /\ error => Free(client) # {}
       /\ IF error THEN "break" \in Env
          ELSE s.reply = NoAnswer /\ (s.over \/ "close" \in Env)
       /\ parsable \/ (error /\ s.torn)
       /\ password \/ "password" \in Env
       /\ Done(Stopped(client, c, error, parsable, password))
       /\ UNCHANGED <<server, hasty, clicks>>

-----------------------------------------------------------------------------
Init ==
    /\ \E shown \in [Account -> BOOLEAN] :
         client = [sieve |-> [c \in Conn |-> Unused(First)],
                   gSieve |-> 0, own |-> 0, account |-> First,
                   connected |-> FALSE, activate |-> FALSE, tryToCreate |-> FALSE,
                   current |-> None, row |-> None, internal |-> FALSE,
                   progress |-> FALSE, activating |-> FALSE, canEdit |-> FALSE,
                   dialog |-> FALSE, managed |-> None, shown |-> shown,
                   enabled |-> [a \in Account |-> TRUE], ok |-> TRUE]
    /\ \E active \in [Account -> BOOLEAN] :
         /\ \A a \in Account : active[a] => a \in Scripted
         /\ server = [a \in Account |->
               [script |-> IF a \in Scripted THEN "user" ELSE None,
                active |-> active[a]]]
    /\ hasty = FALSE /\ clicks = 0

User ==
    \/ \E a \in Account : SelectRow(a)
    \/ EnableClick
    \/ EditClick
    \/ \E accept \in BOOLEAN : EditDone(accept)

Network(c) ==
    \/ Obey(c)
    \/ \E res \in {"NO", "REFERRAL"} : Refuse(c, res)
    \/ Tear(c)
    \/ \E password \in BOOLEAN : DataAvailable(c, password)
    \/ \E error, parsable, password \in BOOLEAN :
          StopRequest(c, error, parsable, password)

Next == User \/ \E c \in Conn : Network(c)

Spec == Init /\ [][Next]_vars

\* A server answers what it is asked, and closes a connection after LOGOUT;
\* what it says arrives.
Fairness ==
    \A c \in Conn :
        /\ WF_vars(Obey(c) \/ \E res \in {"NO", "REFERRAL"} : Refuse(c, res))
        /\ WF_vars(\E password \in BOOLEAN : DataAvailable(c, password))
        /\ WF_vars(client.sieve[c].over /\ StopRequest(c, FALSE, TRUE, TRUE))

FairSpec == Spec /\ Fairness

-----------------------------------------------------------------------------
(* Properties *)

\* Every object has its type: what one handler leaves, the next one can use.
TypeOK ==
    /\ client.sieve \in [Conn -> Sieve]
    /\ {client.gSieve, client.own} \subseteq Conn \cup {0}
    /\ {client.current, client.row, client.managed} \subseteq Account \cup {None}
    /\ client.account \in Account
    /\ {client.shown, client.enabled} \subseteq [Account -> BOOLEAN]
    /\ server \in [Account -> [script : {None, "user", "new"}, active : BOOLEAN]]
    /\ hasty \in BOOLEAN /\ clicks \in 0..MaxClicks
    /\ client.ok

\* The session of the account a is at rest: it has logged in, and no request
\* is on its way.
Connected(a) ==
    /\ client.managed = a /\ client.connected /\ client.account = a
    /\ client.gSieve \in Conn
    /\ client.sieve[client.gSieve].open
    /\ client.sieve[client.gSieve].queue = <<>>

\* A request waits on a connection that is gone.
Cut ==
    \E c \in Conn \cap {client.gSieve, client.own} :
        ~client.sieve[c].open /\ client.sieve[c].queue # <<>>

\* What the window shows of an account is what its server does: the icon that
\* ConnectServer turns before anything is sent is right again once the session
\* is at rest, whatever was refused, broken off or asked again on the way.  A
\* user who goes on before the answer may see an older one.
ShownIsServed ==
    \A a \in Account :
        (~hasty /\ client.current = None /\ Connected(a))
            => client.shown[a] = server[a].active

\* Nothing is asked about scripts before the server has accepted the login, on
\* any way through STARTTLS, passwords and errors.  Behind a referral this does
\* not hold: the requests of the dialog go ahead of AUTHENTICATE.
LoginFirst ==
    \A c \in Conn : LET s == client.sieve[c] IN
        s.asked.cmd \in OnScript => s.login \/ s.moved \/ hasty

\* One request at a time is on its way, and an answer that comes meets the
\* request it answers at the head of the queue, although sessions that follow
\* each other share the queue with the dialog.
InTurn ==
    \A c \in Conn : LET s == client.sieve[c] IN
        /\ s.asked = NoRequest \/ s.reply = NoAnswer
        /\ s.asked # NoRequest => s.queue # <<>> /\ s.asked = Head(s.queue)
        /\ s.reply # NoAnswer => s.queue # <<>> /\ s.reply.of = Head(s.queue).cmd

\* A script that is on the server is never replaced by the empty one: "Create
\* script if it doesn't exist on the server" (createScript).
CreatesMissingOnly == \A a \in Scripted : server[a].script # "new"

\* The progress bar goes away: what the user has asked for ends with a status,
\* unless its request waits on a connection that the server has closed, of
\* which nobody is told.
WaitEnds == client.current # None ~> client.current = None \/ hasty \/ Cut
=============================================================================
