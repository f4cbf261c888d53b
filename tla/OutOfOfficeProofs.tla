------------------------- MODULE OutOfOfficeProofs -------------------------
(***************************************************************************)
(* Proofs about OutOfOffice, for any accounts, any faults and any number   *)
(* of Sieve objects.                                                       *)
(***************************************************************************)
EXTENDS OutOfOffice, SequenceTheorems, TLAPS

(***************************************************************************)
(* Two invariants.  GoodInv holds whatever the user does: it is the type   *)
(* of the objects, and the order of requests and answers on each           *)
(* connection.  SteadyInv holds as long as the user waits for the answers, *)
(* and relates the window, the connection of the session and the servers.  *)
(***************************************************************************)

\* What the add-on's objects look like.
Window == [sieve : [Conn -> Sieve], gSieve : Conn \cup {0}, own : Conn \cup {0},
           account : Account, connected : BOOLEAN, activate : BOOLEAN,
           tryToCreate : BOOLEAN, current : Account \cup {None},
           row : Account \cup {None}, internal : BOOLEAN, progress : BOOLEAN,
           activating : BOOLEAN, canEdit : BOOLEAN, dialog : BOOLEAN,
           managed : Account \cup {None}, shown : [Account -> BOOLEAN],
           enabled : [Account -> BOOLEAN], ok : BOOLEAN]

\* What is on the wire belongs to the first request, and only one way.
Turn(s) ==
    /\ s.asked = NoRequest \/ s.reply = NoAnswer
    /\ s.asked # NoRequest => s.queue # <<>> /\ s.asked = Head(s.queue)
    /\ s.reply # NoAnswer => s.queue # <<>> /\ s.reply.of = Head(s.queue).cmd

Quiet(s) == s.asked = NoRequest /\ s.reply = NoAnswer

\* Nothing is on the wire of a closed connection; and an answer that lets the
\* client in comes from a server that has done so.
LetIn(s) ==
    /\ ~s.open => Quiet(s)
    /\ (s.reply # NoAnswer /\ (s.account \in Anonymous
            \/ (s.reply.of = "authenticate" /\ s.reply.res = "OK"))) => s.login

\* An account is selected before anything can be asked about it.
Selected(w) == (w.canEdit \/ w.dialog \/ w.current # None) => w.row # None

Good(w) ==
    /\ w \in Window
    /\ \A c \in Conn : Turn(w.sieve[c]) /\ LetIn(w.sieve[c])
    /\ Selected(w)

Servers == [Account -> [script : {None, "user", "new"}, active : BOOLEAN]]

ServersGood(srv) ==
    srv \in Servers /\ \A a \in Account : srv[a].active => srv[a].script # None

GoodInv ==
    /\ Good(client) /\ client.ok
    /\ ServersGood(server)
    /\ hasty \in BOOLEAN /\ clicks \in 0..MaxClicks

\* The server of s lets it ask about scripts, or is not the account's own.
Trusted(s) == s.login \/ s.moved

Entering == {"init", "starttls", "capability", "authenticate"}

Known(w, srv) == w.shown[w.account] = srv[w.account].active

\* r is the request under way on the connection s of the session.
Asking(w, s, srv, r) ==
    /\ r.cmd \in OnScript \cup {"logout"} => Trusted(s)
    /\ r.cmd # "logout" => s.account = w.account
    /\ r.cmd = "logout" => /\ w.current # None /\ w.enabled[w.account]
                           /\ ~w.connected /\ ~w.tryToCreate
    /\ r.cmd \in Entering /\ ~s.moved => ~w.tryToCreate
    /\ r.cmd = "setactive" => r.arg = w.shown[w.account]
    /\ (r.cmd = "listscripts" /\ s.reply # NoAnswer /\ s.reply.res = "OK") =>
          /\ s.reply.active = srv[w.account].active
          /\ s.reply.found = (srv[w.account].script # None)

\* s is the open connection of the session.
Session(w, s, srv) ==
    /\ Len(s.queue) \leq 1
    /\ w.own \in {0, w.gSieve}
    /\ s.queue = <<>> => Trusted(s) /\ s.account = w.account
    /\ w.connected => Trusted(s)
    /\ s.data # NoAnswer => /\ s.queue # <<>> /\ Head(s.queue).cmd = "create"
                            /\ s.data.res # "OK"
    /\ (w.managed # None /\ w.current = None) => Known(w, srv)
    /\ s.queue # <<>> => Asking(w, s, srv, Head(s.queue))

InSession(w) == w.gSieve \in Conn /\ w.sieve[w.gSieve].open

\* Connections that the session has left are at rest.
Left(w) ==
    /\ \A c \in Conn : w.sieve[c].open /\ c # w.gSieve => w.sieve[c].queue = <<>>
    /\ w.own \in Conn /\ w.own # w.gSieve => ~w.sieve[w.own].open

\* The manager, the session and the window mean the same account.
OneAccount(w) ==
    w.managed # None => w.managed = w.account /\ w.current \in {w.account, None}

Steady(w, srv) ==
    /\ Left(w)
    /\ OneAccount(w)
    /\ InSession(w) => Session(w, w.sieve[w.gSieve], srv)

SteadyInv == hasty \/ Steady(client, server)

-----------------------------------------------------------------------------
(* What the operators on a connection do, field by field. *)

\* Everything but the connections and the exception.
Same(v, w) ==
    /\ v.gSieve = w.gSieve /\ v.own = w.own /\ v.account = w.account
    /\ v.connected = w.connected /\ v.activate = w.activate
    /\ v.tryToCreate = w.tryToCreate /\ v.current = w.current /\ v.row = w.row
    /\ v.internal = w.internal /\ v.progress = w.progress
    /\ v.activating = w.activating /\ v.canEdit = w.canEdit
    /\ v.dialog = w.dialog /\ v.managed = w.managed /\ v.shown = w.shown
    /\ v.enabled = w.enabled

\* The connection c of w becomes s in v.
Becomes(v, w, c, s) ==
    /\ v \in Window /\ Same(v, w)
    /\ v.sieve = [w.sieve EXCEPT ![c] = s]
    /\ v.sieve[c] = s
    /\ \A d \in Conn : d # c => v.sieve[d] = w.sieve[d]

Queued(s, r) ==
    [s EXCEPT !.queue = Append(@, r),
              !.asked = IF s.queue = <<>> /\ r.cmd # "init" /\ s.open THEN r ELSE @]

LEMMA SameRefl == ASSUME NEW w PROVE Same(w, w)
  BY DEF Same

LEMMA NoneFacts ==
    /\ NoAnswer \in Answer /\ NoRequest \notin Request
    /\ ErrorAnswer \in Answer /\ ErrorAnswer.res = "NO" /\ ErrorAnswer # NoAnswer
<1>1. None \notin Cmd
  BY DEF None, Cmd, OnScript
<1>2. NoRequest \notin Request
  BY <1>1 DEF NoRequest, Request
<1>3. NoAnswer \in Answer /\ NoAnswer.res # "NO"
  BY DEF NoAnswer, Answer, None
<1>4. ErrorAnswer \in Answer /\ ErrorAnswer.res = "NO"
  BY <1>3 DEF ErrorAnswer, Answer
<1>5. QED
  BY <1>2, <1>3, <1>4

LEMMA ThrowIs ==
    ASSUME NEW w \in Window
    PROVE  /\ Throw(w) \in Window /\ Same(Throw(w), w)
           /\ Throw(w).sieve = w.sieve /\ ~Throw(w).ok
  BY DEF Throw, Window, Same

LEMMA AppendIs ==
    ASSUME NEW q \in Seq(Request), NEW r \in Request
    PROVE  /\ Append(q, r) \in Seq(Request) /\ Append(q, r) # <<>>
           /\ Len(Append(q, r)) > 1 <=> q # <<>>
           /\ Head(Append(q, r)) = IF q = <<>> THEN r ELSE Head(q)
           /\ q # <<>> => Tail(Append(q, r)) = Append(Tail(q), r)
           /\ q = <<>> => Append(q, r) = <<r>>
<1>1. Len(q) \in Nat /\ Append(q, r) \in Seq(Request) /\ Len(Append(q, r)) = Len(q) + 1
  OBVIOUS
<1>2. q # <<>> => Len(q) > 0
  OBVIOUS
<1>3. Append(q, r) # <<>> /\ (Len(Append(q, r)) > 1 <=> q # <<>>)
  BY <1>1, <1>2
<1>4. CASE q = <<>>
  BY <1>1, <1>3, <1>4
<1>5. CASE q # <<>>
  BY <1>1, <1>2, <1>3, <1>5, HeadTailAppend
<1>6. QED
  BY <1>4, <1>5

LEMMA QueuedIs ==
    ASSUME NEW s \in Sieve, NEW r \in Request
    PROVE  /\ Queued(s, r) \in Sieve
           /\ Queued(s, r).queue = Append(s.queue, r)
           /\ Queued(s, r).queue # <<>>
           /\ Queued(s, r).asked = IF s.queue = <<>> /\ r.cmd # "init" /\ s.open
                                     THEN r ELSE s.asked
           /\ Queued(s, r).account = s.account /\ Queued(s, r).open = s.open
           /\ Queued(s, r).reply = s.reply /\ Queued(s, r).data = s.data
           /\ Queued(s, r).login = s.login /\ Queued(s, r).moved = s.moved
<1>1. s.queue \in Seq(Request) /\ s.asked \in Request \cup {NoRequest}
  BY DEF Sieve
<1>2. Append(s.queue, r) \in Seq(Request) /\ Append(s.queue, r) # <<>>
  BY <1>1, AppendIs
<1>3. QED
  BY <1>1, <1>2 DEF Queued, Sieve

LEMMA AddRequestIs ==
    ASSUME NEW w \in Window, NEW c \in Conn, NEW r \in Request
    PROVE  /\ Becomes(AddRequest(w, c, r), w, c, Queued(w.sieve[c], r))
           /\ AddRequest(w, c, r).ok =
                IF w.sieve[c].queue = <<>> /\ r.cmd # "init" /\ ~w.sieve[c].open
                  THEN FALSE ELSE w.ok
<1> DEFINE s == w.sieve[c]
           q == Append(s.queue, r)
           v == [w EXCEPT !.sieve[c].queue = Append(@, r)]
           u == [s EXCEPT !.queue = q]
<1>1. s \in Sieve /\ w.sieve \in [Conn -> Sieve]
  BY DEF Window
<1>2. s.queue \in Seq(Request)
  BY <1>1 DEF Sieve
<1>3. /\ q \in Seq(Request) /\ q # <<>> /\ (Len(q) > 1 <=> s.queue # <<>>)
      /\ Head(q) = IF s.queue = <<>> THEN r ELSE Head(s.queue)
  BY <1>2, AppendIs
<1>4. /\ u \in Sieve /\ u.queue = q /\ u.open = s.open
      /\ [u EXCEPT !.asked = r] = [s EXCEPT !.queue = q, !.asked = r]
  BY <1>1, <1>3 DEF Sieve
<1>5. Queued(s, r) = IF s.queue = <<>> /\ r.cmd # "init" /\ s.open
                       THEN [u EXCEPT !.asked = r] ELSE u
  BY <1>1, <1>4 DEF Queued, Sieve
<1>6. Queued(s, r) \in Sieve
  BY <1>1, QueuedIs
<1>7. v = [w EXCEPT !.sieve = [w.sieve EXCEPT ![c] = u]]
  BY <1>1 DEF Window
<1>8. /\ v \in Window /\ Same(v, w) /\ v.sieve = [w.sieve EXCEPT ![c] = u]
      /\ v.ok = w.ok
  BY <1>1, <1>4, <1>7 DEF Window, Same
<1>9. v.sieve[c] = u
  BY <1>1, <1>8
<1>10. CASE Len(q) > 1 \/ r.cmd = "init"
  <2>1. AddRequest(w, c, r) = v
    BY <1>4, <1>9, <1>10 DEF AddRequest
  <2>2. Queued(s, r) = u
    BY <1>3, <1>5, <1>10
  <2>3. Becomes(v, w, c, u)
    BY <1>1, <1>8 DEF Becomes
  <2>4. QED
    BY <1>3, <1>8, <1>10, <2>1, <2>2, <2>3
<1>11. CASE ~(Len(q) > 1 \/ r.cmd = "init")
  <2>1. AddRequest(w, c, r) = Write(v, c)
    BY <1>4, <1>9, <1>11 DEF AddRequest
  <2>2. s.queue = <<>> /\ r.cmd # "init" /\ Head(q) = r
    BY <1>3, <1>11
  <2>3. CASE s.open
    <3> DEFINE t == [u EXCEPT !.asked = r]
    <3>1. Write(v, c) = [v EXCEPT !.sieve[c].asked = r]
      BY <1>4, <1>9, <2>2, <2>3 DEF Write
    <3>2. Queued(s, r) = t
      BY <1>5, <2>2, <2>3
    <3>3. [v EXCEPT !.sieve[c].asked = r] = [v EXCEPT !.sieve = [w.sieve EXCEPT ![c] = t]]
      BY <1>1, <1>4, <1>8, <1>9 DEF Window
    <3>4. t \in Sieve
      BY <1>6, <3>2
    <3> HIDE DEF v, u, t
    <3>5. /\ [v EXCEPT !.sieve = [w.sieve EXCEPT ![c] = t]] \in Window
          /\ Same([v EXCEPT !.sieve = [w.sieve EXCEPT ![c] = t]], w)
          /\ [v EXCEPT !.sieve = [w.sieve EXCEPT ![c] = t]].sieve
               = [w.sieve EXCEPT ![c] = t]
          /\ [v EXCEPT !.sieve = [w.sieve EXCEPT ![c] = t]].ok = w.ok
      BY <1>1, <1>8, <3>4 DEF Window, Same
    <3>6. Becomes(Write(v, c), w, c, t) /\ Write(v, c).ok = w.ok
      BY <1>1, <3>1, <3>3, <3>5 DEF Becomes
    <3>7. QED
      BY <2>1, <2>3, <3>2, <3>6
  <2>4. CASE ~s.open
    <3>1. Write(v, c) = Throw(v)
      BY <1>4, <1>9, <2>4 DEF Write
    <3>2. Queued(s, r) = u
      BY <1>5, <2>4
    <3> HIDE DEF v, u
    <3>3. Becomes(Throw(v), w, c, u) /\ ~Throw(v).ok
      BY <1>1, <1>8, ThrowIs DEF Becomes, Same
    <3>4. Throw(v).ok = FALSE
      BY <1>8 DEF Throw, Window
    <3>5. QED
      BY <2>1, <2>2, <2>4, <3>1, <3>2, <3>3, <3>4
  <2>5. QED
    BY <2>3, <2>4
<1>12. QED
  BY <1>10, <1>11

Gone(s) == [s EXCEPT !.open = FALSE, !.asked = NoRequest, !.reply = NoAnswer]

LEMMA GoneIs ==
    ASSUME NEW s \in Sieve
    PROVE  /\ Gone(s) \in Sieve /\ ~Gone(s).open /\ Quiet(Gone(s))
           /\ Gone(s).queue = s.queue /\ Gone(s).account = s.account
           /\ Gone(s).data = s.data
  BY NoneFacts DEF Gone, Sieve, Quiet

LEMMA DisconnectIs ==
    ASSUME NEW w \in Window, NEW c \in Conn
    PROVE  Becomes(Disconnect(w, c), w, c, Gone(w.sieve[c])) /\ Disconnect(w, c).ok = w.ok
<1>1. w.sieve[c] \in Sieve /\ w.sieve \in [Conn -> Sieve]
  BY DEF Window
<1> DEFINE t == Gone(w.sieve[c])
<1>2. t \in Sieve
  BY <1>1, GoneIs
<1>3. Disconnect(w, c) = [w EXCEPT !.sieve = [w.sieve EXCEPT ![c] = t]]
  BY <1>1, ZenonT(60) DEF Disconnect, Gone, Window, Sieve
<1> HIDE DEF t
<1>4. /\ Disconnect(w, c) \in Window /\ Same(Disconnect(w, c), w)
      /\ Disconnect(w, c).sieve = [w.sieve EXCEPT ![c] = t]
      /\ Disconnect(w, c).ok = w.ok
  BY <1>1, <1>2, <1>3 DEF Window, Same
<1>5. QED
  BY <1>1, <1>4 DEF Becomes, t

Fresh(w, moved) ==
    [Unused(w.account) EXCEPT !.open = TRUE, !.moved = moved,
                              !.queue = <<Req("init")>>, !.asked = Req("init")]

LEMMA FreshIs ==
    ASSUME NEW w \in Window, NEW moved \in BOOLEAN
    PROVE  LET s == Fresh(w, moved) IN
           /\ s \in Sieve /\ s.account = w.account /\ s.open
           /\ s.queue = <<Req("init")>> /\ s.asked = Req("init")
           /\ s.reply = NoAnswer /\ s.data = NoAnswer /\ s.login = FALSE /\ s.moved = moved
<1>1. Req("init") \in Request
  BY DEF Req, Request, Cmd
<1>2. <<Req("init")>> \in Seq(Request) /\ w.account \in Account
  BY <1>1 DEF Window
<1>3. QED
  BY <1>1, <1>2, NoneFacts DEF Fresh, Unused, Sieve

\* Of a new Sieve all that matters is that it was free.
LEMMA NewSieveIs ==
    ASSUME NEW w \in Window, NEW moved \in BOOLEAN, Free(w) # {}
    PROVE  \E c \in Free(w) :
             LET v == NewSieve(w, moved) IN
             /\ v = [w EXCEPT !.gSieve = c, !.own = c,
                              !.sieve = [w.sieve EXCEPT ![c] = Fresh(w, moved)]]
             /\ v \in Window /\ v.gSieve = c /\ v.own = c
             /\ Same([v EXCEPT !.gSieve = w.gSieve, !.own = w.own], w)
             /\ v.sieve[c] = Fresh(w, moved)
             /\ \A d \in Conn : d # c => v.sieve[d] = w.sieve[d]
             /\ v.ok = w.ok
<1> DEFINE c == CHOOSE x \in Free(w) : TRUE
           f == Fresh(w, moved)
           v == [w EXCEPT !.gSieve = c, !.own = c, !.sieve = [w.sieve EXCEPT ![c] = f]]
<1>1. c \in Free(w)
  OBVIOUS
<1>2. c \in Conn /\ w.sieve \in [Conn -> Sieve] /\ f \in Sieve
  BY <1>1, FreshIs DEF Free, Window
<1>3. NewSieve(w, moved) = v
  BY <1>2 DEF NewSieve, Fresh, Window
<1> HIDE DEF c, f
<1>4. /\ v \in Window /\ v.gSieve = c /\ v.own = c
      /\ Same([v EXCEPT !.gSieve = w.gSieve, !.own = w.own], w)
      /\ v.sieve = [w.sieve EXCEPT ![c] = f] /\ v.ok = w.ok
  BY <1>2 DEF Window, Same
<1>5. v.sieve[c] = f /\ \A d \in Conn : d # c => v.sieve[d] = w.sieve[d]
  BY <1>2, <1>4
<1>6. QED
  BY <1>1, <1>3, <1>4, <1>5 DEF f

\* The account that a status is given to.
Charged(w) == IF w.current = None THEN First ELSE w.current

\* v is the window w after a status.
Reports(v, w, active, error) ==
    /\ v \in Window /\ v.sieve = w.sieve
    /\ v.gSieve = w.gSieve /\ v.own = w.own /\ v.account = w.account
    /\ v.connected = w.connected /\ v.tryToCreate = w.tryToCreate
    /\ v.row \in Account /\ v.row # None /\ v.current = None
    /\ v.enabled = w.enabled /\ v.activate = w.activate
    /\ v.managed = IF error THEN None ELSE w.managed
    /\ Charged(w) \in Account /\ v.shown = [w.shown EXCEPT ![Charged(w)] = active]
    /\ v.ok = w.ok

LEMMA PostStatusIs ==
    ASSUME NEW w \in Window, NEW active \in BOOLEAN, NEW error \in BOOLEAN
    PROVE  Reports(PostStatus(w, active, error), w, active, error)
<1> DEFINE cur == Charged(w)
           i == w.internal \/ cur # w.row
           u == [w EXCEPT !.shown[cur] = active, !.internal = @ \/ cur # w.row,
                          !.row = cur, !.managed = IF error THEN None ELSE @,
                          !.current = None, !.progress = FALSE, !.activating = FALSE]
           m == IF error THEN None ELSE w.managed
<1>1. cur \in Account /\ cur # None
  BY OutOfOfficeAssumption DEF Window, Charged
<1>2. m \in Account \cup {None} /\ i \in BOOLEAN
  BY DEF Window
<1>3. PostStatus(w, active, error) = [u EXCEPT !.canEdit = u.shown[cur]]
  BY DEF PostStatus, Charged
<1>4. u = [w EXCEPT !.shown = [w.shown EXCEPT ![cur] = active],
                    !.internal = i, !.row = cur, !.managed = m,
                    !.current = None, !.progress = FALSE, !.activating = FALSE]
  BY DEF Window
<1> HIDE DEF cur, i, m, u
<1>5. /\ u \in Window /\ u.sieve = w.sieve
      /\ u.gSieve = w.gSieve /\ u.own = w.own /\ u.account = w.account
      /\ u.connected = w.connected /\ u.tryToCreate = w.tryToCreate
      /\ u.row = cur /\ u.current = None /\ u.enabled = w.enabled
      /\ u.activate = w.activate /\ u.managed = m
      /\ u.shown = [w.shown EXCEPT ![cur] = active] /\ u.ok = w.ok
  BY <1>1, <1>2, <1>4, ZenonT(60) DEF Window
<1>6. u.shown[cur] \in BOOLEAN
  BY <1>1, <1>5 DEF Window
<1> DEFINE v == PostStatus(w, active, error)
<1>7. /\ v \in Window /\ v.sieve = u.sieve
      /\ v.gSieve = u.gSieve /\ v.own = u.own /\ v.account = u.account
      /\ v.connected = u.connected /\ v.tryToCreate = u.tryToCreate
      /\ v.row = u.row /\ v.current = u.current /\ v.enabled = u.enabled
      /\ v.activate = u.activate /\ v.managed = u.managed
      /\ v.shown = u.shown /\ v.ok = u.ok
  BY <1>3, <1>5, <1>6 DEF Window
<1>8. QED
  BY <1>1, <1>5, <1>7 DEF cur, m, Reports

-----------------------------------------------------------------------------
(* Every operator leaves the objects good, and a request that was under    *)
(* way on a connection, ahead of everything else there.                    *)

Behind(w, c) == w.sieve[c].queue # <<>> /\ Quiet(w.sieve[c])

Held(w, c) == Behind(w, c) /\ c \notin Free(w)

After(w, v) == Good(v) /\ \A c \in Conn : Held(w, c) => Behind(v, c)

Carries(w, v) ==
    /\ Good(v) /\ Free(w) \subseteq Free(v)
    /\ \A c \in Conn : Held(w, c) => Held(v, c)

LEMMA CarriesRefl == ASSUME NEW w, Good(w) PROVE Carries(w, w) /\ After(w, w)
  BY DEF Carries, After, Held

LEMMA CarriesThen ==
    ASSUME NEW w, NEW v, NEW u, Carries(w, v)
    PROVE  /\ After(w, v)
           /\ Carries(v, u) => Carries(w, u)
           /\ After(v, u) => After(w, u)
  BY DEF Carries, After, Held

\* A change of the window only.
LEMMA CarriesWindow ==
    ASSUME NEW w, NEW v \in Window, Good(w), v.sieve = w.sieve,
           v.gSieve = w.gSieve, v.own = w.own, Selected(v)
    PROVE  Carries(w, v)
  BY DEF Carries, Good, Held, Behind, Free

LEMMA GoodThrow ==
    ASSUME NEW w, Good(w)
    PROVE  Carries(w, Throw(w))
<1>1. Throw(w) \in Window /\ Same(Throw(w), w) /\ Throw(w).sieve = w.sieve
  BY ThrowIs DEF Good
<1>2. Selected(Throw(w))
  BY <1>1 DEF Good, Same, Selected
<1>3. QED
  BY <1>1, <1>2, CarriesWindow DEF Same

LEMMA SelectedSame ==
    ASSUME NEW v, NEW w, Same(v, w), Selected(w) PROVE Selected(v)
  BY DEF Same, Selected

LEMMA QueuedInTurn ==
    ASSUME NEW s \in Sieve, NEW r \in Request, Turn(s), LetIn(s)
    PROVE  /\ Turn(Queued(s, r)) /\ LetIn(Queued(s, r))
           /\ (s.queue # <<>> /\ Quiet(s)) => Quiet(Queued(s, r))
<1>1. s.queue \in Seq(Request)
  BY DEF Sieve
<1> DEFINE t == Queued(s, r)
<1>a. Head(Append(s.queue, r)) = IF s.queue = <<>> THEN r ELSE Head(s.queue)
  BY <1>1, AppendIs
<1>2. /\ t.queue = Append(s.queue, r) /\ t.queue # <<>>
      /\ Head(t.queue) = IF s.queue = <<>> THEN r ELSE Head(s.queue)
      /\ t.asked = IF s.queue = <<>> /\ r.cmd # "init" /\ s.open THEN r ELSE s.asked
      /\ t.account = s.account /\ t.open = s.open /\ t.reply = s.reply /\ t.login = s.login
  BY <1>a, QueuedIs
<1> HIDE DEF t
<1>3. s.queue = <<>> => s.asked = NoRequest /\ s.reply = NoAnswer
  BY DEF Turn
<1>4. Turn(t)
  BY <1>2, <1>3 DEF Turn
<1>5. LetIn(t)
  BY <1>2 DEF LetIn, Quiet
<1>6. (s.queue # <<>> /\ Quiet(s)) => Quiet(t)
  BY <1>2 DEF Quiet
<1>7. QED
  BY <1>4, <1>5, <1>6 DEF t

\* A request that is added: to a connection, or with an exception to none.
LEMMA GoodAddRequest ==
    ASSUME NEW w, Good(w), NEW c, NEW r \in Request
    PROVE  Carries(w, AddRequest(w, c, r))
<1>1. CASE c \notin Conn
  BY <1>1, GoodThrow DEF AddRequest
<1>2. CASE c \in Conn
  <2> DEFINE v == AddRequest(w, c, r)
             s == w.sieve[c]
             t == Queued(s, r)
  <2>1. Becomes(v, w, c, t)
    BY <1>2, AddRequestIs DEF Good
  <2>2. s \in Sieve /\ Turn(s) /\ LetIn(s)
    BY <1>2 DEF Good, Window
  <2>3. /\ Turn(t) /\ LetIn(t) /\ t.open = s.open /\ t.queue # <<>>
        /\ (s.queue # <<>> /\ Quiet(s)) => Quiet(t)
    BY <2>2, QueuedInTurn, QueuedIs
  <2> HIDE DEF v, t
  <2>4. Free(v) = Free(w)
    BY <2>1, <2>3 DEF Free, Becomes, Same
  <2>5. Selected(v)
    BY <2>1, SelectedSame DEF Good, Becomes
  <2>6. Good(v)
    BY <2>1, <2>3, <2>5 DEF Good, Becomes
  <2>7. \A d \in Conn : Held(w, d) => Held(v, d)
    BY <2>1, <2>3, <2>4 DEF Held, Behind, Becomes
  <2>8. QED
    BY <2>4, <2>6, <2>7 DEF Carries, v
<1>3. QED
  BY <1>1, <1>2

LEMMA GoodDisconnect ==
    ASSUME NEW w, Good(w), NEW c \in Conn
    PROVE  LET v == Disconnect(w, c) IN
           /\ After(w, v) /\ Free(w) \subseteq Free(v)
           /\ c \in {w.gSieve, w.own} => Carries(w, v)
<1> DEFINE v == Disconnect(w, c)
           s == w.sieve[c]
           t == Gone(s)
<1>1. Becomes(v, w, c, t)
  BY DisconnectIs DEF Good
<1>2. s \in Sieve /\ Turn(s)
  BY DEF Good, Window
<1>3. ~t.open /\ Quiet(t) /\ t.queue = s.queue
  BY <1>2, GoneIs
<1> HIDE DEF v, t
<1>4. Turn(t) /\ LetIn(t)
  BY <1>3 DEF Turn, LetIn, Quiet
<1>5. Good(v)
  BY <1>1, <1>4, SelectedSame DEF Good, Becomes
<1>6. Free(w) \subseteq Free(v)
  BY <1>1, <1>3 DEF Free, Becomes, Same
<1>7. \A d \in Conn : Behind(w, d) => Behind(v, d)
  BY <1>1, <1>3 DEF Behind, Becomes
<1>8. c \in {w.gSieve, w.own} => \A d \in Conn : d \notin Free(w) => d \notin Free(v)
  BY <1>1, <1>3 DEF Free, Becomes, Same
<1>9. QED
  BY <1>5, <1>6, <1>7, <1>8 DEF After, Carries, Held, v

LEMMA GoodNewSieve ==
    ASSUME NEW w, Good(w), NEW moved \in BOOLEAN, Free(w) # {}
    PROVE  After(w, NewSieve(w, moved))
<1> DEFINE v == NewSieve(w, moved)
           f == Fresh(w, moved)
<1>1. w \in Window
  BY DEF Good
<1>2. PICK c \in Free(w) :
        /\ v \in Window
        /\ Same([v EXCEPT !.gSieve = w.gSieve, !.own = w.own], w)
        /\ v.sieve[c] = f
        /\ \A d \in Conn : d # c => v.sieve[d] = w.sieve[d]
  BY <1>1, NewSieveIs, ZenonT(60)
<1>3. Turn(f) /\ LetIn(f)
  <2>1. /\ f.open /\ f.queue = <<Req("init")>> /\ f.asked = Req("init")
        /\ f.reply = NoAnswer
    BY <1>1, FreshIs
  <2> HIDE DEF f
  <2>2. QED
    BY <2>1 DEF Turn, LetIn
<1> HIDE DEF v, f
<1>4. v.canEdit = w.canEdit /\ v.dialog = w.dialog /\ v.current = w.current /\ v.row = w.row
  BY <1>2 DEF Same, Window
<1>5. Good(v)
  BY <1>2, <1>3, <1>4 DEF Good, Selected
<1>6. \A d \in Conn : Held(w, d) => Behind(v, d)
  BY <1>2 DEF Held, Behind
<1>7. QED
  BY <1>5, <1>6 DEF After, v

LEMMA GoodPostStatus ==
    ASSUME NEW w, Good(w), NEW active \in BOOLEAN, NEW error \in BOOLEAN
    PROVE  Carries(w, PostStatus(w, active, error))
<1> DEFINE v == PostStatus(w, active, error)
<1>1. w \in Window
  BY DEF Good
<1>2. Reports(v, w, active, error)
  BY <1>1, PostStatusIs
<1> HIDE DEF v
<1>3. /\ v \in Window /\ v.sieve = w.sieve /\ v.gSieve = w.gSieve
      /\ v.own = w.own /\ v.row # None
  BY <1>2 DEF Reports
<1>4. Carries(w, v)
  BY <1>3, CarriesWindow DEF Selected
<1>5. QED
  BY <1>4 DEF v

LEMMA Requests ==
    /\ \A cmd \in Cmd : Req(cmd) \in Request /\ Req(cmd).cmd = cmd
    /\ \A active \in BOOLEAN : [cmd |-> "setactive", arg |-> active] \in Request
  BY DEF Req, Request, Cmd, OnScript

LEMMA GoodActivateScript ==
    ASSUME NEW w, Good(w), NEW active \in BOOLEAN
    PROVE  Carries(w, ActivateScript(w, active))
<1>1. [cmd |-> "setactive", arg |-> active] \in Request
  BY Requests
<1>2. QED
  BY <1>1, GoodAddRequest, CarriesRefl DEF ActivateScript

LEMMA GoodUpdateScriptListStatus ==
    ASSUME NEW w, Good(w)
    PROVE  Carries(w, UpdateScriptListStatus(w))
<1>1. Req("listscripts") \in Request
  BY Requests DEF Cmd, OnScript
<1>2. QED
  BY <1>1, GoodAddRequest, CarriesRefl DEF UpdateScriptListStatus

LEMMA GoodCreateScript ==
    ASSUME NEW w, Good(w)
    PROVE  Carries(w, CreateScript(w))
<1>1. Req("create") \in Request
  BY Requests DEF Cmd, OnScript
<1>2. QED
  BY <1>1, GoodAddRequest, CarriesRefl DEF CreateScript

LEMMA GoodLoggedOut ==
    ASSUME NEW w, Good(w), Free(w) # {}
    PROVE  After(w, LoggedOut(w))
<1> DEFINE v == IF w.own \in Conn /\ w.sieve[w.own].open THEN Disconnect(w, w.own) ELSE w
<1>1. Carries(w, v)
  BY GoodDisconnect, CarriesRefl
<1>2. LoggedOut(w) = IF ~v.enabled[v.account] THEN v ELSE NewSieve(v, FALSE)
  BY DEF LoggedOut
<1> HIDE DEF v
<1>3. Good(v) /\ Free(v) # {}
  BY <1>1 DEF Carries
<1>4. After(v, LoggedOut(w))
  BY <1>2, <1>3, GoodNewSieve, CarriesRefl
<1>5. QED
  BY <1>1, <1>4, CarriesThen

LEMMA GoodTreatError ==
    ASSUME NEW w, Good(w)
    PROVE  After(w, OnTreatError(w))
<1>1. CASE w.gSieve \notin Conn
  BY <1>1, GoodThrow, CarriesThen DEF OnTreatError
<1>2. CASE w.gSieve \in Conn
  <2> DEFINE u == [w EXCEPT !.enabled[w.account] = FALSE]
             v == Disconnect(u, w.gSieve)
             x == [v EXCEPT !.gSieve = 0]
  <2>1. /\ u \in Window /\ u.sieve = w.sieve /\ u.gSieve = w.gSieve /\ u.own = w.own
        /\ u.canEdit = w.canEdit /\ u.dialog = w.dialog /\ u.current = w.current
        /\ u.row = w.row
    BY DEF Good, Window
  <2> HIDE DEF u
  <2>2. Carries(w, u)
    BY <2>1, CarriesWindow DEF Good, Selected
  <2>3. Carries(u, v)
    BY <1>2, <2>1, <2>2, GoodDisconnect DEF Carries
  <2>4. Good(v)
    BY <2>3 DEF Carries
  <2> HIDE DEF v
  <2>5. /\ x \in Window /\ x.sieve = v.sieve
        /\ x.canEdit = v.canEdit /\ x.dialog = v.dialog /\ x.current = v.current
        /\ x.row = v.row
    BY <2>4 DEF Good, Window
  <2> HIDE DEF x
  <2>6. After(v, x) /\ Good(x)
    BY <2>4, <2>5 DEF After, Good, Held, Behind, Selected
  <2>7. PostStatus(x, FALSE, TRUE).sieve = x.sieve /\ Good(PostStatus(x, FALSE, TRUE))
    <3>1. x \in Window
      BY <2>5
    <3>2. Reports(PostStatus(x, FALSE, TRUE), x, FALSE, TRUE)
      BY <3>1, PostStatusIs
    <3>3. QED
      BY <2>6, <3>2, GoodPostStatus DEF Reports, Carries
  <2>8. After(v, PostStatus(x, FALSE, TRUE))
    BY <2>6, <2>7 DEF After, Behind
  <2>9. OnTreatError(w) = PostStatus(x, FALSE, TRUE)
    BY <1>2 DEF OnTreatError, x, v, u
  <2>10. QED
    BY <2>2, <2>3, <2>8, <2>9, CarriesThen
<1>3. QED
  BY <1>1, <1>2

LEMMA GoodOnError ==
    ASSUME NEW w, Good(w), NEW answer \in Answer, answer.res # "REFERRAL" \/ Free(w) # {}
    PROVE  After(w, OnError(w, answer))
<1>1. CASE w.gSieve \notin Conn
  BY <1>1, GoodThrow, CarriesThen DEF OnError
<1>2. CASE w.gSieve \in Conn /\ answer.res = "REFERRAL"
  <2> DEFINE v == Disconnect(w, w.gSieve)
  <2>1. Carries(w, v)
    BY <1>2, GoodDisconnect
  <2> HIDE DEF v
  <2>2. Good(v) /\ Free(v) # {}
    BY <1>2, <2>1 DEF Carries
  <2>3. After(v, NewSieve(v, TRUE))
    BY <2>2, GoodNewSieve
  <2>4. OnError(w, answer) = NewSieve(v, TRUE)
    BY <1>2 DEF OnError, v
  <2>5. QED
    BY <2>1, <2>3, <2>4, CarriesThen
<1>3. CASE w.gSieve \in Conn /\ answer.res # "REFERRAL" /\ w.tryToCreate
  <2> DEFINE v == CreateScript(w)
             b == ~v.ok
             x == [v EXCEPT !.tryToCreate = b]
  <2>1. Carries(w, v)
    BY GoodCreateScript
  <2> HIDE DEF v
  <2>2. Good(v) /\ b \in BOOLEAN
    BY <2>1 DEF Carries
  <2> HIDE DEF b
  <2>3. /\ x \in Window /\ x.sieve = v.sieve /\ x.gSieve = v.gSieve /\ x.own = v.own
        /\ x.canEdit = v.canEdit /\ x.dialog = v.dialog /\ x.current = v.current
        /\ x.row = v.row
    BY <2>2 DEF Good, Window
  <2> HIDE DEF x
  <2>4. Carries(v, x)
    BY <2>2, <2>3, CarriesWindow DEF Good, Selected
  <2>5. OnError(w, answer) = x
    BY <1>3 DEF OnError, v, x, b
  <2>6. QED
    BY <2>1, <2>4, <2>5, CarriesThen
<1>4. CASE w.gSieve \in Conn /\ answer.res # "REFERRAL" /\ ~w.tryToCreate
  BY <1>4, GoodTreatError DEF OnError
<1>5. QED
  BY <1>1, <1>2, <1>3, <1>4

LEMMA GoodLoginResponse ==
    ASSUME NEW w, Good(w)
    PROVE  Carries(w, OnLoginResponse(w))
<1> DEFINE v == [w EXCEPT !.connected = TRUE]
<1>1. /\ v \in Window /\ v.sieve = w.sieve /\ v.gSieve = w.gSieve /\ v.own = w.own
      /\ v.canEdit = w.canEdit /\ v.dialog = w.dialog /\ v.current = w.current
      /\ v.row = w.row
  BY DEF Good, Window
<1>2. OnLoginResponse(w) = IF v.activate THEN ActivateScript(v, v.shown[v.account])
                                         ELSE UpdateScriptListStatus(v)
  BY DEF OnLoginResponse
<1> HIDE DEF v
<1>3. Carries(w, v)
  BY <1>1, CarriesWindow DEF Good, Selected
<1>4. Good(v) /\ v.shown[v.account] \in BOOLEAN
  BY <1>1, <1>3 DEF Carries, Window
<1>5. Carries(v, OnLoginResponse(w))
  BY <1>2, <1>4, GoodActivateScript, GoodUpdateScriptListStatus
<1>6. QED
  BY <1>3, <1>5, CarriesThen

LEMMA GoodAuthenticate ==
    ASSUME NEW w, Good(w), NEW password \in BOOLEAN
    PROVE  After(w, OnAuthenticate(w, password))
<1>1. Req("authenticate") \in Request
  BY Requests DEF Cmd
<1>2. CASE w.gSieve \notin Conn
  BY <1>2, GoodThrow, CarriesThen DEF OnAuthenticate
<1>3. CASE w.gSieve \in Conn /\ w.account \in Anonymous
  BY <1>3, GoodLoginResponse, CarriesThen DEF OnAuthenticate
<1>4. CASE w.gSieve \in Conn /\ w.account \notin Anonymous /\ ~password
  BY <1>4, GoodTreatError DEF OnAuthenticate
<1>5. CASE w.gSieve \in Conn /\ w.account \notin Anonymous /\ password
  BY <1>1, <1>5, GoodAddRequest, CarriesThen DEF OnAuthenticate
<1>6. QED
  BY <1>2, <1>3, <1>4, <1>5

LEMMA GoodListScriptResponse ==
    ASSUME NEW w, Good(w), NEW answer \in Answer
    PROVE  Carries(w, OnListScriptResponse(w, answer))
<1>1. answer.active \in BOOLEAN
  BY DEF Answer
<1>2. CASE answer.found
  BY <1>1, <1>2, GoodPostStatus DEF OnListScriptResponse
<1>3. CASE ~answer.found
  <2> DEFINE v == CreateScript(w)
  <2>1. Carries(w, v)
    BY GoodCreateScript
  <2>2. OnListScriptResponse(w, answer) = IF v.ok THEN PostStatus(v, FALSE, FALSE) ELSE v
    BY <1>3 DEF OnListScriptResponse
  <2> HIDE DEF v
  <2>3. Good(v)
    BY <2>1 DEF Carries
  <2>4. Carries(v, OnListScriptResponse(w, answer))
    BY <2>2, <2>3, GoodPostStatus, CarriesRefl
  <2>5. QED
    BY <2>1, <2>4, CarriesThen
<1>4. QED
  BY <1>2, <1>3

LEMMA GoodListener ==
    ASSUME NEW w, Good(w), NEW cmd \in Cmd, NEW answer \in Answer, NEW password \in BOOLEAN,
           answer.res \in {"OK", "REFERRAL"} => Free(w) # {}
    PROVE  After(w, Listener(w, cmd, answer, password))
<1> DEFINE v == Listener(w, cmd, answer, password)
<1>1. CASE answer.res # "OK"
  BY <1>1, GoodThrow, CarriesThen, GoodOnError DEF Listener
<1>2. CASE answer.res = "OK"
  <2>1. CASE cmd = "init"
    <3>1. Req("starttls") \in Request
      BY Requests DEF Cmd
    <3>2. v = OnInitResponse(w, password)
      BY <1>2, <2>1 DEF Listener
    <3>3. QED
      BY <3>1, <3>2, GoodAddRequest, CarriesThen, GoodAuthenticate DEF OnInitResponse
  <2>2. CASE cmd = "starttls"
    <3>1. Req("capability") \in Request
      BY Requests DEF Cmd
    <3>2. v = OnStartTLSResponse(w)
      BY <1>2, <2>2 DEF Listener
    <3>3. QED
      BY <3>1, <3>2, GoodAddRequest, GoodThrow, CarriesThen DEF OnStartTLSResponse
  <2>3. CASE cmd = "capability"
    BY <1>2, <2>3, GoodAuthenticate DEF Listener
  <2>4. CASE cmd = "authenticate"
    BY <1>2, <2>4, GoodLoginResponse, CarriesThen DEF Listener
  <2>5. CASE cmd = "listscripts"
    BY <1>2, <2>5, GoodListScriptResponse, CarriesThen DEF Listener
  <2>6. CASE cmd = "setactive"
    <3>1. v = OnSetActiveResponse(w)
      BY <1>2, <2>6 DEF Listener
    <3>2. QED
      BY <3>1, GoodThrow, GoodUpdateScriptListStatus, CarriesThen DEF OnSetActiveResponse
  <2>7. CASE cmd \in {"getscript", "create"}
    <3> DEFINE x == [w EXCEPT !.tryToCreate = FALSE]
    <3>1. v = x
      BY <1>2, <2>7 DEF Listener
    <3>2. /\ x \in Window /\ x.sieve = w.sieve /\ x.gSieve = w.gSieve /\ x.own = w.own
          /\ x.canEdit = w.canEdit /\ x.dialog = w.dialog /\ x.current = w.current
          /\ x.row = w.row
      BY DEF Good, Window
    <3> HIDE DEF x, v
    <3>3. Carries(w, x)
      BY <3>2, CarriesWindow DEF Good, Selected
    <3>4. After(w, v)
      BY <3>1, <3>3, CarriesThen
    <3>5. QED
      BY <3>4 DEF v
  <2>8. CASE cmd = "putscript"
    BY <1>2, <2>8, CarriesRefl DEF Listener
  <2>9. CASE cmd = "logout"
    BY <1>2, <2>9, GoodLoggedOut DEF Listener
  <2>10. QED
    BY <2>1, <2>2, <2>3, <2>4, <2>5, <2>6, <2>7, <2>8, <2>9 DEF Cmd, OnScript
<1>3. QED
  BY <1>1, <1>2

LEMMA Becoming ==
    ASSUME NEW w \in Window, NEW c \in Conn, NEW t \in Sieve,
           NEW v, v = [w EXCEPT !.sieve = [w.sieve EXCEPT ![c] = t]]
    PROVE  Becomes(v, w, c, t) /\ v.ok = w.ok
<1>1. w.sieve \in [Conn -> Sieve]
  BY DEF Window
<1>2. v \in Window /\ Same(v, w) /\ v.sieve = [w.sieve EXCEPT ![c] = t] /\ v.ok = w.ok
  BY <1>1 DEF Window, Same
<1>3. QED
  BY <1>1, <1>2 DEF Becomes

LEMMA GoodBecomes ==
    ASSUME NEW w, Good(w), NEW c \in Conn, NEW t, NEW v, Becomes(v, w, c, t),
           Turn(t), LetIn(t)
    PROVE  Good(v)
  BY SelectedSame DEF Good, Becomes

LEMMA GoodOk ==
    ASSUME NEW w, Good(w), NEW b \in BOOLEAN
    PROVE  /\ Good([w EXCEPT !.ok = b]) /\ Same([w EXCEPT !.ok = b], w)
           /\ [w EXCEPT !.ok = b].sieve = w.sieve
<1> DEFINE v == [w EXCEPT !.ok = b]
<1>1. v \in Window /\ Same(v, w) /\ v.sieve = w.sieve
  BY DEF Good, Window, Same
<1> HIDE DEF v
<1>2. Good(v)
  BY <1>1, SelectedSame DEF Good
<1>3. QED
  BY <1>1, <1>2 DEF v

LEMMA GoodStopped ==
    ASSUME NEW w, Good(w), NEW c \in Conn, NEW error \in BOOLEAN, NEW parsable \in BOOLEAN,
           NEW password \in BOOLEAN,
           error /\ w.sieve[c].data # NoAnswer => Free(w) # {}
    PROVE  Good(Stopped(w, c, error, parsable, password))
<1> DEFINE s == w.sieve[c]
           answer == IF s.data # NoAnswer THEN s.data ELSE ErrorAnswer
           l == Listener(w, Head(s.queue).cmd, answer, password)
           v == IF error /\ parsable /\ s.queue # <<>> THEN [l EXCEPT !.ok = TRUE] ELSE w
<1>1. Stopped(w, c, error, parsable, password) = IF v.sieve[c].open THEN Disconnect(v, c) ELSE v
  BY DEF Stopped
<1>2. s \in Sieve
  BY DEF Good, Window
<1>3. answer \in Answer /\ (s.data # NoAnswer \/ answer.res = "NO")
  BY <1>2, NoneFacts DEF Sieve
<1>4. Good(v)
  <2>1. CASE error /\ parsable /\ s.queue # <<>>
    <3>1. Head(s.queue).cmd \in Cmd
      <4>1. s.queue \in Seq(Request)
        BY <1>2 DEF Sieve
      <4>2. Head(s.queue) \in Request
        BY <2>1, <4>1
      <4>3. QED
        BY <4>2 DEF Request
    <3>2. answer.res \in {"OK", "REFERRAL"} => Free(w) # {}
      BY <1>3, <2>1
    <3> HIDE DEF answer
    <3>3. After(w, l)
      BY <1>3, <3>1, <3>2, GoodListener
    <3> HIDE DEF l
    <3>4. Good(l)
      BY <3>3 DEF After
    <3>5. QED
      BY <2>1, <3>4, GoodOk
  <2>2. CASE ~(error /\ parsable /\ s.queue # <<>>)
    BY <2>2
  <2>3. QED
    BY <2>1, <2>2
<1> HIDE DEF v
<1>5. QED
  BY <1>1, <1>4, GoodDisconnect DEF After

Passed(s) == [s EXCEPT !.queue = Tail(@), !.data = NoAnswer]

LEMMA PassedIs ==
    ASSUME NEW s \in Sieve, s.queue # <<>>
    PROVE  /\ Passed(s) \in Sieve /\ Passed(s).queue = Tail(s.queue)
           /\ Passed(s).data = NoAnswer /\ Passed(s).open = s.open
           /\ Passed(s).asked = s.asked /\ Passed(s).reply = s.reply
           /\ Passed(s).account = s.account
           /\ Passed(s).login = s.login /\ Passed(s).moved = s.moved
<1>1. s.queue \in Seq(Request)
  BY DEF Sieve
<1>2. Tail(s.queue) \in Seq(Request)
  BY <1>1
<1>3. QED
  BY <1>2, NoneFacts DEF Passed, Sieve

Sent(s) == [s EXCEPT !.asked = Head(s.queue)]

LEMMA SentIs ==
    ASSUME NEW s \in Sieve, s.queue # <<>>
    PROVE  /\ Sent(s) \in Sieve /\ Sent(s).queue = s.queue
           /\ Sent(s).asked = Head(s.queue) /\ Sent(s).open = s.open
           /\ Sent(s).data = s.data /\ Sent(s).reply = s.reply
           /\ Sent(s).account = s.account
           /\ Sent(s).login = s.login /\ Sent(s).moved = s.moved
<1>1. s.queue \in Seq(Request)
  BY DEF Sieve
<1>2. Head(s.queue) \in Request
  BY <1>1
<1>3. QED
  BY <1>2 DEF Sent, Sieve

\* The first request has been answered, and the next one has not been written.
Over(w, c) == [w EXCEPT !.sieve[c].queue = Tail(@), !.sieve[c].data = NoAnswer]

LEMMA OverIs ==
    ASSUME NEW w, Good(w), NEW c \in Conn, Behind(w, c)
    PROVE  /\ Good(Over(w, c)) /\ Becomes(Over(w, c), w, c, Passed(w.sieve[c]))
           /\ Over(w, c).ok = w.ok
<1> DEFINE s == w.sieve[c]
           t == Passed(s)
           v == Over(w, c)
<1>1. w \in Window /\ s \in Sieve /\ w.sieve \in [Conn -> Sieve]
  BY DEF Good, Window
<1>2. s.queue # <<>> /\ Quiet(s) /\ LetIn(s)
  BY DEF Behind, Good
<1>3. /\ t \in Sieve /\ Quiet(t) /\ t.open = s.open
  BY <1>1, <1>2, PassedIs DEF Quiet
<1>4. v = [w EXCEPT !.sieve = [w.sieve EXCEPT ![c] = t]]
  BY <1>1 DEF Over, Passed, Window, Sieve
<1> HIDE DEF t, v
<1>5. Becomes(v, w, c, t) /\ v.ok = w.ok
  BY <1>1, <1>3, <1>4, Becoming
<1>6. Turn(t) /\ LetIn(t)
  BY <1>3 DEF Turn, LetIn, Quiet
<1>7. Good(v)
  BY <1>5, <1>6, GoodBecomes
<1>8. QED
  BY <1>5, <1>7 DEF v, t

\* What is written when a request waits.
LEMMA WriteIs ==
    ASSUME NEW w \in Window, NEW c \in Conn, w.sieve[c].queue # <<>>, w.sieve[c].open
    PROVE  Becomes(Write(w, c), w, c, Sent(w.sieve[c])) /\ Write(w, c).ok = w.ok
<1> DEFINE s == w.sieve[c]
           t == Sent(s)
           v == Write(w, c)
<1>1. s \in Sieve /\ w.sieve \in [Conn -> Sieve]
  BY DEF Window
<1>2. t \in Sieve
  BY <1>1, SentIs
<1>3. v = [w EXCEPT !.sieve = [w.sieve EXCEPT ![c] = t]]
  BY <1>1 DEF Write, Sent, Window, Sieve
<1> HIDE DEF t, v
<1>4. QED
  BY <1>2, <1>3, Becoming DEF t, v

LEMMA NextRequestIs ==
    ASSUME NEW w, NEW c, NEW password
    PROVE  NextRequest(w, c, password) =
             IF Over(w, c).sieve[c].queue = <<>> THEN Over(w, c)
             ELSE IF Write(Over(w, c), c).ok THEN Write(Over(w, c), c)
             ELSE Stopped(Over(w, c), c, TRUE, TRUE, password)
  BY DEF NextRequest, Over

LEMMA GoodNextRequest ==
    ASSUME NEW w, Good(w), NEW c \in Conn, Behind(w, c), NEW password \in BOOLEAN
    PROVE  Good(NextRequest(w, c, password))
<1> DEFINE s == w.sieve[c]
           v == Over(w, c)
           t == Passed(s)
           x == Write(v, c)
<1>1. Good(v) /\ Becomes(v, w, c, t)
  BY OverIs
<1>2. s \in Sieve /\ s.queue # <<>> /\ Quiet(s)
  BY DEF Good, Window, Behind
<1>3. t \in Sieve /\ t.data = NoAnswer /\ t.asked = NoRequest /\ t.reply = NoAnswer
  BY <1>2, PassedIs DEF Quiet
<1> HIDE DEF v, t
<1>4. v \in Window /\ v.sieve[c] = t
  BY <1>1 DEF Becomes
<1>5. NextRequest(w, c, password) =
        IF v.sieve[c].queue = <<>> THEN v
        ELSE IF x.ok THEN x ELSE Stopped(v, c, TRUE, TRUE, password)
  BY NextRequestIs DEF v
<1>6. Good(Stopped(v, c, TRUE, TRUE, password))
  BY <1>1, <1>3, <1>4, GoodStopped
<1>7. ASSUME v.sieve[c].queue # <<>>, v.sieve[c].open
      PROVE  Good(x)
  <2>1. Becomes(x, v, c, Sent(t))
    BY <1>4, <1>7, WriteIs
  <2>2. /\ Sent(t).queue = t.queue /\ Sent(t).asked = Head(t.queue)
        /\ Sent(t).reply = NoAnswer /\ Sent(t).open
    BY <1>3, <1>4, <1>7, SentIs
  <2>3. Turn(Sent(t)) /\ LetIn(Sent(t))
    BY <1>4, <1>7, <2>2 DEF Turn, LetIn
  <2>4. QED
    BY <1>1, <2>1, <2>3, GoodBecomes
<1>8. ASSUME v.sieve[c].queue # <<>>, ~v.sieve[c].open
      PROVE  ~x.ok
  <2>1. x = Throw(v)
    BY <1>8 DEF Write
  <2>2. QED
    BY <1>4, <2>1, ThrowIs
<1>9. QED
  BY <1>1, <1>5, <1>6, <1>7, <1>8

\* The icon that ConnectServer turns.
Turned(w, a, activate) == IF activate THEN [w EXCEPT !.shown[a] = ~@] ELSE w

TurnedFrom(v, w, a) ==
    /\ v \in Window /\ v.sieve = w.sieve
    /\ v.gSieve = w.gSieve /\ v.own = w.own /\ v.account = w.account
    /\ v.connected = w.connected /\ v.tryToCreate = w.tryToCreate
    /\ v.current = w.current /\ v.row = w.row /\ v.enabled = w.enabled
    /\ v.managed = w.managed /\ v.canEdit = w.canEdit /\ v.dialog = w.dialog
    /\ v.ok = w.ok
    /\ \A b \in Account : b # a => v.shown[b] = w.shown[b]

LEMMA TurnedIs ==
    ASSUME NEW w \in Window, NEW a \in Account, NEW activate \in BOOLEAN
    PROVE  TurnedFrom(Turned(w, a, activate), w, a)
<1> DEFINE b == ~w.shown[a]
           f == [w.shown EXCEPT ![a] = b]
           v == [w EXCEPT !.shown = f]
<1>1. b \in BOOLEAN
  OBVIOUS
<1>2. w.shown \in [Account -> BOOLEAN] /\ [w EXCEPT !.shown[a] = ~@] = v
  BY DEF Window
<1> HIDE DEF b
<1>3. f \in [Account -> BOOLEAN] /\ \A x \in Account : x # a => f[x] = w.shown[x]
  BY <1>1, <1>2
<1> HIDE DEF f
<1>4. v.shown = f
  BY DEF Window
<1>5. TurnedFrom(v, w, a)
  BY <1>3, <1>4 DEF Window, TurnedFrom
<1>6. CASE activate
  BY <1>2, <1>5, <1>6 DEF Turned
<1>7. CASE ~activate
  BY <1>7 DEF Turned, TurnedFrom
<1>8. QED
  BY <1>6, <1>7

LEMMA GoodTurned ==
    ASSUME NEW w, Good(w), NEW a \in Account, NEW activate \in BOOLEAN
    PROVE  Carries(w, Turned(w, a, activate))
<1> DEFINE v == Turned(w, a, activate)
<1>1. w \in Window
  BY DEF Good
<1>2. TurnedFrom(v, w, a)
  BY <1>1, TurnedIs
<1> HIDE DEF v
<1>3. Selected(v)
  BY <1>2 DEF Good, TurnedFrom, Selected
<1>4. Carries(w, v)
  BY <1>2, <1>3, CarriesWindow DEF TurnedFrom
<1>5. QED
  BY <1>4 DEF v

\* The session's own object takes the place of the old one.
Placed(w, a, activate) ==
    [w EXCEPT !.account = a, !.own = 0, !.connected = FALSE, !.activate = activate]

LEMMA PlacedIs ==
    ASSUME NEW w, Good(w), NEW a \in Account, NEW activate \in BOOLEAN
    PROVE  LET v == Placed(w, a, activate) IN
           /\ Good(v) /\ Free(w) \subseteq Free(v) /\ v.sieve = w.sieve
           /\ v.gSieve = w.gSieve /\ v.own = 0 /\ v.account = a /\ ~v.connected
           /\ v.tryToCreate = w.tryToCreate /\ v.current = w.current
           /\ v.enabled = w.enabled /\ v.managed = w.managed /\ v.shown = w.shown
           /\ v.ok = w.ok
<1> DEFINE v == Placed(w, a, activate)
<1>1. /\ v \in Window /\ v.sieve = w.sieve
      /\ v.gSieve = w.gSieve /\ v.own = 0 /\ v.account = a /\ v.connected = FALSE
      /\ v.tryToCreate = w.tryToCreate /\ v.current = w.current /\ v.row = w.row
      /\ v.enabled = w.enabled /\ v.managed = w.managed /\ v.shown = w.shown
      /\ v.canEdit = w.canEdit /\ v.dialog = w.dialog /\ v.ok = w.ok
  BY DEF Good, Window, Placed
<1> HIDE DEF v
<1>2. Good(v)
  BY <1>1 DEF Good, Selected
<1>3. Free(w) \subseteq Free(v)
  BY <1>1, OutOfOfficeAssumption DEF Free
<1>4. QED
  BY <1>1, <1>2, <1>3 DEF v

LEMMA GoodNewSession ==
    ASSUME NEW w, Good(w), Free(w) # {}, NEW a \in Account, NEW activate \in BOOLEAN
    PROVE  Good(NewSession(w, a, activate))
<1> DEFINE v == Placed(w, a, activate)
<1>1. Good(v) /\ Free(v) # {}
  BY PlacedIs
<1>2. NewSession(w, a, activate) =
        IF v.gSieve \notin Conn \/ ~v.sieve[v.gSieve].open THEN LoggedOut(v)
        ELSE AddRequest(v, v.gSieve, Req("logout"))
  BY DEF NewSession, Placed
<1> HIDE DEF v
<1>3. Req("logout") \in Request
  BY Requests DEF Cmd
<1>4. Good(LoggedOut(v)) /\ Good(AddRequest(v, v.gSieve, Req("logout")))
  BY <1>1, <1>3, GoodLoggedOut, GoodAddRequest DEF After, Carries
<1>5. QED
  BY <1>2, <1>4

Managed(w, a) == [w EXCEPT !.managed = a]

LEMMA ManagedIs ==
    ASSUME NEW w, Good(w), NEW a \in Account \cup {None}
    PROVE  LET v == Managed(w, a) IN
           /\ Carries(w, v) /\ Good(v) /\ v.sieve = w.sieve
           /\ v.gSieve = w.gSieve /\ v.own = w.own /\ v.account = w.account
           /\ v.connected = w.connected /\ v.tryToCreate = w.tryToCreate
           /\ v.current = w.current /\ v.enabled = w.enabled /\ v.managed = a
           /\ v.shown = w.shown /\ v.ok = w.ok
<1> DEFINE v == Managed(w, a)
<1>1. /\ v \in Window /\ v.sieve = w.sieve
      /\ v.gSieve = w.gSieve /\ v.own = w.own /\ v.account = w.account
      /\ v.connected = w.connected /\ v.tryToCreate = w.tryToCreate
      /\ v.current = w.current /\ v.row = w.row /\ v.enabled = w.enabled
      /\ v.managed = a /\ v.shown = w.shown
      /\ v.canEdit = w.canEdit /\ v.dialog = w.dialog /\ v.ok = w.ok
  BY DEF Good, Window, Managed
<1> HIDE DEF v
<1>2. Carries(w, v)
  BY <1>1, CarriesWindow DEF Good, Selected
<1>3. QED
  BY <1>1, <1>2 DEF v, Carries

LEMMA ConnectServerIs ==
    ASSUME NEW w, NEW a, NEW activate
    PROVE  ConnectServer(w, a, activate) =
             IF ~w.enabled[a] THEN Managed(PostStatus(w, FALSE, FALSE), None)
             ELSE IF Turned(w, a, activate).managed # a
               THEN NewSession(Managed(Turned(w, a, activate), a), a, activate)
             ELSE IF activate
               THEN ActivateScript(Turned(w, a, activate), Turned(w, a, activate).shown[a])
             ELSE Turned(w, a, activate)
  BY DEF ConnectServer, Turned, Managed

LEMMA GoodConnectServer ==
    ASSUME NEW w, Good(w), Free(w) # {}, NEW a \in Account, NEW activate \in BOOLEAN
    PROVE  Good(ConnectServer(w, a, activate))
<1> DEFINE v == Turned(w, a, activate)
           m == Managed(v, a)
           p == PostStatus(w, FALSE, FALSE)
<1>1. Good(v) /\ Free(v) # {}
  BY GoodTurned DEF Carries
<1> HIDE DEF v
<1>2. Good(m) /\ Free(m) # {}
  BY <1>1, ManagedIs DEF Carries
<1>3. Good(Managed(p, None))
  <2>1. Good(p)
    BY GoodPostStatus DEF Carries
  <2>2. QED
    BY <2>1, ManagedIs
<1>4. Good(NewSession(m, a, activate))
  BY <1>2, GoodNewSession
<1>5. v.shown[a] \in BOOLEAN
  BY <1>1 DEF Good, Window
<1>6. Good(ActivateScript(v, v.shown[a]))
  BY <1>1, <1>5, GoodActivateScript DEF Carries
<1>7. QED
  BY <1>1, <1>3, <1>4, <1>6, ConnectServerIs DEF v

LEMMA GoodOnTreeSelect ==
    ASSUME NEW w, Good(w), Free(w) # {}, w.row # None
    PROVE  Good(OnTreeSelect(w))
<1>1. CASE w.current # None
  BY <1>1 DEF OnTreeSelect
<1>2. CASE w.current = None /\ w.internal
  <2> DEFINE v == [w EXCEPT !.internal = FALSE]
  <2>1. /\ v \in Window /\ v.sieve = w.sieve /\ v.row = w.row
    BY DEF Good, Window
  <2>2. OnTreeSelect(w) = v
    BY <1>2 DEF OnTreeSelect
  <2> HIDE DEF v
  <2>3. QED
    BY <2>1, <2>2 DEF Good, Selected
<1>3. CASE w.current = None /\ ~w.internal
  <2> DEFINE v == [w EXCEPT !.current = w.row, !.progress = TRUE]
  <2>1. w.row \in Account /\ w.activating \in BOOLEAN
    BY DEF Good, Window
  <2>2. /\ v \in Window /\ v.sieve = w.sieve /\ v.row = w.row
        /\ v.gSieve = w.gSieve /\ v.own = w.own
    BY <2>1 DEF Good, Window
  <2>3. OnTreeSelect(w) = ConnectServer(v, w.row, w.activating)
    BY <1>3 DEF OnTreeSelect
  <2> HIDE DEF v
  <2>4. Good(v) /\ Free(v) # {}
    BY <2>2 DEF Good, Selected, Free
  <2>5. QED
    BY <2>1, <2>3, <2>4, GoodConnectServer
<1>4. QED
  BY <1>1, <1>2, <1>3

LEMMA GoodUpdateControl ==
    ASSUME NEW w, Good(w), w.row # None
    PROVE  /\ Good(UpdateControl(w)) /\ UpdateControl(w).sieve = w.sieve
           /\ UpdateControl(w).gSieve = w.gSieve /\ UpdateControl(w).own = w.own
           /\ UpdateControl(w).account = w.account
           /\ UpdateControl(w).connected = w.connected
           /\ UpdateControl(w).tryToCreate = w.tryToCreate
           /\ UpdateControl(w).current = w.current
           /\ UpdateControl(w).enabled = w.enabled
           /\ UpdateControl(w).managed = w.managed
           /\ UpdateControl(w).shown = w.shown
<1> DEFINE b == w.shown[w.row]
           v == [w EXCEPT !.activating = FALSE, !.canEdit = b]
<1>1. b \in BOOLEAN
  BY DEF Good, Window
<1>2. UpdateControl(w) = v
  BY DEF UpdateControl
<1> HIDE DEF b
<1>3. /\ v \in Window /\ v.sieve = w.sieve /\ v.row = w.row
      /\ v.gSieve = w.gSieve /\ v.own = w.own /\ v.account = w.account
      /\ v.connected = w.connected /\ v.tryToCreate = w.tryToCreate
      /\ v.current = w.current /\ v.enabled = w.enabled /\ v.managed = w.managed
      /\ v.shown = w.shown
  BY <1>1 DEF Good, Window
<1> HIDE DEF v
<1>4. Good(v)
  BY <1>3 DEF Good, Selected
<1>5. QED
  BY <1>2, <1>3, <1>4
-----------------------------------------------------------------------------
(* Every action leaves the objects good. *)

\* v is w after its handler: the objects that nothing refers to are gone.
Ended(v, w) ==
    /\ v \in Window /\ Same(v, w) /\ v.ok
    /\ v.sieve = [c \in Conn |-> IF c \in Free(w) THEN Unused(First) ELSE w.sieve[c]]

LEMMA UnusedIs ==
    /\ Unused(First) \in Sieve /\ Turn(Unused(First)) /\ LetIn(Unused(First))
    /\ ~Unused(First).open /\ Unused(First).queue = <<>> /\ Quiet(Unused(First))
<1>1. <<>> \in Seq(Request)
  OBVIOUS
<1>2. Unused(First) \in Sieve
  BY <1>1, NoneFacts, OutOfOfficeAssumption DEF Unused, Sieve
<1>3. /\ Unused(First).asked = NoRequest /\ Unused(First).reply = NoAnswer
      /\ ~Unused(First).open /\ Unused(First).queue = <<>>
  BY DEF Unused
<1>4. QED
  BY <1>2, <1>3 DEF Turn, LetIn, Quiet

LEMMA DoneIs ==
    ASSUME NEW w, Good(w), Done(w)
    PROVE  Ended(client', w) /\ Good(client') /\ client'.ok
<1> DEFINE f == [c \in Conn |-> IF c \in Free(w) THEN Unused(First) ELSE w.sieve[c]]
           v == [w EXCEPT !.ok = TRUE, !.sieve = f]
<1>1. w \in Window /\ w.sieve \in [Conn -> Sieve]
  BY DEF Good, Window
<1>2. client' = v
  BY <1>1 DEF Done, Window
<1>3. f \in [Conn -> Sieve]
  BY <1>1, UnusedIs
<1>4. \A c \in Conn : Turn(f[c]) /\ LetIn(f[c])
  BY UnusedIs DEF Good
<1>5. f = [c \in Conn |-> IF c \in Free(w) THEN Unused(First) ELSE w.sieve[c]]
  OBVIOUS
<1> HIDE DEF f
<1>6. v \in Window /\ Same(v, w) /\ v.ok = TRUE /\ v.sieve = f
  BY <1>1, <1>3 DEF Window, Same
<1> HIDE DEF v
<1>7. Good(v)
  BY <1>4, <1>6, SelectedSame DEF Good
<1>8. QED
  BY <1>2, <1>5, <1>6, <1>7 DEF Ended

LEMMA GoodUser ==
    ASSUME GoodInv, User
    PROVE  Good(client') /\ client'.ok /\ server' = server
<1>1. Good(client) /\ client \in Window
  BY DEF GoodInv, Good
<1>2. ASSUME NEW a \in Account, SelectRow(a)
      PROVE  Good(client') /\ client'.ok /\ server' = server
  <2> DEFINE w == [client EXCEPT !.row = a]
  <2>1. Free(client) # {} /\ server' = server /\ Done(OnTreeSelect(w))
    BY <1>2 DEF SelectRow, Click
  <2>2. /\ w \in Window /\ w.sieve = client.sieve /\ w.gSieve = client.gSieve
        /\ w.own = client.own /\ w.row = a /\ a # None
    BY <1>1, OutOfOfficeAssumption DEF Window
  <2> HIDE DEF w
  <2>3. Good(w) /\ Free(w) # {}
    BY <1>1, <2>1, <2>2 DEF Good, Selected, Free
  <2>4. QED
    BY <2>1, <2>2, <2>3, GoodOnTreeSelect, DoneIs
<1>3. ASSUME EnableClick
      PROVE  Good(client') /\ client'.ok /\ server' = server
  <2> DEFINE a == client.row
             w == [client EXCEPT !.enabled[a] = TRUE, !.activating = TRUE]
             x == [w EXCEPT !.current = a]
  <2>1. Free(client) # {} /\ server' = server /\ a # None
    BY <1>3 DEF EnableClick, Click
  <2>2. a \in Account
    BY <1>1, <2>1 DEF Window
  <2>3. Done(OnTreeSelect(w)) \/ Done(ConnectServer(x, a, TRUE))
    BY <1>3 DEF EnableClick
  <2>4. /\ w \in Window /\ w.sieve = client.sieve /\ w.gSieve = client.gSieve
        /\ w.own = client.own /\ w.row = a
    BY <1>1, <2>2 DEF Window
  <2>5. Good(w) /\ Free(w) # {}
    BY <1>1, <2>1, <2>4 DEF Good, Selected, Free
  <2> HIDE DEF w
  <2>6. /\ x \in Window /\ x.sieve = w.sieve /\ x.gSieve = w.gSieve
        /\ x.own = w.own /\ x.row = a
    BY <2>2, <2>4 DEF Window
  <2> HIDE DEF x
  <2>7. Good(x) /\ Free(x) # {}
    BY <2>1, <2>5, <2>6 DEF Good, Selected, Free
  <2>8. Good(OnTreeSelect(w)) /\ Good(ConnectServer(x, a, TRUE))
    BY <2>1, <2>2, <2>4, <2>5, <2>7, GoodOnTreeSelect, GoodConnectServer
  <2>9. QED
    BY <2>1, <2>3, <2>8, DoneIs
<1>4. ASSUME EditClick
      PROVE  Good(client') /\ client'.ok /\ server' = server
  <2> DEFINE w == [client EXCEPT !.dialog = TRUE]
             v == AddRequest(w, w.gSieve, Req("getscript"))
             b == v.tryToCreate \/ v.ok
             x == [v EXCEPT !.tryToCreate = b]
  <2>1. server' = server /\ client.canEdit /\ (Done(w) \/ Done(x))
    BY <1>4 DEF EditClick, Click
  <2>2. /\ w \in Window /\ w.sieve = client.sieve /\ w.row = client.row
        /\ w.current = client.current
    BY <1>1 DEF Window
  <2> HIDE DEF w
  <2>3. Good(w)
    BY <1>1, <2>1, <2>2 DEF Good, Selected
  <2>4. Req("getscript") \in Request
    BY Requests DEF Cmd, OnScript
  <2>5. Good(v) /\ b \in BOOLEAN
    BY <2>3, <2>4, GoodAddRequest DEF Carries
  <2> HIDE DEF v, b
  <2>6. /\ x \in Window /\ x.sieve = v.sieve /\ x.canEdit = v.canEdit
        /\ x.dialog = v.dialog /\ x.current = v.current /\ x.row = v.row
    BY <2>5 DEF Good, Window
  <2> HIDE DEF x
  <2>7. Good(x)
    BY <2>5, <2>6 DEF Good, Selected
  <2>8. QED
    BY <2>1, <2>3, <2>7, DoneIs
<1>5. ASSUME NEW accept \in BOOLEAN, EditDone(accept)
      PROVE  Good(client') /\ client'.ok /\ server' = server
  <2> DEFINE w == [client EXCEPT !.dialog = FALSE]
             v == IF ~accept THEN w
                  ELSE IF w.managed = None THEN Throw(w)
                  ELSE AddRequest(w, w.gSieve, Req("putscript"))
  <2>1. server' = server /\ client.dialog /\ Done(IF v.ok THEN UpdateControl(v) ELSE v)
    BY <1>5 DEF EditDone
  <2>2. /\ w \in Window /\ w.sieve = client.sieve /\ w.row = client.row
        /\ w.current = client.current /\ w.canEdit = client.canEdit
    BY <1>1 DEF Window
  <2> HIDE DEF w
  <2>3. Good(w) /\ w.row # None
    BY <1>1, <2>1, <2>2 DEF Good, Selected
  <2>4. Req("putscript") \in Request
    BY Requests DEF Cmd, OnScript
  <2>5. Same(v, w)
    <3>1. Same(w, w)
      BY SameRefl
    <3>2. Same(Throw(w), w)
      BY <2>2, ThrowIs
    <3>3. CASE w.gSieve \in Conn
      BY <2>2, <2>4, <3>1, <3>2, <3>3, AddRequestIs DEF Becomes
    <3>4. CASE w.gSieve \notin Conn
      BY <3>1, <3>2, <3>4 DEF AddRequest
    <3>5. QED
      BY <3>3, <3>4
  <2>6. Good(v)
    BY <2>3, <2>4, GoodAddRequest, GoodThrow DEF Carries
  <2> HIDE DEF v
  <2>7. v.row # None
    BY <2>3, <2>5 DEF Same
  <2>8. Good(UpdateControl(v))
    BY <2>6, <2>7, GoodUpdateControl
  <2>9. QED
    BY <2>1, <2>6, <2>8, DoneIs
<1>6. QED
  BY <1>2, <1>3, <1>4, <1>5 DEF User

\* The connection s when its server has answered, with the truth about srv.
Answered(s, res, script, active, login, over) ==
    [s EXCEPT !.asked = NoRequest,
              !.reply = [of |-> s.asked.cmd, res |-> res, found |-> script, active |-> active],
              !.login = login, !.over = over]

Script(srv, s) == srv[s.account].script # None

\* The login of s after the answer.
Admitted(s, res) ==
    s.login \/ (res = "OK" /\ s.asked.cmd = "authenticate") \/ s.account \in Anonymous

Replies(t, s, res, srv) ==
    /\ t \in Sieve /\ t.account = s.account /\ t.open = s.open /\ t.queue = s.queue
    /\ t.asked = NoRequest /\ t.reply.of = s.asked.cmd /\ t.reply.res = res
    /\ t.reply # NoAnswer
    /\ t.reply.found = Script(srv, s) /\ t.reply.active = srv[s.account].active
    /\ t.data = s.data /\ t.login = Admitted(s, res) /\ t.moved = s.moved

LEMMA ToldIs ==
    ASSUME Good(client), ServersGood(server), NEW c \in Conn,
           NEW res \in {"OK", "NO", "REFERRAL"}, client.sieve[c].asked # NoRequest
    PROVE  /\ \E t : /\ Becomes(Told(c, res), client, c, t)
                     /\ Replies(t, client.sieve[c], res, server)
           /\ Told(c, res).ok = client.ok
<1> DEFINE s == client.sieve[c]
           script == Script(server, s)
           active == server[s.account].active
           login == Admitted(s, res)
           over == s.asked.cmd = "logout"
           t == Answered(s, res, script, active, login, over)
           v == Told(c, res)
<1>1. client \in Window /\ s \in Sieve /\ client.sieve \in [Conn -> Sieve]
  BY DEF Good, Window
<1>2. s.asked \in Request /\ s.asked.cmd \in Cmd
  BY <1>1 DEF Sieve, Request
<1>3. s.account \in Account
  BY <1>1 DEF Sieve
<1>4. script \in BOOLEAN /\ active \in BOOLEAN /\ login \in BOOLEAN /\ over \in BOOLEAN
  BY <1>3 DEF Script, ServersGood, Servers, Admitted
<1> DEFINE reply == [of |-> s.asked.cmd, res |-> res, found |-> script, active |-> active]
<1>a. v = [client EXCEPT !.sieve[c].asked = NoRequest, !.sieve[c].reply = reply,
                         !.sieve[c].login = login, !.sieve[c].over = over]
  <2>1. s.login = client.sieve[c].login
    OBVIOUS
  <2>2. QED
    BY <1>1, <2>1 DEF Told, Script, Admitted, Window, Sieve
<1>b. t = [s EXCEPT !.asked = NoRequest, !.reply = reply, !.login = login, !.over = over]
  BY DEF Answered
<1> HIDE DEF script, active, login, over, reply, t, v
<1>5. v = [client EXCEPT !.sieve = [client.sieve EXCEPT ![c] = t]]
  <2> DEFINE f == [client.sieve EXCEPT ![c].asked = NoRequest, ![c].reply = reply,
                                       ![c].login = login, ![c].over = over]
  <2>1. f = [client.sieve EXCEPT ![c] = t]
    BY <1>1, <1>b DEF Sieve
  <2>2. v = [client EXCEPT !.sieve = f]
    BY <1>1, <1>a DEF Window
  <2> HIDE DEF f
  <2>3. QED
    BY <2>1, <2>2
<1> USE DEF t
<1>6. [of |-> s.asked.cmd, res |-> res, found |-> script, active |-> active] \in Answer
  BY <1>2, <1>4 DEF Answer
<1>7. [of |-> s.asked.cmd, res |-> res, found |-> script, active |-> active] # NoAnswer
  BY DEF NoAnswer, None
<1>8. /\ t \in Sieve /\ t.account = s.account /\ t.open = s.open /\ t.queue = s.queue
      /\ t.asked = NoRequest /\ t.reply.of = s.asked.cmd /\ t.reply.res = res
      /\ t.reply.found = script /\ t.reply.active = active
      /\ t.data = s.data /\ t.login = login /\ t.moved = s.moved
  BY <1>1, <1>4, <1>6 DEF Answered, Sieve
<1>9. t.reply # NoAnswer
  BY <1>1, <1>7 DEF Answered, Sieve
<1> HIDE DEF t, v
<1>10. Becomes(v, client, c, t) /\ v.ok = client.ok
  BY <1>1, <1>5, <1>8, Becoming
<1>11. Replies(t, s, res, server)
  BY <1>8, <1>9 DEF Replies, script, active, login
<1>12. QED
  BY <1>10, <1>11 DEF v

LEMMA GoodTold ==
    ASSUME Good(client), ServersGood(server), NEW c \in Conn,
           NEW res \in {"OK", "NO", "REFERRAL"}, client.sieve[c].asked # NoRequest
    PROVE  Good(Told(c, res))
<1> DEFINE s == client.sieve[c]
<1>1. PICK t : Becomes(Told(c, res), client, c, t) /\ Replies(t, s, res, server)
  BY ToldIs
<1>2. Turn(s) /\ LetIn(s)
  BY DEF Good
<1>3. s.queue # <<>> /\ s.asked = Head(s.queue) /\ s.open
  BY <1>2 DEF Turn, LetIn, Quiet
<1>4. Turn(t)
  BY <1>1, <1>3 DEF Replies, Turn
<1>5. LetIn(t)
  BY <1>1, <1>3 DEF Replies, LetIn, Admitted
<1>6. QED
  BY <1>1, <1>4, <1>5, GoodBecomes

LEMMA ServersGoodObey ==
    ASSUME Good(client), ServersGood(server), NEW c \in Conn, Obey(c)
    PROVE  /\ ServersGood(server')
           /\ \A a \in Account : a # client.sieve[c].account => server'[a] = server[a]
           /\ LET a == client.sieve[c].account
                  r == client.sieve[c].asked IN
              /\ r.cmd = "setactive" => server'[a].active = r.arg
              /\ r.cmd # "setactive" => server'[a].active = server[a].active
              /\ r.cmd = "listscripts" => server' = server
<1> DEFINE s == client.sieve[c]
           a == s.account
           r == s.asked
<1>1. r # NoRequest /\ Able(c)
  BY DEF Obey
<1>2. s \in Sieve
  BY DEF Good, Window
<1>3. a \in Account /\ r.arg \in BOOLEAN
  BY <1>1, <1>2 DEF Sieve, Request
<1>4. server \in Servers /\ server[a] \in [script : {None, "user", "new"}, active : BOOLEAN]
  BY <1>3 DEF ServersGood, Servers
<1> HIDE DEF s
<1>5. CASE r.cmd = "setactive"
  <2>1. server' = [server EXCEPT ![a].active = r.arg]
    BY <1>5 DEF Obey, s
  <2>2. r.arg => server[a].script # None
    BY <1>1, <1>5 DEF Able, s
  <2>3. /\ server' \in Servers /\ server'[a].active = r.arg
        /\ server'[a].script = server[a].script
        /\ \A b \in Account : b # a => server'[b] = server[b]
    BY <1>3, <1>4, <2>1 DEF Servers
  <2>4. ServersGood(server')
    BY <2>2, <2>3 DEF ServersGood
  <2>5. QED
    BY <1>5, <2>3, <2>4 DEF s
<1>6. CASE r.cmd \in {"putscript", "create"}
  <2>1. PICK x \in {"user", "new"} : server' = [server EXCEPT ![a].script = x]
    BY <1>6 DEF Obey, s
  <2>2. /\ server' \in Servers /\ server'[a].active = server[a].active
        /\ server'[a].script = x
        /\ \A b \in Account : b # a => server'[b] = server[b]
    BY <1>3, <1>4, <2>1 DEF Servers
  <2>3. ServersGood(server')
    BY <2>2 DEF ServersGood, None
  <2>4. QED
    BY <1>6, <2>2, <2>3 DEF s
<1>7. CASE r.cmd \notin {"setactive", "putscript", "create"}
  <2>1. server' = server
    BY <1>7 DEF Obey, s
  <2>2. QED
    BY <1>7, <2>1 DEF s
<1>8. QED
  BY <1>5, <1>6, <1>7

\* The answer of c has been taken from the wire.
Taken(w, c) == [w EXCEPT !.sieve[c].reply = NoAnswer, !.sieve[c].torn = FALSE]

Heard(s) == [s EXCEPT !.reply = NoAnswer, !.torn = FALSE]

LEMMA HeardIs ==
    ASSUME NEW s \in Sieve
    PROVE  /\ Heard(s) \in Sieve /\ Heard(s).reply = NoAnswer
           /\ Heard(s).account = s.account /\ Heard(s).open = s.open
           /\ Heard(s).queue = s.queue /\ Heard(s).asked = s.asked
           /\ Heard(s).data = s.data /\ Heard(s).login = s.login
           /\ Heard(s).moved = s.moved
  BY NoneFacts DEF Heard, Sieve

LEMMA TakenIs ==
    ASSUME NEW w, Good(w), NEW c \in Conn, w.sieve[c].open, w.sieve[c].reply # NoAnswer
    PROVE  /\ Good(Taken(w, c)) /\ Becomes(Taken(w, c), w, c, Heard(w.sieve[c]))
           /\ Taken(w, c).ok = w.ok
           /\ Free(Taken(w, c)) = Free(w) /\ Held(Taken(w, c), c)
<1> DEFINE s == w.sieve[c]
           t == Heard(s)
           v == Taken(w, c)
<1>1. w \in Window /\ s \in Sieve /\ w.sieve \in [Conn -> Sieve]
  BY DEF Good, Window
<1>2. s.queue # <<>> /\ s.asked = NoRequest
  BY DEF Good, Turn
<1>3. /\ t \in Sieve /\ t.reply = NoAnswer /\ t.asked = NoRequest /\ t.queue # <<>>
      /\ t.open
  BY <1>1, <1>2, HeardIs
<1>4. v = [w EXCEPT !.sieve = [w.sieve EXCEPT ![c] = t]]
  BY <1>1 DEF Taken, Heard, Window, Sieve
<1> HIDE DEF t, v
<1>5. Becomes(v, w, c, t) /\ v.ok = w.ok
  BY <1>1, <1>3, <1>4, Becoming
<1>6. Turn(t) /\ LetIn(t)
  BY <1>3 DEF Turn, LetIn
<1>7. Good(v)
  BY <1>5, <1>6, GoodBecomes
<1>8. Free(v) = Free(w) /\ Held(v, c)
  BY <1>3, <1>5 DEF Free, Becomes, Same, Held, Behind, Quiet
<1>9. QED
  BY <1>5, <1>7, <1>8 DEF v, t

\* What the handler of an answer makes of the window.
HandlerEnd(c, password) ==
    LET s == client.sieve[c]
        w == Taken(client, c)
        answer == IF s.data # NoAnswer THEN s.data ELSE s.reply
        v == Listener(w, Head(s.queue).cmd, answer, password)
    IN IF v.ok THEN NextRequest(v, c, password)
       ELSE [v EXCEPT !.sieve[c].data = answer]

Minding(s, answer) == [s EXCEPT !.data = answer]

LEMMA MindingIs ==
    ASSUME NEW s \in Sieve, NEW answer \in Answer
    PROVE  LET t == Minding(s, answer) IN
           /\ t \in Sieve /\ t.data = answer /\ t.reply = s.reply
           /\ t.account = s.account /\ t.open = s.open /\ t.queue = s.queue
           /\ t.asked = s.asked /\ t.login = s.login /\ t.moved = s.moved
  BY DEF Minding, Sieve

LEMMA MindedIs ==
    ASSUME NEW v, Good(v), NEW c \in Conn, NEW answer \in Answer
    PROVE  LET x == [v EXCEPT !.sieve[c].data = answer] IN
           Good(x) /\ Becomes(x, v, c, Minding(v.sieve[c], answer))
<1> DEFINE s == v.sieve[c]
           t == Minding(s, answer)
           x == [v EXCEPT !.sieve[c].data = answer]
<1>1. v \in Window /\ s \in Sieve /\ v.sieve \in [Conn -> Sieve] /\ Turn(s) /\ LetIn(s)
  BY DEF Good, Window
<1>2. /\ t \in Sieve /\ t.reply = s.reply /\ t.account = s.account /\ t.open = s.open
      /\ t.queue = s.queue /\ t.asked = s.asked /\ t.login = s.login
  BY <1>1, MindingIs
<1>3. x = [v EXCEPT !.sieve = [v.sieve EXCEPT ![c] = t]]
  BY <1>1 DEF Minding, Window, Sieve
<1> HIDE DEF t, x
<1>4. Becomes(x, v, c, t)
  BY <1>1, <1>2, <1>3, Becoming
<1>5. Turn(t) /\ LetIn(t)
  BY <1>1, <1>2 DEF Turn, LetIn, Quiet
<1>6. QED
  BY <1>4, <1>5, GoodBecomes DEF x, t

\* An answer always finds its request at the head of the queue.
LEMMA HandlerIs ==
    ASSUME Good(client), NEW c \in Conn, NEW password \in BOOLEAN, DataAvailable(c, password)
    PROVE  /\ Done(HandlerEnd(c, password)) /\ server' = server
           /\ client.sieve[c].open /\ client.sieve[c].reply # NoAnswer
           /\ client.sieve[c].queue # <<>>
<1>1. client.sieve[c].queue # <<>>
  BY DEF DataAvailable, Good, Turn
<1>2. QED
  BY <1>1 DEF DataAvailable, HandlerEnd, Taken

LEMMA GoodDataAvailable ==
    ASSUME Good(client), NEW c \in Conn, NEW password \in BOOLEAN, DataAvailable(c, password)
    PROVE  Good(HandlerEnd(c, password))
<1> DEFINE s == client.sieve[c]
           w == Taken(client, c)
           answer == IF s.data # NoAnswer THEN s.data ELSE s.reply
           v == Listener(w, Head(s.queue).cmd, answer, password)
<1>1. s.open /\ s.reply # NoAnswer /\ s.queue # <<>> /\ Free(client) # {}
  BY HandlerIs DEF DataAvailable
<1>2. s \in Sieve
  BY DEF Good, Window
<1>3. answer \in Answer /\ s.queue \in Seq(Request)
  BY <1>2 DEF Sieve
<1>4. Head(s.queue) \in Request
  BY <1>1, <1>3
<1>5. Head(s.queue).cmd \in Cmd
  BY <1>4 DEF Request
<1>6. Good(w) /\ Free(w) # {} /\ Held(w, c)
  BY <1>1, TakenIs
<1>7. HandlerEnd(c, password) = IF v.ok THEN NextRequest(v, c, password)
                                ELSE [v EXCEPT !.sieve[c].data = answer]
  BY DEF HandlerEnd
<1> HIDE DEF answer, w
<1>8. After(w, v)
  BY <1>3, <1>5, <1>6, GoodListener
<1> HIDE DEF v
<1>9. Good(v) /\ Behind(v, c)
  BY <1>6, <1>8 DEF After
<1>10. Good(NextRequest(v, c, password)) /\ Good([v EXCEPT !.sieve[c].data = answer])
  BY <1>3, <1>9, GoodNextRequest, MindedIs
<1>11. QED
  BY <1>7, <1>10

LEMMA GoodNetwork ==
    ASSUME GoodInv, NEW c \in Conn, Network(c)
    PROVE  Good(client') /\ client'.ok /\ ServersGood(server')
<1>1. Good(client) /\ client.ok /\ ServersGood(server) /\ client.sieve[c] \in Sieve
  BY DEF GoodInv, Good, Window
<1>2. CASE Obey(c)
  <2>1. client' = Told(c, "OK") /\ client.sieve[c].asked # NoRequest
    BY <1>2 DEF Obey
  <2>2. Good(Told(c, "OK")) /\ Told(c, "OK").ok
    BY <1>1, <2>1, GoodTold, ToldIs
  <2>3. ServersGood(server')
    BY <1>1, <1>2, ServersGoodObey
  <2>4. QED
    BY <2>1, <2>2, <2>3
<1>3. CASE \E res \in {"NO", "REFERRAL"} : Refuse(c, res)
  <2>1. PICK res \in {"NO", "REFERRAL"} : Refuse(c, res)
    BY <1>3
  <2>2. client' = Told(c, res) /\ client.sieve[c].asked # NoRequest /\ server' = server
    BY <2>1 DEF Refuse
  <2>3. Good(Told(c, res)) /\ Told(c, res).ok
    BY <1>1, <2>2, GoodTold, ToldIs
  <2>4. QED
    BY <1>1, <2>2, <2>3
<1>4. CASE Tear(c)
  <2> DEFINE s == client.sieve[c]
             t == [s EXCEPT !.torn = TRUE]
             v == [client EXCEPT !.sieve[c].torn = TRUE]
  <2>1. client' = v /\ server' = server
    BY <1>4 DEF Tear
  <2>2. client.sieve \in [Conn -> Sieve] /\ client \in Window
    BY <1>1 DEF Good, Window
  <2>3. /\ t \in Sieve /\ t.account = s.account /\ t.open = s.open /\ t.queue = s.queue
        /\ t.asked = s.asked /\ t.reply = s.reply /\ t.login = s.login
    BY <1>1 DEF Sieve
  <2>4. v = [client EXCEPT !.sieve = [client.sieve EXCEPT ![c] = t]]
    BY <2>2 DEF Window, Sieve
  <2> HIDE DEF t, v
  <2>5. Becomes(v, client, c, t) /\ v.ok = client.ok
    BY <2>2, <2>3, <2>4, Becoming
  <2>6. Turn(t) /\ LetIn(t)
    BY <1>1, <2>3 DEF Good, Turn, LetIn, Quiet
  <2>7. QED
    BY <1>1, <2>1, <2>5, <2>6, GoodBecomes
<1>5. CASE \E password \in BOOLEAN : DataAvailable(c, password)
  <2>1. PICK password \in BOOLEAN : DataAvailable(c, password)
    BY <1>5
  <2>2. QED
    BY <1>1, <2>1, GoodDataAvailable, HandlerIs, DoneIs
<1>6. CASE \E error, parsable, password \in BOOLEAN : StopRequest(c, error, parsable, password)
  <2>1. PICK error \in BOOLEAN, parsable \in BOOLEAN, password \in BOOLEAN :
          StopRequest(c, error, parsable, password)
    BY <1>6
  <2>2. /\ error => Free(client) # {}
        /\ Done(Stopped(client, c, error, parsable, password)) /\ server' = server
    BY <2>1 DEF StopRequest
  <2>3. Good(Stopped(client, c, error, parsable, password))
    BY <1>1, <2>2, GoodStopped
  <2>4. QED
    BY <1>1, <2>2, <2>3, DoneIs
<1>7. QED
  BY <1>2, <1>3, <1>4, <1>5, <1>6 DEF Network

LEMMA GoodInit == Init => GoodInv
<1> SUFFICES ASSUME Init PROVE GoodInv
  OBVIOUS
<1>1. PICK shown \in [Account -> BOOLEAN] :
        client = [sieve |-> [c \in Conn |-> Unused(First)],
                  gSieve |-> 0, own |-> 0, account |-> First,
                  connected |-> FALSE, activate |-> FALSE, tryToCreate |-> FALSE,
                  current |-> None, row |-> None, internal |-> FALSE,
                  progress |-> FALSE, activating |-> FALSE, canEdit |-> FALSE,
                  dialog |-> FALSE, managed |-> None, shown |-> shown,
                  enabled |-> [a \in Account |-> TRUE], ok |-> TRUE]
  BY DEF Init
<1>2. client \in Window
  BY <1>1, UnusedIs, OutOfOfficeAssumption DEF Window
<1>3. /\ client.canEdit = FALSE /\ client.dialog = FALSE /\ client.current = None
      /\ client.ok = TRUE /\ \A c \in Conn : client.sieve[c] = Unused(First)
  BY <1>1
<1>4. Good(client) /\ client.ok
  BY <1>2, <1>3, UnusedIs DEF Good, Selected
<1>5. ServersGood(server)
  BY DEF Init, ServersGood, Servers, None
<1>6. hasty \in BOOLEAN /\ clicks \in 0..MaxClicks
  <2>1. hasty = FALSE /\ clicks = 0
    BY DEF Init
  <2>2. MaxClicks \in Nat
    BY OutOfOfficeAssumption
  <2>3. hasty \in BOOLEAN
    BY <2>1
  <2>4. clicks \in 0..MaxClicks
    BY <2>1, <2>2
  <2>5. QED
    BY <2>3, <2>4
<1>7. QED
  BY <1>4, <1>5, <1>6 DEF GoodInv

LEMMA HastyClicks ==
    ASSUME GoodInv, [Next]_vars
    PROVE  /\ hasty' \in BOOLEAN /\ clicks' \in 0..MaxClicks
           /\ hasty => hasty'
<1>1. hasty \in BOOLEAN /\ clicks \in 0..MaxClicks /\ MaxClicks \in Nat
  BY OutOfOfficeAssumption DEF GoodInv
<1>2. CASE Click
  <2>1. clicks < MaxClicks /\ clicks' = clicks + 1
    BY <1>2 DEF Click
  <2>2. clicks' \in 0..MaxClicks
    BY <1>1, <2>1
  <2>3. hasty' = (hasty \/ Unanswered)
    BY <1>2 DEF Click
  <2>4. hasty' \in BOOLEAN /\ (hasty => hasty')
    BY <2>3
  <2>5. QED
    BY <2>2, <2>4
<1>3. CASE \E accept \in BOOLEAN : EditDone(accept)
  <2>1. PICK accept \in BOOLEAN : EditDone(accept)
    BY <1>3
  <2>2. hasty' = (hasty \/ (accept /\ Unanswered)) /\ clicks' = clicks
    BY <2>1 DEF EditDone
  <2>3. hasty' \in BOOLEAN /\ (hasty => hasty')
    BY <2>2
  <2>4. QED
    BY <1>1, <2>2, <2>3
<1>4. CASE \E c \in Conn : Network(c)
  <2>1. PICK c \in Conn : Network(c)
    BY <1>4
  <2>2. ASSUME Obey(c) \/ Tear(c) PROVE hasty' = hasty /\ clicks' = clicks
    BY <2>2 DEF Obey, Tear
  <2>3. ASSUME NEW res, Refuse(c, res) PROVE hasty' = hasty /\ clicks' = clicks
    BY <2>3 DEF Refuse
  <2>4. ASSUME NEW password, DataAvailable(c, password)
        PROVE  hasty' = hasty /\ clicks' = clicks
    BY <2>4 DEF DataAvailable
  <2>5. ASSUME NEW error, NEW parsable, NEW password,
               StopRequest(c, error, parsable, password)
        PROVE  hasty' = hasty /\ clicks' = clicks
    BY <2>5 DEF StopRequest
  <2>6. hasty' = hasty /\ clicks' = clicks
    BY <2>1, <2>2, <2>3, <2>4, <2>5 DEF Network
  <2>7. QED
    BY <1>1, <2>6
<1>5. CASE UNCHANGED vars
  <2>1. hasty' = hasty /\ clicks' = clicks
    BY <1>5 DEF vars
  <2>2. QED
    BY <1>1, <2>1
<1>6. QED
  BY <1>2, <1>3, <1>4, <1>5 DEF Next, User, SelectRow, EnableClick, EditClick

LEMMA GoodNext ==
    ASSUME GoodInv, [Next]_vars
    PROVE  GoodInv'
<1>1. hasty' \in BOOLEAN /\ clicks' \in 0..MaxClicks
  BY HastyClicks
<1>2. CASE User
  BY <1>1, <1>2, GoodUser DEF GoodInv
<1>3. CASE \E c \in Conn : Network(c)
  BY <1>1, <1>3, GoodNetwork DEF GoodInv
<1>4. CASE UNCHANGED vars
  BY <1>1, <1>4 DEF GoodInv, vars
<1>5. QED
  BY <1>2, <1>3, <1>4 DEF Next

\* The objects of the window and of its connections fit together between any
\* two callbacks: the queue of each connection is served in the order in which
\* its requests were sent, no handler has met an object it cannot use, and an
\* active script is there.
THEOREM AlwaysGood == Spec => []GoodInv
<1>1. Init => GoodInv
  BY GoodInit
<1>2. GoodInv /\ [Next]_vars => GoodInv'
  BY GoodNext
<1>3. QED
  BY <1>1, <1>2, PTL DEF Spec

\* Whatever handler runs, and with whatever it is called, it leaves objects
\* that the next handler can use, on any number of connections and accounts.
THEOREM OfficeTypeCorrect == Spec => []TypeOK
<1>1. GoodInv => TypeOK
  BY DEF GoodInv, Good, ServersGood, Servers, Window, TypeOK
<1>2. QED
  BY <1>1, AlwaysGood, PTL

\* An answer meets the request it answers at the head of the queue of its
\* connection, whatever sessions and dialogs have queued on it, whatever was
\* refused, torn or broken off, and also for a user who does not wait.
THEOREM AnswersInTurn == Spec => []InTurn
<1>1. GoodInv => InTurn
  BY DEF GoodInv, Good, Turn, InTurn
<1>2. QED
  BY <1>1, AlwaysGood, PTL
-----------------------------------------------------------------------------
(* As long as the user waits, an answer leaves the session steady. *)

\* On the session's connection c the answer to h, the only request, has come.
Hearing(w, srv, c, h) ==
    /\ Good(w) /\ w.ok /\ c \in Conn /\ w.gSieve = c /\ h \in Request
    /\ w.sieve[c].open /\ Quiet(w.sieve[c]) /\ w.sieve[c].queue = <<h>>
    /\ Steady(w, srv)

LEMMA OneIs ==
    ASSUME NEW h \in Request, NEW r \in Request
    PROVE  /\ <<h>> # <<>> /\ Head(<<h>>) = h /\ Tail(<<h>>) = <<>> /\ Len(<<h>>) = 1
           /\ Tail(Append(<<h>>, r)) = <<r>> /\ <<h>> \in Seq(Request)
<1>1. <<h>> # <<>> /\ Head(<<h>>) = h /\ Len(<<h>>) = 1 /\ <<h>> \in Seq(Request)
  OBVIOUS
<1>2. Tail(<<h>>) = <<>>
  OBVIOUS
<1>3. Tail(Append(<<h>>, r)) = Append(<<>>, r)
  <2> DEFINE q == <<h>>
  <2>1. q \in Seq(Request) /\ q # <<>> /\ Tail(q) = <<>>
    BY <1>1, <1>2
  <2> HIDE DEF q
  <2>2. Tail(Append(q, r)) = Append(Tail(q), r)
    BY <2>1, HeadTailAppend
  <2>3. QED
    BY <2>1, <2>2 DEF q
<1>4. <<>> \in Seq(Request)
  OBVIOUS
<1>5. Append(<<>>, r) = <<r>>
  BY <1>4, AppendIs
<1>6. QED
  BY <1>1, <1>2, <1>3, <1>5

LEMMA HearingIs ==
    ASSUME NEW w, NEW srv, NEW c, NEW h, Hearing(w, srv, c, h)
    PROVE  /\ w \in Window /\ w.sieve[c] \in Sieve /\ Held(w, c)
           /\ Session(w, w.sieve[c], srv) /\ Left(w) /\ OneAccount(w)
           /\ Asking(w, w.sieve[c], srv, h)
           /\ w.account \in Account /\ w.gSieve \in Conn
<1>1. w \in Window /\ w.sieve[c] \in Sieve /\ w.account \in Account
  BY DEF Hearing, Good, Window
<1>2. <<h>> # <<>> /\ Head(<<h>>) = h
  BY OneIs DEF Hearing
<1>3. Held(w, c)
  BY <1>2 DEF Hearing, Held, Behind, Free
<1>4. Session(w, w.sieve[c], srv) /\ Left(w) /\ OneAccount(w)
  BY DEF Hearing, Steady, InSession
<1>5. Asking(w, w.sieve[c], srv, h)
  BY <1>2, <1>4 DEF Hearing, Session
<1>6. QED
  BY <1>1, <1>3, <1>4, <1>5 DEF Hearing

LEMMA EndNothing ==
    ASSUME NEW v, Good(v), NEW c \in Conn, NEW h \in Request, v.sieve[c].queue = <<h>>,
           Quiet(v.sieve[c]), NEW password
    PROVE  /\ Becomes(NextRequest(v, c, password), v, c, Passed(v.sieve[c]))
           /\ Passed(v.sieve[c]).queue = <<>>
<1>1. <<h>> # <<>> /\ Tail(<<h>>) = <<>>
  BY OneIs
<1>2. v.sieve[c] \in Sieve
  BY DEF Good, Window
<1>3. Becomes(Over(v, c), v, c, Passed(v.sieve[c]))
  BY <1>1, OverIs DEF Behind
<1>4. Passed(v.sieve[c]).queue = <<>>
  BY <1>1, <1>2, PassedIs
<1>5. Over(v, c).sieve[c].queue = <<>>
  BY <1>3, <1>4 DEF Becomes
<1>6. QED
  BY <1>3, <1>4, <1>5, NextRequestIs

\* The connection s after its only request has been answered and r written.
Next1(t, s, r) ==
    /\ t.queue = <<r>> /\ t.reply = NoAnswer /\ t.data = NoAnswer
    /\ t.account = s.account /\ t.open = s.open /\ t.login = s.login /\ t.moved = s.moved

LEMMA EndFollows ==
    ASSUME NEW v, Good(v), v.ok, NEW c \in Conn, NEW h \in Request, NEW r \in Request,
           NEW s \in Sieve, s.open, Quiet(s), s.queue = <<h>>,
           v.sieve[c] = Queued(s, r), NEW password
    PROVE  \E t : Becomes(NextRequest(v, c, password), v, c, t) /\ Next1(t, s, r)
<1> DEFINE q == Queued(s, r)
           p == Passed(q)
           t == Sent(p)
           o == Over(v, c)
           one == <<h>>
           last == <<r>>
<1>1. one # <<>> /\ Tail(Append(one, r)) = last /\ s.queue = one /\ last # <<>>
  BY OneIs
<1> HIDE DEF one, last
<1>2. /\ q \in Sieve /\ q.queue = Append(one, r) /\ q.queue # <<>> /\ q.asked = NoRequest
      /\ q.reply = NoAnswer /\ q.account = s.account /\ q.open = s.open
      /\ q.login = s.login /\ q.moved = s.moved
  <2>1. s.asked = NoRequest /\ s.reply = NoAnswer /\ s.queue # <<>>
    BY <1>1 DEF Quiet
  <2>2. q.asked = IF s.queue = <<>> /\ r.cmd # "init" /\ s.open THEN r ELSE s.asked
    BY QueuedIs
  <2>4. /\ q \in Sieve /\ q.queue # <<>>
        /\ q.reply = s.reply /\ q.account = s.account /\ q.open = s.open
        /\ q.login = s.login /\ q.moved = s.moved
    BY QueuedIs
  <2>3. q.queue = Append(one, r)
    BY <1>1, QueuedIs
  <2> HIDE DEF q
  <2>5. QED
    BY <2>1, <2>2, <2>3, <2>4
<1> HIDE DEF q
<1>3. /\ p \in Sieve /\ p.queue = last /\ p.data = NoAnswer
      /\ p.reply = NoAnswer /\ p.account = s.account /\ p.open = s.open
      /\ p.login = s.login /\ p.moved = s.moved
  BY <1>1, <1>2, PassedIs
<1>4. Becomes(o, v, c, p) /\ o.ok = v.ok
  BY <1>2, OverIs DEF Behind, Quiet, q
<1> HIDE DEF p, o
<1>5. p.queue # <<>>
  BY <1>1, <1>3
<1>6. /\ t.queue = p.queue /\ t.data = NoAnswer
      /\ t.reply = NoAnswer /\ t.account = s.account /\ t.open = s.open
      /\ t.login = s.login /\ t.moved = s.moved
  BY <1>3, <1>5, SentIs
<1>7. Becomes(Write(o, c), o, c, t) /\ Write(o, c).ok = o.ok
  BY <1>3, <1>4, <1>5, WriteIs DEF Becomes
<1>8. NextRequest(v, c, password) = Write(o, c)
  BY <1>4, <1>5, <1>7, NextRequestIs DEF Becomes, o
<1> HIDE DEF t
<1>9. Becomes(Write(o, c), v, c, t)
  BY <1>4, <1>7 DEF Becomes, Same, Window
<1>10. QED
  BY <1>3, <1>6, <1>8, <1>9 DEF Next1, last

\* The window v takes the connection of the session further.
Onward(v, w, c) ==
    /\ Good(v) /\ v.ok /\ v.gSieve = c /\ v.own = w.own
    /\ \A d \in Conn : d # c => v.sieve[d] = w.sieve[d]
    /\ OneAccount(v)

Knowing(v, srv) == v.managed # None /\ v.current = None => Known(v, srv)

LEMMA SteadyFollow ==
    ASSUME NEW w, NEW srv, NEW c, NEW h, Hearing(w, srv, c, h), NEW r \in Request,
           NEW v, Onward(v, w, c), v.sieve[c] = Queued(w.sieve[c], r),
           v.connected => Trusted(w.sieve[c]), Knowing(v, srv),
           r.cmd \in OnScript => Trusted(w.sieve[c]), r.cmd # "logout",
           w.sieve[c].account = v.account,
           r.cmd \in Entering /\ ~w.sieve[c].moved => ~v.tryToCreate,
           r.cmd = "setactive" => r.arg = v.shown[v.account], NEW password
    PROVE  Steady(NextRequest(v, c, password), srv)
<1> DEFINE s == w.sieve[c]
           x == NextRequest(v, c, password)
<1>1. /\ c \in Conn /\ h \in Request /\ s \in Sieve /\ s.open /\ Quiet(s)
      /\ s.queue = <<h>> /\ Left(w) /\ w.own \in {0, c} /\ w.gSieve = c
  BY HearingIs DEF Hearing, Session
<1>2. PICK t : Becomes(x, v, c, t) /\ Next1(t, s, r)
  BY <1>1, EndFollows DEF Onward
<1>3. <<r>> # <<>> /\ Head(<<r>>) = r /\ Len(<<r>>) = 1
  BY OneIs
<1> HIDE DEF x
<1>4. /\ x.gSieve = c /\ x.own \in {0, c} /\ x.sieve[c] = t /\ x.account = v.account
      /\ x.connected = v.connected /\ x.managed = v.managed /\ x.current = v.current
      /\ x.shown = v.shown /\ x.tryToCreate = v.tryToCreate
  BY <1>1, <1>2 DEF Becomes, Same, Onward
<1>5. Asking(x, t, srv, r)
  BY <1>2, <1>4 DEF Asking, Next1, Trusted
<1>6. Session(x, t, srv)
  BY <1>2, <1>3, <1>4, <1>5 DEF Session, Next1, Trusted, Knowing, Known
<1>7. Left(x)
  BY <1>1, <1>2, <1>4, OutOfOfficeAssumption DEF Left, Becomes, Onward
<1>8. OneAccount(x)
  BY <1>4 DEF OneAccount, Onward
<1>9. QED
  BY <1>4, <1>6, <1>7, <1>8 DEF Steady, x

LEMMA SteadyNothing ==
    ASSUME NEW w, NEW srv, NEW c, NEW h, Hearing(w, srv, c, h),
           NEW v, Onward(v, w, c), v.sieve[c] = w.sieve[c],
           Trusted(w.sieve[c]), Knowing(v, srv), w.sieve[c].account = v.account,
           NEW password
    PROVE  Steady(NextRequest(v, c, password), srv)
<1> DEFINE s == w.sieve[c]
           x == NextRequest(v, c, password)
           t == Passed(s)
<1>1. /\ c \in Conn /\ h \in Request /\ s \in Sieve /\ s.open /\ Quiet(s)
      /\ s.queue = <<h>> /\ Left(w) /\ w.own \in {0, c} /\ w.gSieve = c
  BY HearingIs DEF Hearing, Session
<1>2. Becomes(x, v, c, t) /\ t.queue = <<>>
  BY <1>1, EndNothing DEF Onward
<1>3. t.data = NoAnswer /\ t.account = s.account /\ t.login = s.login /\ t.moved = s.moved
  BY <1>1, OneIs, PassedIs
<1> HIDE DEF x, t
<1>4. /\ x.gSieve = c /\ x.own \in {0, c} /\ x.sieve[c] = t /\ x.account = v.account
      /\ x.connected = v.connected /\ x.managed = v.managed /\ x.current = v.current
      /\ x.shown = v.shown
  BY <1>1, <1>2 DEF Becomes, Same, Onward
<1>5. Len(t.queue) \leq 1
  BY <1>2
<1>6. Session(x, t, srv)
  BY <1>2, <1>3, <1>4, <1>5 DEF Session, Trusted, Knowing, Known
<1>7. Left(x)
  BY <1>1, <1>2, <1>4, OutOfOfficeAssumption DEF Left, Becomes, Onward
<1>8. OneAccount(x)
  BY <1>4 DEF OneAccount, Onward
<1>9. QED
  BY <1>4, <1>6, <1>7, <1>8 DEF Steady, x

\* A session that begins on a new connection k.
LEMMA SteadyFresh ==
    ASSUME NEW w \in Window, NEW moved \in BOOLEAN, NEW k \in Conn, NEW srv, NEW x,
           x.gSieve = k, x.own = k, x.sieve[k] = Fresh(w, moved), x.account = w.account,
           \A d \in Conn : d # k /\ x.sieve[d].open => x.sieve[d].queue = <<>>,
           OneAccount(x), Knowing(x, srv), x.connected => moved, ~moved => ~x.tryToCreate
    PROVE  Steady(x, srv)
<1> DEFINE s == Fresh(w, moved)
           r == Req("init")
<1>1. /\ s.account = w.account /\ s.queue = <<r>> /\ s.reply = NoAnswer
      /\ s.data = NoAnswer /\ s.moved = moved
  BY FreshIs
<1>2. r \in Request /\ r.cmd = "init"
  BY Requests DEF Cmd
<1> HIDE DEF s, r
<1>3. <<r>> # <<>> /\ Head(<<r>>) = r /\ Len(<<r>>) = 1
  BY <1>2, OneIs
<1>4. Asking(x, s, srv, r)
  BY <1>1, <1>2 DEF Asking, OnScript
<1>5. Session(x, s, srv)
  BY <1>1, <1>3, <1>4 DEF Session, Trusted, Knowing
<1>6. Left(x)
  BY DEF Left
<1>7. QED
  BY <1>5, <1>6 DEF Steady, s

\* The session of w has ended with an error.
Ruined(v, w, c) ==
    /\ v.gSieve = 0 /\ v.own = w.own /\ v.managed = None /\ v.ok = w.ok
    /\ v.sieve[c] = Gone(w.sieve[c])
    /\ \A d \in Conn : d # c => v.sieve[d] = w.sieve[d]

LEMMA TreatErrorIs ==
    ASSUME NEW w \in Window, NEW c \in Conn, w.gSieve = c
    PROVE  Ruined(OnTreatError(w), w, c)
<1> DEFINE f == [w.enabled EXCEPT ![w.account] = FALSE]
           u == [w EXCEPT !.enabled = f]
           v == Disconnect(u, c)
           x == [v EXCEPT !.gSieve = 0]
           y == PostStatus(x, FALSE, TRUE)
<1>1. f \in [Account -> BOOLEAN] /\ [w EXCEPT !.enabled[w.account] = FALSE] = u
  BY DEF Window
<1>2. OnTreatError(w) = y
  <2>1. u.gSieve = w.gSieve
    BY DEF Window
  <2>2. QED
    BY <1>1, <2>1 DEF OnTreatError
<1> HIDE DEF f
<1>3. u \in Window /\ u.sieve = w.sieve /\ u.own = w.own /\ u.ok = w.ok
  BY <1>1 DEF Window
<1> HIDE DEF u
<1>4. Becomes(v, u, c, Gone(w.sieve[c])) /\ v.ok = w.ok
  BY <1>3, DisconnectIs
<1> HIDE DEF v
<1>5. /\ x \in Window /\ x.sieve = v.sieve /\ x.gSieve = 0 /\ x.own = v.own
      /\ x.ok = v.ok
  BY <1>4 DEF Becomes, Window
<1> HIDE DEF x
<1>6. Reports(y, x, FALSE, TRUE)
  BY <1>5, PostStatusIs
<1> HIDE DEF y
<1>7. Ruined(y, w, c)
  BY <1>3, <1>4, <1>5, <1>6 DEF Reports, Ruined, Becomes, Same
<1>8. QED
  BY <1>2, <1>7

LEMMA SteadyRuined ==
    ASSUME NEW w \in Window, NEW srv, NEW c \in Conn, NEW v,
           w.own \in {0, c}, Left(w), w.gSieve = c, Ruined(v, w, c)
    PROVE  Steady(v, srv)
<1>1. w.sieve[c] \in Sieve
  BY DEF Window
<1>2. ~v.sieve[c].open
  BY <1>1, GoneIs DEF Ruined
<1>3. Left(v)
  BY <1>2, OutOfOfficeAssumption DEF Left, Ruined
<1>4. QED
  BY <1>3, OutOfOfficeAssumption DEF Steady, Ruined, OneAccount, InSession

LEMMA SteadyTreatError ==
    ASSUME NEW w, NEW srv, NEW c, NEW h, Hearing(w, srv, c, h), NEW password
    PROVE  OnTreatError(w).ok /\ Steady(NextRequest(OnTreatError(w), c, password), srv)
<1> DEFINE v == OnTreatError(w)
           x == NextRequest(v, c, password)
           t == Passed(v.sieve[c])
<1>1. /\ w \in Window /\ c \in Conn /\ h \in Request /\ w.gSieve = c /\ w.ok
      /\ w.sieve[c] \in Sieve /\ w.sieve[c].queue = <<h>> /\ Good(w) /\ Left(w)
      /\ w.own \in {0, c}
  BY HearingIs DEF Hearing, Session
<1>2. Ruined(v, w, c)
  BY <1>1, TreatErrorIs
<1>3. Good(v)
  BY <1>1, GoodTreatError DEF After
<1> HIDE DEF v
<1>4. v.sieve[c].queue = <<h>> /\ Quiet(v.sieve[c]) /\ ~v.sieve[c].open
  BY <1>1, <1>2, GoneIs DEF Ruined
<1>5. Becomes(x, v, c, t)
  BY <1>1, <1>3, <1>4, EndNothing
<1>6. v.sieve[c] \in Sieve
  BY <1>1, <1>3 DEF Good, Window
<1> HIDE DEF x
<1>7. ~t.open
  <2> DEFINE s == v.sieve[c]
  <2>1. s \in Sieve /\ s.queue # <<>> /\ ~s.open
    BY <1>1, <1>4, <1>6, OneIs
  <2> HIDE DEF s
  <2>2. ~Passed(s).open
    BY <2>1, PassedIs
  <2>3. QED
    BY <2>2 DEF s
<1> HIDE DEF t
<1>8. Left(x)
  BY <1>1, <1>2, <1>5, <1>7, OutOfOfficeAssumption DEF Left, Becomes, Same, Ruined
<1>9. Steady(x, srv)
  BY <1>2, <1>5, <1>8, OutOfOfficeAssumption
     DEF Steady, Ruined, Becomes, Same, OneAccount, InSession
<1>10. QED
  BY <1>1, <1>2, <1>9 DEF x, v, Ruined

LEMMA SteadyLoginResponse ==
    ASSUME NEW w, NEW srv, NEW c, NEW h, Hearing(w, srv, c, h), h.cmd # "logout",
           Trusted(w.sieve[c]), NEW password
    PROVE  OnLoginResponse(w).ok /\ Steady(NextRequest(OnLoginResponse(w), c, password), srv)
<1> DEFINE s == w.sieve[c]
           u == [w EXCEPT !.connected = TRUE]
           a == [cmd |-> "setactive", arg |-> u.shown[u.account]]
           l == Req("listscripts")
           r == IF u.activate THEN a ELSE l
           v == OnLoginResponse(w)
<1>1. /\ w \in Window /\ c \in Conn /\ w.gSieve = c /\ w.ok /\ Good(w) /\ s \in Sieve
      /\ s.queue # <<>> /\ OneAccount(w) /\ s.account = w.account
      /\ Session(w, s, srv)
  BY HearingIs, OneIs DEF Hearing, Asking
<1>2. /\ u \in Window /\ u.sieve = w.sieve /\ u.gSieve = w.gSieve /\ u.own = w.own
      /\ u.connected = TRUE /\ u.ok = w.ok /\ u.managed = w.managed
      /\ u.account = w.account /\ u.current = w.current /\ u.shown = w.shown
  BY <1>1 DEF Window
<1>3. v = IF u.activate THEN ActivateScript(u, u.shown[u.account])
                        ELSE UpdateScriptListStatus(u)
  BY DEF OnLoginResponse
<1> HIDE DEF u
<1>4. v = AddRequest(u, c, r)
  BY <1>1, <1>2, <1>3 DEF ActivateScript, UpdateScriptListStatus
<1>5. u.shown[u.account] \in BOOLEAN
  BY <1>2 DEF Window
<1>6. a \in Request /\ l \in Request /\ l.cmd = "listscripts"
  BY <1>5, Requests DEF Cmd, OnScript
<1>7. r \in Request /\ r.cmd \in {"setactive", "listscripts"}
  BY <1>6
<1>8. r.cmd = "setactive" => r.arg = u.shown[u.account]
  BY <1>6
<1> HIDE DEF r
<1>9. Becomes(AddRequest(u, c, r), u, c, Queued(s, r)) /\ AddRequest(u, c, r).ok = w.ok
  <2>1. u.sieve[c] = s /\ u \in Window /\ c \in Conn /\ s.queue # <<>>
    BY <1>1, <1>2
  <2> HIDE DEF s, v
  <2>2. /\ Becomes(AddRequest(u, c, r), u, c, Queued(s, r))
        /\ AddRequest(u, c, r).ok = u.ok
    BY <1>7, <2>1, AddRequestIs
  <2>3. QED
    BY <1>2, <2>2
<1>10. Good(v)
  BY <1>1, GoodLoginResponse DEF Carries
<1> HIDE DEF v
<1>11. Onward(v, w, c)
  BY <1>1, <1>2, <1>4, <1>9, <1>10 DEF Onward, Becomes, Same, OneAccount
<1>12. Knowing(v, srv)
  BY <1>1, <1>2, <1>4, <1>9 DEF Knowing, Known, Session, Becomes, Same
<1>13. r.cmd \notin Entering /\ r.cmd # "logout"
  BY <1>7 DEF Entering
<1>14. /\ v.sieve[c] = Queued(s, r) /\ v.account = w.account
       /\ v.shown = u.shown /\ v.account = u.account
  BY <1>2, <1>4, <1>9 DEF Becomes, Same
<1>15. Steady(NextRequest(v, c, password), srv)
  BY <1>1, <1>7, <1>8, <1>11, <1>12, <1>13, <1>14, SteadyFollow
<1>16. QED
  BY <1>1, <1>4, <1>9, <1>15 DEF v

\* A request of the login follows.
LEMMA SteadyEntering ==
    ASSUME NEW w, NEW srv, NEW c, NEW h, Hearing(w, srv, c, h), h.cmd \in Entering,
           NEW r \in Request, r.cmd \in Entering, NEW password
    PROVE  /\ AddRequest(w, c, r).ok
           /\ Steady(NextRequest(AddRequest(w, c, r), c, password), srv)
<1> DEFINE s == w.sieve[c]
           v == AddRequest(w, c, r)
<1>1. /\ w \in Window /\ c \in Conn /\ w.gSieve = c /\ w.ok /\ Good(w) /\ s \in Sieve
      /\ s.queue # <<>> /\ OneAccount(w) /\ s.account = w.account
      /\ Session(w, s, srv) /\ (s.moved \/ ~w.tryToCreate)
  BY HearingIs, OneIs DEF Hearing, Asking, Entering
<1>2. Becomes(v, w, c, Queued(s, r)) /\ v.ok = w.ok
  BY <1>1, AddRequestIs
<1>3. Good(v)
  BY <1>1, GoodAddRequest DEF Carries
<1> HIDE DEF v
<1>4. Onward(v, w, c)
  BY <1>1, <1>2, <1>3 DEF Onward, Becomes, Same, OneAccount
<1>5. Knowing(v, srv)
  BY <1>1, <1>2 DEF Knowing, Known, Session, Becomes, Same
<1>6. r.cmd \notin OnScript /\ r.cmd # "logout" /\ r.cmd # "setactive"
  BY DEF Entering, OnScript
<1>7. /\ v.sieve[c] = Queued(s, r) /\ v.account = w.account
      /\ v.tryToCreate = w.tryToCreate /\ v.connected = w.connected
  BY <1>2 DEF Becomes, Same
<1>8. v.connected => Trusted(s)
  BY <1>1, <1>7 DEF Session
<1>9. Steady(NextRequest(v, c, password), srv)
  BY <1>1, <1>4, <1>5, <1>6, <1>7, <1>8, SteadyFollow
<1>10. QED
  BY <1>1, <1>2, <1>9 DEF v

LEMMA SteadyAuthenticate ==
    ASSUME NEW w, NEW srv, NEW c, NEW h, Hearing(w, srv, c, h), h.cmd \in Entering,
           w.account \in Anonymous => Trusted(w.sieve[c]), NEW password
    PROVE  LET v == OnAuthenticate(w, password) IN
           v.ok /\ Steady(NextRequest(v, c, password), srv)
<1>1. c \in Conn /\ w.gSieve = c /\ h.cmd # "logout"
  BY DEF Hearing, Entering
<1>2. Req("authenticate") \in Request /\ Req("authenticate").cmd \in Entering
  BY Requests DEF Cmd, Entering
<1>3. CASE w.account \in Anonymous
  BY <1>1, <1>3, SteadyLoginResponse DEF OnAuthenticate
<1>4. CASE w.account \notin Anonymous /\ ~password
  BY <1>1, <1>4, SteadyTreatError DEF OnAuthenticate
<1>5. CASE w.account \notin Anonymous /\ password
  BY <1>1, <1>2, <1>5, SteadyEntering DEF OnAuthenticate
<1>6. QED
  BY <1>3, <1>4, <1>5

\* Another session begins, and the answer to h has been the last of the old one.
LEMMA SteadyRenewed ==
    ASSUME NEW w, NEW srv, NEW c, NEW h, Hearing(w, srv, c, h),
           NEW u, Good(u), Free(u) # {}, u = w \/ Becomes(u, w, c, Gone(w.sieve[c])),
           u.ok = w.ok, NEW moved \in BOOLEAN,
           w.connected => moved, ~moved => ~w.tryToCreate, NEW password
    PROVE  LET v == NewSieve(u, moved) IN
           v.ok /\ Steady(NextRequest(v, c, password), srv)
<1> DEFINE v == NewSieve(u, moved)
           x == NextRequest(v, c, password)
           s == w.sieve[c]
           f == Fresh(u, moved)
           t == Passed(v.sieve[c])
<1>1. /\ w \in Window /\ c \in Conn /\ h \in Request /\ w.gSieve = c /\ w.ok
      /\ s \in Sieve /\ s.queue = <<h>> /\ Quiet(s) /\ Left(w) /\ OneAccount(w)
      /\ Session(w, s, srv) /\ s.open
  BY HearingIs DEF Hearing
<1>2. /\ u \in Window /\ Same(u, w) /\ \A d \in Conn : d # c => u.sieve[d] = w.sieve[d]
      /\ u.sieve[c].queue = <<h>> /\ Quiet(u.sieve[c])
  BY <1>1, GoneIs, SameRefl DEF Becomes
<1>3. PICK k \in Free(u) :
        /\ v \in Window /\ v.gSieve = k /\ v.own = k
        /\ Same([v EXCEPT !.gSieve = u.gSieve, !.own = u.own], u)
        /\ v.sieve[k] = f
        /\ \A d \in Conn : d # k => v.sieve[d] = u.sieve[d]
        /\ v.ok = u.ok
  BY <1>2, NewSieveIs
<1>4. Good(v)
  BY GoodNewSieve DEF After
<1>5. k \in Conn /\ k # c
  BY <1>1, <1>2 DEF Free, Same
<1> HIDE DEF v
<1>6. /\ v.account = u.account /\ v.connected = u.connected /\ v.managed = u.managed
      /\ v.current = u.current /\ v.shown = u.shown /\ v.tryToCreate = u.tryToCreate
  BY <1>2, <1>3 DEF Same, Window
<1>7. v.sieve[c].queue = <<h>> /\ Quiet(v.sieve[c])
  BY <1>1, <1>2, <1>3, <1>5
<1>8. Becomes(x, v, c, t) /\ t.queue = <<>>
  BY <1>1, <1>4, <1>7, EndNothing
<1> HIDE DEF x, t, f
<1>9. /\ x.gSieve = k /\ x.own = k /\ x.sieve[k] = f /\ x.account = u.account
      /\ x.connected = w.connected /\ x.managed = w.managed /\ x.current = w.current
      /\ x.shown = w.shown /\ x.tryToCreate = w.tryToCreate /\ x.account = w.account
  BY <1>2, <1>3, <1>5, <1>6, <1>8 DEF Becomes, Same
<1>10. \A d \in Conn : d # k /\ x.sieve[d].open => x.sieve[d].queue = <<>>
  <2> SUFFICES ASSUME NEW d \in Conn, d # k, x.sieve[d].open PROVE x.sieve[d].queue = <<>>
    OBVIOUS
  <2>1. CASE d = c
    BY <1>8, <2>1 DEF Becomes
  <2>2. CASE d # c
    BY <1>1, <1>2, <1>3, <1>8, <2>2 DEF Becomes, Left
  <2>3. QED
    BY <2>1, <2>2
<1>11. OneAccount(x) /\ Knowing(x, srv)
  BY <1>1, <1>9 DEF OneAccount, Knowing, Known, Session
<1>12. Steady(x, srv)
  BY <1>2, <1>5, <1>9, <1>10, <1>11, SteadyFresh DEF f
<1>13. QED
  BY <1>1, <1>3, <1>12 DEF x, v

LEMMA SteadyLoggedOut ==
    ASSUME NEW w, NEW srv, NEW c, NEW h, Hearing(w, srv, c, h), h.cmd = "logout",
           Free(w) # {}, NEW password
    PROVE  LoggedOut(w).ok /\ Steady(NextRequest(LoggedOut(w), c, password), srv)
<1> DEFINE u == IF w.own \in Conn /\ w.sieve[w.own].open THEN Disconnect(w, w.own) ELSE w
<1>1. /\ w \in Window /\ c \in Conn /\ w.gSieve = c /\ Good(w) /\ w.own \in {0, c}
      /\ w.enabled[w.account] /\ ~w.connected /\ ~w.tryToCreate
  BY HearingIs DEF Hearing, Session, Asking
<1>2. /\ u = w \/ Becomes(u, w, c, Gone(w.sieve[c]))
      /\ u.ok = w.ok
  BY <1>1, DisconnectIs, OutOfOfficeAssumption
<1>3. Carries(w, u)
  BY <1>1, GoodDisconnect, CarriesRefl
<1>4. LoggedOut(w) = IF ~u.enabled[u.account] THEN u ELSE NewSieve(u, FALSE)
  BY DEF LoggedOut
<1> HIDE DEF u
<1>5. LoggedOut(w) = NewSieve(u, FALSE)
  BY <1>1, <1>2, <1>4 DEF Becomes, Same
<1>6. Good(u) /\ Free(u) # {}
  BY <1>3 DEF Carries
<1>7. QED
  BY <1>1, <1>2, <1>5, <1>6, SteadyRenewed

LEMMA CreateScriptIs ==
    ASSUME NEW w, NEW srv, NEW c, NEW h, Hearing(w, srv, c, h)
    PROVE  LET v == CreateScript(w) IN
           /\ v \in Window /\ Same(v, w) /\ v.ok /\ Good(v)
           /\ \A d \in Conn : d # c => v.sieve[d] = w.sieve[d]
           /\ v.sieve[c] = w.sieve[c] \/ v.sieve[c] = Queued(w.sieve[c], Req("create"))
<1>1. /\ w \in Window /\ c \in Conn /\ w.own \in {0, c} /\ w.ok /\ Good(w)
      /\ w.sieve[c].queue # <<>>
  BY HearingIs, OneIs DEF Hearing, Session
<1>2. Good(CreateScript(w))
  BY <1>1, GoodCreateScript DEF Carries
<1>3. CASE w.own = 0
  <2>1. CreateScript(w) = w
    BY <1>3, OutOfOfficeAssumption DEF CreateScript
  <2>2. QED
    BY <1>1, <2>1, SameRefl
<1>4. CASE w.own = c
  <2> DEFINE r == Req("create")
  <2>1. r \in Request
    BY Requests DEF Cmd, OnScript
  <2>2. CreateScript(w) = AddRequest(w, c, r)
    BY <1>1, <1>4 DEF CreateScript
  <2> HIDE DEF r
  <2>a. w \in Window /\ c \in Conn /\ w.sieve[c].queue # <<>>
    BY <1>1
  <2>b. /\ Becomes(AddRequest(w, c, r), w, c, Queued(w.sieve[c], r))
        /\ AddRequest(w, c, r).ok = w.ok
    BY <2>a, <2>1, AddRequestIs
  <2>3. /\ Becomes(CreateScript(w), w, c, Queued(w.sieve[c], r))
        /\ CreateScript(w).ok = w.ok
    BY <2>2, <2>b
  <2>4. QED
    BY <1>1, <1>2, <2>3 DEF Becomes, r
<1>5. QED
  BY <1>1, <1>3, <1>4

\* Where a script may have been created, and the window v has changed too.
LEMMA SteadyCreated ==
    ASSUME NEW w, NEW srv, NEW c, NEW h, Hearing(w, srv, c, h), Trusted(w.sieve[c]),
           h.cmd # "logout", NEW v, Good(v), v.ok, v.gSieve = c, v.own = w.own,
           v.account = w.account, v.sieve = CreateScript(w).sieve,
           OneAccount(v), Knowing(v, srv), NEW password
    PROVE  Steady(NextRequest(v, c, password), srv)
<1> DEFINE u == CreateScript(w)
           r == Req("create")
<1>1. /\ \A d \in Conn : d # c => u.sieve[d] = w.sieve[d]
      /\ u.sieve[c] = w.sieve[c] \/ u.sieve[c] = Queued(w.sieve[c], r)
  BY CreateScriptIs
<1>2. w.sieve[c].account = v.account
  BY HearingIs DEF Asking
<1> HIDE DEF u
<1>3. Onward(v, w, c)
  BY <1>1 DEF Onward, u
<1>4. CASE u.sieve[c] = w.sieve[c]
  BY <1>2, <1>3, <1>4, SteadyNothing DEF u
<1>5. CASE u.sieve[c] = Queued(w.sieve[c], r)
  <2>1. r \in Request /\ r.cmd = "create"
    BY Requests DEF Cmd, OnScript
  <2> HIDE DEF r
  <2>2. r.cmd # "logout" /\ r.cmd \notin Entering /\ r.cmd # "setactive"
    BY <2>1 DEF Entering
  <2>3. v.sieve[c] = Queued(w.sieve[c], r)
    BY <1>5 DEF u
  <2>4. QED
    BY <1>2, <1>3, <2>1, <2>2, <2>3, SteadyFollow
<1>6. QED
  BY <1>1, <1>4, <1>5

\* A status is given to the account that it is about, or to another one.
LEMMA KnowingStatus ==
    ASSUME NEW w \in Window, NEW srv, Knowing(w, srv), OneAccount(w),
           NEW active \in BOOLEAN, active = srv[w.account].active,
           NEW v, Reports(v, w, active, FALSE)
    PROVE  Knowing(v, srv) /\ OneAccount(v)
<1>1. /\ w.shown \in [Account -> BOOLEAN] /\ w.account \in Account
      /\ v.shown = [w.shown EXCEPT ![Charged(w)] = active]
      /\ v.managed = w.managed /\ v.account = w.account /\ v.current = None
  BY DEF Window, Reports
<1>2. OneAccount(v)
  BY <1>1 DEF OneAccount
<1>3. ASSUME v.managed # None PROVE v.shown[v.account] = srv[v.account].active
  <2>1. CASE Charged(w) = w.account
    BY <1>1, <2>1
  <2>2. CASE Charged(w) # w.account
    <3>1. w.current = None
      BY <1>1, <1>3, <2>2 DEF OneAccount, Charged
    <3>2. w.shown[w.account] = srv[w.account].active
      BY <1>1, <1>3, <3>1 DEF Knowing, Known
    <3>3. v.shown[w.account] = w.shown[w.account]
      BY <1>1, <2>2
    <3>4. QED
      BY <1>1, <3>2, <3>3
  <2>3. QED
    BY <2>1, <2>2
<1>4. QED
  BY <1>2, <1>3 DEF Knowing, Known

LEMMA SteadyListScriptResponse ==
    ASSUME NEW w, NEW srv, ServersGood(srv), NEW c, NEW h, Hearing(w, srv, c, h),
           h.cmd = "listscripts", NEW answer \in Answer,
           answer.active = srv[w.account].active,
           answer.found = (srv[w.account].script # None), NEW password
    PROVE  LET v == OnListScriptResponse(w, answer) IN
           v.ok /\ Steady(NextRequest(v, c, password), srv)
<1> DEFINE u == IF answer.found THEN w ELSE CreateScript(w)
           active == IF answer.found THEN answer.active ELSE FALSE
           v == PostStatus(u, active, FALSE)
<1>1. /\ w \in Window /\ c \in Conn /\ w.gSieve = c /\ w.ok /\ Good(w)
      /\ OneAccount(w) /\ Session(w, w.sieve[c], srv) /\ Trusted(w.sieve[c])
      /\ w.account \in Account /\ h.cmd # "logout"
  BY HearingIs DEF Hearing, Asking, OnScript
<1>2. u \in Window /\ Same(u, w) /\ u.ok /\ Good(u)
  BY <1>1, CreateScriptIs, SameRefl
<1>3. active \in BOOLEAN /\ active = srv[w.account].active
  <2>1. answer.active \in BOOLEAN
    BY DEF Answer
  <2>2. CASE answer.found
    BY <2>1, <2>2
  <2>3. CASE ~answer.found
    <3>1. srv[w.account].script = None
      BY <2>3
    <3>2. ~srv[w.account].active /\ srv[w.account].active \in BOOLEAN
      BY <1>1, <3>1 DEF ServersGood, Servers
    <3>3. QED
      BY <2>3, <3>2
  <2>4. QED
    BY <2>2, <2>3
<1>4. OnListScriptResponse(w, answer) = v
  BY <1>2 DEF OnListScriptResponse
<1> HIDE DEF active
<1>5. Reports(v, u, active, FALSE)
  BY <1>2, <1>3, PostStatusIs
<1>6. Good(v)
  BY <1>2, <1>3, GoodPostStatus DEF Carries
<1> HIDE DEF v
<1>7. Knowing(u, srv) /\ OneAccount(u) /\ u.account = w.account
  BY <1>1, <1>2 DEF Same, Knowing, Known, OneAccount, Session
<1>8. Knowing(v, srv) /\ OneAccount(v)
  BY <1>2, <1>3, <1>5, <1>7, KnowingStatus
<1>9. /\ v.ok /\ v.gSieve = c /\ v.own = w.own /\ v.account = w.account
      /\ v.sieve = u.sieve
  BY <1>1, <1>2, <1>5 DEF Reports, Same
<1>10. Steady(NextRequest(v, c, password), srv)
  <2>1. CASE answer.found
    <3>1. Onward(v, w, c)
      BY <1>6, <1>8, <1>9, <2>1 DEF Onward
    <3>2. w.sieve[c].account = v.account
      BY <1>1, <1>9, HearingIs DEF Asking
    <3>3. v.sieve[c] = w.sieve[c]
      BY <1>9, <2>1
    <3>4. QED
      BY <1>1, <1>8, <3>1, <3>2, <3>3, SteadyNothing
  <2>2. CASE ~answer.found
    <3>1. v.sieve = CreateScript(w).sieve
      BY <1>9, <2>2
    <3>2. QED
      BY <1>1, <1>6, <1>8, <1>9, <3>1, SteadyCreated
  <2>3. QED
    BY <2>1, <2>2
<1>11. QED
  BY <1>4, <1>9, <1>10

LEMMA SteadyOnError ==
    ASSUME NEW w, NEW srv, NEW c, NEW h, Hearing(w, srv, c, h), NEW answer \in Answer,
           Free(w) # {}, NEW password
    PROVE  LET v == OnError(w, answer) IN
           v.ok /\ Steady(NextRequest(v, c, password), srv)
<1>1. /\ w \in Window /\ c \in Conn /\ w.gSieve = c /\ w.ok /\ Good(w)
      /\ OneAccount(w) /\ Session(w, w.sieve[c], srv) /\ Asking(w, w.sieve[c], srv, h)
      /\ h.cmd \in Cmd
  BY HearingIs DEF Hearing, Request
<1>2. CASE answer.res = "REFERRAL"
  <2> DEFINE u == Disconnect(w, c)
  <2>1. Becomes(u, w, c, Gone(w.sieve[c])) /\ u.ok = w.ok
    BY <1>1, DisconnectIs
  <2>2. Carries(w, u)
    BY <1>1, GoodDisconnect
  <2>3. OnError(w, answer) = NewSieve(u, TRUE)
    BY <1>1, <1>2 DEF OnError
  <2> HIDE DEF u
  <2>4. Good(u) /\ Free(u) # {}
    BY <2>2 DEF Carries
  <2>5. QED
    BY <2>1, <2>3, <2>4, SteadyRenewed
<1>3. CASE answer.res # "REFERRAL" /\ w.tryToCreate
  <2> DEFINE u == CreateScript(w)
             b == ~u.ok
             v == [u EXCEPT !.tryToCreate = b]
  <2>1. u \in Window /\ Same(u, w) /\ u.ok /\ Good(u)
    BY CreateScriptIs
  <2>2. b \in BOOLEAN
    OBVIOUS
  <2>3. OnError(w, answer) = v
    BY <1>1, <1>3 DEF OnError
  <2> HIDE DEF u, b
  <2>4. /\ v \in Window /\ v.sieve = u.sieve /\ v.gSieve = u.gSieve /\ v.own = u.own
        /\ v.account = u.account /\ v.managed = u.managed /\ v.current = u.current
        /\ v.shown = u.shown /\ v.ok = u.ok
        /\ v.canEdit = u.canEdit /\ v.dialog = u.dialog /\ v.row = u.row
    BY <2>1, <2>2 DEF Window
  <2> HIDE DEF v
  <2>5. Good(v)
    BY <2>1, <2>4 DEF Good, Selected
  <2>6. Knowing(v, srv) /\ OneAccount(v)
    BY <1>1, <2>1, <2>4 DEF Knowing, Known, OneAccount, Session, Same
  <2>7. Trusted(w.sieve[c]) /\ h.cmd # "logout"
    BY <1>1, <1>3 DEF Asking, Cmd, Entering, Trusted
  <2>8. /\ v.ok /\ v.gSieve = c /\ v.own = w.own /\ v.account = w.account
        /\ v.sieve = CreateScript(w).sieve
    BY <1>1, <2>1, <2>4 DEF Same, u
  <2>9. Steady(NextRequest(v, c, password), srv)
    BY <2>5, <2>6, <2>7, <2>8, SteadyCreated
  <2>10. QED
    BY <2>3, <2>8, <2>9
<1>4. CASE answer.res # "REFERRAL" /\ ~w.tryToCreate
  BY <1>1, <1>4, SteadyTreatError DEF OnError
<1>5. QED
  BY <1>2, <1>3, <1>4

LEMMA SteadyListener ==
    ASSUME NEW w, NEW srv, ServersGood(srv), NEW c, NEW h, Hearing(w, srv, c, h),
           NEW answer \in Answer, Free(w) # {}, NEW password,
           (answer.res = "OK" /\ (h.cmd = "authenticate" \/ w.account \in Anonymous)
              /\ h.cmd # "logout") => Trusted(w.sieve[c]),
           (answer.res = "OK" /\ h.cmd = "listscripts") =>
              /\ answer.active = srv[w.account].active
              /\ answer.found = (srv[w.account].script # None)
    PROVE  LET v == Listener(w, h.cmd, answer, password) IN
           \/ v.ok /\ Steady(NextRequest(v, c, password), srv)
           \/ v = Throw(w) /\ h.cmd = "create" /\ answer.res # "OK"
<1> DEFINE v == Listener(w, h.cmd, answer, password)
           Fine == v.ok /\ Steady(NextRequest(v, c, password), srv)
           s == w.sieve[c]
<1>1. /\ w \in Window /\ c \in Conn /\ w.gSieve = c /\ w.ok /\ Good(w) /\ s \in Sieve
      /\ s.open /\ OneAccount(w) /\ Session(w, s, srv) /\ Asking(w, s, srv, h)
      /\ h.cmd \in Cmd /\ s.queue # <<>>
  BY HearingIs, OneIs DEF Hearing, Request
<1>2. CASE answer.res # "OK" /\ h.cmd = "create"
  BY <1>2 DEF Listener
<1>3. CASE answer.res # "OK" /\ h.cmd # "create"
  BY <1>3, SteadyOnError DEF Listener
<1>4. CASE answer.res = "OK"
  <2>1. ASSUME h.cmd \in {"init", "starttls"}, NEW r \in Request, r.cmd \in Entering,
               v = AddRequest(w, c, r)
        PROVE  Fine
    <3>1. h.cmd \in Entering
      BY <2>1 DEF Entering
    <3>2. QED
      BY <2>1, <3>1, SteadyEntering
  <2>2. ASSUME h.cmd \in {"init", "capability"}, v = OnAuthenticate(w, password)
        PROVE  Fine
    <3>1. h.cmd \in Entering /\ (w.account \in Anonymous => Trusted(s))
      BY <1>4, <2>2 DEF Entering
    <3>2. QED
      BY <2>2, <3>1, SteadyAuthenticate
  <2>3. CASE h.cmd = "init"
    <3>1. Req("starttls") \in Request /\ Req("starttls").cmd \in Entering
      BY Requests DEF Cmd, Entering
    <3>2. v = OnInitResponse(w, password)
      BY <1>4, <2>3 DEF Listener
    <3>3. v = AddRequest(w, c, Req("starttls")) \/ v = OnAuthenticate(w, password)
      BY <1>1, <3>2 DEF OnInitResponse
    <3>4. QED
      BY <2>1, <2>2, <2>3, <3>1, <3>3
  <2>4. CASE h.cmd = "starttls"
    <3>1. Req("capability") \in Request /\ Req("capability").cmd \in Entering
      BY Requests DEF Cmd, Entering
    <3>2. v = OnStartTLSResponse(w)
      BY <1>4, <2>4 DEF Listener
    <3>3. v = AddRequest(w, c, Req("capability"))
      BY <1>1, <3>2 DEF OnStartTLSResponse
    <3>4. QED
      BY <2>1, <2>4, <3>1, <3>3
  <2>5. CASE h.cmd = "capability"
    <3>1. v = OnAuthenticate(w, password)
      BY <1>4, <2>5 DEF Listener
    <3>2. QED
      BY <2>2, <2>5, <3>1
  <2>6. CASE h.cmd = "authenticate"
    <3>1. v = OnLoginResponse(w)
      BY <1>4, <2>6 DEF Listener
    <3>2. Trusted(s) /\ h.cmd # "logout"
      BY <1>4, <2>6
    <3>3. QED
      BY <3>1, <3>2, SteadyLoginResponse
  <2>7. CASE h.cmd = "listscripts"
    <3>1. v = OnListScriptResponse(w, answer)
      BY <1>4, <2>7 DEF Listener
    <3>2. QED
      BY <1>4, <2>7, <3>1, SteadyListScriptResponse
  <2>8. ASSUME h.cmd \in {"setactive", "getscript", "create", "putscript"}
        PROVE  Trusted(s) /\ s.account = w.account
    BY <1>1, <2>8 DEF Asking, OnScript
  <2>9. ASSUME h.cmd \in {"setactive", "getscript", "create", "putscript"},
               NEW x, Good(x), x.ok, x.sieve = w.sieve, x.gSieve = c, x.own = w.own,
               x.account = w.account, x.managed = w.managed, x.current = w.current,
               x.shown = w.shown, v = x
        PROVE  Fine
    <3>1. Onward(x, w, c)
      BY <1>1, <2>9 DEF Onward, OneAccount
    <3>2. Knowing(x, srv)
      BY <1>1, <2>9 DEF Knowing, Known, Session
    <3>3. x.sieve[c] = s /\ s.account = x.account /\ Trusted(s)
      BY <2>8, <2>9
    <3>4. Steady(NextRequest(x, c, password), srv)
      BY <3>1, <3>2, <3>3, SteadyNothing
    <3>5. QED
      BY <2>9, <3>4
  <2>10. CASE h.cmd = "setactive"
    <3> DEFINE r == Req("listscripts")
    <3>1. v = UpdateScriptListStatus(w)
      BY <1>1, <1>4, <2>10 DEF Listener, OnSetActiveResponse
    <3>2. CASE ~w.connected
      <4>1. v = w
        BY <3>1, <3>2 DEF UpdateScriptListStatus
      <4>2. QED
        BY <1>1, <2>9, <2>10, <4>1
    <3>3. CASE w.connected
      <4>1. v = AddRequest(w, c, r)
        BY <1>1, <3>1, <3>3 DEF UpdateScriptListStatus
      <4>2. r \in Request /\ r.cmd = "listscripts"
        BY Requests DEF Cmd, OnScript
      <4> HIDE DEF r
      <4>3. /\ Becomes(AddRequest(w, c, r), w, c, Queued(s, r))
            /\ AddRequest(w, c, r).ok = w.ok /\ Good(AddRequest(w, c, r))
        BY <1>1, <4>2, AddRequestIs, GoodAddRequest DEF Carries
      <4> HIDE DEF v
      <4>4. Onward(v, w, c) /\ Knowing(v, srv)
        BY <1>1, <4>1, <4>3
           DEF Onward, OneAccount, Knowing, Known, Session, Becomes, Same
      <4>5. r.cmd # "logout" /\ r.cmd \notin Entering /\ r.cmd # "setactive"
        BY <4>2 DEF Entering
      <4>6. v.sieve[c] = Queued(s, r) /\ v.account = w.account
        BY <4>1, <4>3 DEF Becomes, Same
      <4>7. Steady(NextRequest(v, c, password), srv)
        BY <2>8, <2>10, <4>2, <4>4, <4>5, <4>6, SteadyFollow
      <4>8. v.ok
        BY <1>1, <4>1, <4>3
      <4>9. Fine
        BY <4>7, <4>8
      <4>10. QED
        BY <4>9 DEF v
    <3>4. QED
      BY <3>2, <3>3
  <2>11. CASE h.cmd \in {"getscript", "create"}
    <3> DEFINE x == [w EXCEPT !.tryToCreate = FALSE]
    <3>1. v = x
      BY <1>4, <2>11 DEF Listener
    <3>2. /\ x \in Window /\ x.sieve = w.sieve /\ x.gSieve = w.gSieve /\ x.own = w.own
          /\ x.canEdit = w.canEdit /\ x.dialog = w.dialog /\ x.current = w.current
          /\ x.row = w.row /\ x.ok = w.ok /\ x.account = w.account
          /\ x.managed = w.managed /\ x.shown = w.shown
      BY <1>1 DEF Window
    <3> HIDE DEF x, v
    <3>3. Good(x) /\ x.ok /\ x.gSieve = c
      BY <1>1, <3>2 DEF Good, Selected
    <3>4. x.own = w.own /\ x.account = w.account /\ v = x
      BY <3>1, <3>2
    <3>5. Fine
      BY <2>9, <2>11, <3>2, <3>3, <3>4
    <3>6. QED
      BY <3>5 DEF v
  <2>12. CASE h.cmd = "putscript"
    <3>1. v = w
      BY <1>4, <2>12 DEF Listener
    <3>2. QED
      BY <1>1, <2>9, <2>12, <3>1
  <2>13. CASE h.cmd = "logout"
    <3>1. v = LoggedOut(w)
      BY <1>4, <2>13 DEF Listener
    <3>2. QED
      BY <2>13, <3>1, SteadyLoggedOut
  <2>14. QED
    BY <1>1, <2>3, <2>4, <2>5, <2>6, <2>7, <2>10, <2>11, <2>12, <2>13 DEF Cmd, OnScript
<1>5. QED
  BY <1>2, <1>3, <1>4

\* Steady speaks of these parts of the window only.
LEMMA SteadySame ==
    ASSUME NEW w, NEW v, NEW srv, Steady(w, srv),
           v.sieve = w.sieve, v.gSieve = w.gSieve, v.own = w.own,
           v.account = w.account, v.connected = w.connected,
           v.tryToCreate = w.tryToCreate, v.current = w.current,
           v.managed = w.managed, v.shown = w.shown, v.enabled = w.enabled
    PROVE  Steady(v, srv)
<1>1. Left(v) /\ OneAccount(v)
  BY DEF Steady, Left, OneAccount
<1>2. ASSUME InSession(v) PROVE Session(v, v.sieve[v.gSieve], srv)
  <2>1. Session(w, w.sieve[w.gSieve], srv)
    BY <1>2 DEF Steady, InSession
  <2>2. \A r : Asking(w, w.sieve[w.gSieve], srv, r) => Asking(v, w.sieve[w.gSieve], srv, r)
    BY DEF Asking
  <2>3. QED
    BY <2>1, <2>2 DEF Session, Known
<1>3. QED
  BY <1>1, <1>2 DEF Steady

\* Neither do objects that nothing refers to matter.
LEMMA SteadyEnded ==
    ASSUME NEW w, Good(w), NEW srv, Steady(w, srv), NEW v, Ended(v, w)
    PROVE  Steady(v, srv)
<1>1. /\ Same(v, w)
      /\ \A c \in Conn : v.sieve[c] = IF c \in Free(w) THEN Unused(First) ELSE w.sieve[c]
  BY DEF Ended
<1>2. \A c \in Conn : v.sieve[c].open => v.sieve[c] = w.sieve[c]
  BY <1>1, UnusedIs
<1>3. Left(v) /\ OneAccount(v)
  BY <1>1, <1>2 DEF Steady, Left, OneAccount, Same
<1>4. ASSUME InSession(v) PROVE Session(v, v.sieve[v.gSieve], srv)
  <2>1. Session(w, w.sieve[w.gSieve], srv) /\ v.sieve[v.gSieve] = w.sieve[w.gSieve]
    BY <1>1, <1>2, <1>4 DEF Steady, InSession, Same
  <2>2. \A r : Asking(w, w.sieve[w.gSieve], srv, r) => Asking(v, w.sieve[w.gSieve], srv, r)
    BY <1>1 DEF Asking, Same
  <2>3. QED
    BY <1>1, <2>1, <2>2 DEF Session, Known, Same
<1>5. QED
  BY <1>3, <1>4 DEF Steady

\* The connection that something is under way on is the session's.
LEMMA UnderWay ==
    ASSUME NEW w, Good(w), NEW srv, Steady(w, srv), NEW c \in Conn,
           w.sieve[c].asked # NoRequest \/ w.sieve[c].reply # NoAnswer
    PROVE  /\ w.gSieve = c /\ w.sieve[c].open /\ w.sieve[c].queue # <<>>
           /\ Session(w, w.sieve[c], srv)
           /\ Asking(w, w.sieve[c], srv, Head(w.sieve[c].queue))
           /\ Head(w.sieve[c].queue) \in Request
           /\ w.sieve[c].queue = <<Head(w.sieve[c].queue)>>
<1> DEFINE s == w.sieve[c]
<1>1. s.open /\ s.queue # <<>> /\ s \in Sieve
  BY DEF Good, Window, LetIn, Quiet, Turn
<1>2. w.gSieve = c
  BY <1>1 DEF Steady, Left
<1>3. Session(w, s, srv)
  BY <1>1, <1>2 DEF Steady, InSession
<1>4. Asking(w, s, srv, Head(s.queue)) /\ Len(s.queue) \leq 1
  BY <1>1, <1>3 DEF Session
<1>5. s.queue \in Seq(Request)
  BY <1>1 DEF Sieve
<1> HIDE DEF s
<1>6. Head(s.queue) \in Request /\ s.queue = <<Head(s.queue)>>
  BY <1>1, <1>4, <1>5
<1>7. QED
  BY <1>1, <1>2, <1>3, <1>4, <1>6 DEF s

LEMMA SteadyTaken ==
    ASSUME Good(client), client.ok, NEW srv, Steady(client, srv), NEW c \in Conn,
           client.sieve[c].reply # NoAnswer
    PROVE  Hearing(Taken(client, c), srv, c, Head(client.sieve[c].queue))
<1> DEFINE s == client.sieve[c]
           h == Head(s.queue)
           w == Taken(client, c)
           t == Heard(s)
<1>1. /\ client.gSieve = c /\ s.open /\ s.queue = <<h>> /\ h \in Request
      /\ Session(client, s, srv) /\ Asking(client, s, srv, h)
  BY UnderWay
<1>2. s \in Sieve /\ s.asked = NoRequest /\ Left(client) /\ OneAccount(client)
  BY DEF Good, Window, Turn, Steady
<1>3. /\ t.queue = s.queue /\ t.reply = NoAnswer /\ t.asked = s.asked
      /\ t.account = s.account /\ t.open = s.open /\ t.data = s.data
      /\ t.login = s.login /\ t.moved = s.moved
  BY <1>2, HeardIs
<1>4. Good(w) /\ Becomes(w, client, c, t) /\ w.ok
  BY <1>1, TakenIs
<1> HIDE DEF w, t, s, h
<1>5. Same(w, client) /\ w.sieve[c] = t /\ \A d \in Conn : d # c => w.sieve[d] = client.sieve[d]
  BY <1>4 DEF Becomes
<1>6. Asking(w, t, srv, h)
  BY <1>1, <1>3, <1>5 DEF Asking, Same, Trusted
<1>7. Session(w, t, srv)
  <2>1. t.queue = <<h>> /\ Head(<<h>>) = h /\ s.queue # <<>>
    BY <1>1, <1>3, OneIs
  <2>2. Asking(w, t, srv, Head(t.queue))
    BY <1>6, <2>1
  <2>3. QED
    BY <1>1, <1>3, <1>5, <2>1, <2>2 DEF Session, Same, Known, Trusted
<1>8. Left(w) /\ OneAccount(w)
  BY <1>1, <1>2, <1>5 DEF Left, OneAccount, Same, s
<1>9. Steady(w, srv)
  BY <1>1, <1>5, <1>7, <1>8 DEF Steady, Same
<1>10. QED
  BY <1>1, <1>2, <1>3, <1>4, <1>5, <1>9 DEF Hearing, Quiet, Same, w, h, s

LEMMA SteadyDataAvailable ==
    ASSUME Good(client), client.ok, ServersGood(server), Steady(client, server),
           NEW c \in Conn, NEW password \in BOOLEAN, DataAvailable(c, password)
    PROVE  Steady(HandlerEnd(c, password), server)
<1> DEFINE s == client.sieve[c]
           h == Head(s.queue)
           w == Taken(client, c)
           t == Heard(s)
           answer == IF s.data # NoAnswer THEN s.data ELSE s.reply
           v == Listener(w, h.cmd, answer, password)
           x == [v EXCEPT !.sieve[c].data = answer]
<1>1. s.open /\ s.reply # NoAnswer /\ s \in Sieve /\ LetIn(s) /\ Turn(s) /\ Free(client) # {}
  BY HandlerIs DEF DataAvailable, Good, Window
<1>2. Session(client, s, server) /\ Asking(client, s, server, h)
  BY <1>1, UnderWay
<1>3. Hearing(w, server, c, h)
  BY <1>1, SteadyTaken
<1>4. Becomes(w, client, c, t) /\ Free(w) # {}
  BY <1>1, TakenIs
<1>5. t.login = s.login /\ t.moved = s.moved /\ t.queue = s.queue
  BY <1>1, HeardIs
<1>6. HandlerEnd(c, password) = IF v.ok THEN NextRequest(v, c, password) ELSE x
  BY DEF HandlerEnd
<1>7. answer \in Answer /\ s.reply.of = h.cmd
  BY <1>1 DEF Sieve, Turn
<1>8. answer.res = "OK" => answer = s.reply
  BY <1>2 DEF Session
<1>9. (answer.res = "OK" /\ (h.cmd = "authenticate" \/ w.account \in Anonymous)
          /\ h.cmd # "logout") => Trusted(w.sieve[c])
  BY <1>1, <1>2, <1>4, <1>5, <1>7, <1>8 DEF LetIn, Trusted, Becomes, Same, Asking
<1>10. (answer.res = "OK" /\ h.cmd = "listscripts") =>
          /\ answer.active = server[w.account].active
          /\ answer.found = (server[w.account].script # None)
  BY <1>1, <1>2, <1>4, <1>8 DEF Becomes, Same, Asking
<1> HIDE DEF answer, h, w, t, x
<1>11. \/ v.ok /\ Steady(NextRequest(v, c, password), server)
       \/ v = Throw(w) /\ h.cmd = "create" /\ answer.res # "OK"
  BY <1>3, <1>4, <1>7, <1>9, <1>10, SteadyListener
<1>12. ASSUME v = Throw(w), h.cmd = "create", answer.res # "OK"
       PROVE  ~v.ok /\ Steady(x, server)
  <2>1. Good(w) /\ Session(w, t, server) /\ Left(w) /\ OneAccount(w) /\ w.sieve[c] = t
    BY <1>3, <1>4, HearingIs DEF Hearing, Becomes
  <2>2. Good(v) /\ Same(v, w) /\ v.sieve = w.sieve /\ ~v.ok
    BY <1>12, <2>1, GoodThrow, ThrowIs DEF Carries, Good
  <2> DEFINE u == Minding(t, answer)
  <2>3. Becomes(x, v, c, u)
    BY <1>7, <2>1, <2>2, MindedIs DEF x
  <2>4. t \in Sieve
    BY <2>1, <1>4 DEF Good, Window
  <2>5. /\ u.data = answer /\ u.reply = t.reply /\ u.account = t.account
        /\ u.queue = t.queue /\ u.open = t.open /\ u.login = t.login /\ u.moved = t.moved
    BY <1>7, <2>4, MindingIs
  <2> HIDE DEF u, v
  <2>6. Same(x, w) /\ x.sieve[c] = u /\ \A d \in Conn : d # c => x.sieve[d] = w.sieve[d]
    BY <2>2, <2>3 DEF Becomes, Same
  <2>7. Asking(w, t, server, h) => Asking(x, u, server, h)
    BY <2>5, <2>6 DEF Asking, Same, Trusted
  <2>8. t.queue # <<>> /\ Head(t.queue) = h
    BY <1>1, <1>5, UnderWay DEF h
  <2>9. Session(x, u, server)
    BY <1>12, <2>1, <2>5, <2>6, <2>7, <2>8 DEF Session, Same, Known, Trusted
  <2>10. w.gSieve = c
    BY <1>3 DEF Hearing
  <2>11. Left(x) /\ OneAccount(x)
    BY <2>1, <2>5, <2>6, <2>10 DEF Left, OneAccount, Same
  <2>12. QED
    BY <2>2, <2>6, <2>9, <2>10, <2>11 DEF Steady, Same
<1>13. QED
  BY <1>6, <1>11, <1>12

\* The server answers, and what it has done is what srv says.
LEMMA SteadyTold ==
    ASSUME Good(client), ServersGood(server), Steady(client, server), NEW c \in Conn,
           NEW res \in {"OK", "NO", "REFERRAL"}, client.sieve[c].asked # NoRequest,
           NEW srv,
           LET a == client.account
               r == client.sieve[c].asked IN
           /\ r.cmd = "setactive" => srv[a].active \in {server[a].active, r.arg}
           /\ r.cmd # "setactive" => srv[a].active = server[a].active
           /\ r.cmd = "listscripts" => srv = server
    PROVE  Steady(Told(c, res), srv)
<1> DEFINE s == client.sieve[c]
           h == Head(s.queue)
           v == Told(c, res)
<1>1. PICK t : Becomes(v, client, c, t) /\ Replies(t, s, res, server)
  BY ToldIs
<1>2. /\ client.gSieve = c /\ s.queue # <<>> /\ Session(client, s, server)
      /\ Asking(client, s, server, h)
  BY UnderWay
<1>3. h = s.asked
  BY DEF Good, Turn
<1> HIDE DEF v, h
<1>4. Same(v, client) /\ v.sieve[c] = t /\ \A d \in Conn : d # c => v.sieve[d] = client.sieve[d]
  BY <1>1 DEF Becomes
<1>5. Trusted(s) => Trusted(t)
  BY <1>1 DEF Replies, Admitted, Trusted
<1>6. Asking(v, t, srv, h)
  <2>1. h.cmd = "listscripts" /\ h.cmd # "logout" => srv = server /\ s.account = client.account
    BY <1>2, <1>3 DEF Asking
  <2>2. h.cmd = "listscripts" =>
          /\ t.reply.active = srv[client.account].active
          /\ t.reply.found = (srv[client.account].script # None)
    BY <1>1, <2>1 DEF Replies, Script
  <2>3. QED
    BY <1>1, <1>2, <1>4, <1>5, <2>2 DEF Asking, Same, Replies
<1>7. Known(client, server) => Known(v, srv)
  <2>1. h.cmd = "setactive" => h.arg = client.shown[client.account]
    BY <1>2 DEF Asking
  <2>2. QED
    BY <1>3, <1>4, <2>1 DEF Known, Same
<1>8. Session(v, t, srv)
  BY <1>1, <1>2, <1>4, <1>5, <1>6, <1>7 DEF Session, Same, Replies, h
<1>9. Left(v) /\ OneAccount(v)
  BY <1>1, <1>2, <1>4 DEF Steady, Left, OneAccount, Same, Replies
<1>10. QED
  BY <1>2, <1>4, <1>8, <1>9 DEF Steady, Same, v

LEMMA SteadyTear ==
    ASSUME Good(client), Steady(client, server), NEW c \in Conn, Tear(c)
    PROVE  Steady(client', server)
<1> DEFINE s == client.sieve[c]
           t == [s EXCEPT !.torn = TRUE]
           v == [client EXCEPT !.sieve[c].torn = TRUE]
<1>1. client' = v
  BY DEF Tear
<1>2. client.sieve \in [Conn -> Sieve] /\ client \in Window /\ s \in Sieve
  BY DEF Good, Window
<1>3. /\ t \in Sieve /\ t.account = s.account /\ t.open = s.open /\ t.queue = s.queue
      /\ t.data = s.data /\ t.reply = s.reply /\ t.login = s.login /\ t.moved = s.moved
  BY <1>2 DEF Sieve
<1>4. v = [client EXCEPT !.sieve = [client.sieve EXCEPT ![c] = t]]
  BY <1>2 DEF Window, Sieve
<1> HIDE DEF s, t, v
<1>5. Becomes(v, client, c, t)
  BY <1>2, <1>3, <1>4, Becoming DEF s
<1>6. Same(v, client) /\ v.sieve[c] = t /\ \A d \in Conn : d # c => v.sieve[d] = client.sieve[d]
  BY <1>5 DEF Becomes
<1>7. Left(v) /\ OneAccount(v)
  BY <1>3, <1>6 DEF Steady, Left, OneAccount, Same, s
<1>8. ASSUME InSession(v) PROVE Session(v, v.sieve[v.gSieve], server)
  <2> DEFINE g == client.gSieve
             x == client.sieve[g]
             y == v.sieve[g]
  <2>1. g \in Conn /\ client.sieve[g].open /\ Session(client, client.sieve[g], server)
    BY <1>3, <1>6, <1>8 DEF InSession, Same, Steady, s
  <2>2. /\ y.account = x.account /\ y.queue = x.queue /\ y.data = x.data
        /\ y.reply = x.reply /\ y.login = x.login /\ y.moved = x.moved
    <3>1. CASE g = c
      BY <1>3, <1>6, <3>1 DEF s
    <3>2. CASE g # c
      BY <1>6, <2>1, <3>2
    <3>3. QED
      BY <3>1, <3>2
  <2> HIDE DEF x, y
  <2>3. \A r : Asking(client, x, server, r) => Asking(v, y, server, r)
    BY <1>6, <2>2 DEF Asking, Same, Trusted
  <2>4. Session(v, y, server)
    BY <1>6, <2>1, <2>2, <2>3 DEF Session, Same, Known, Trusted, x
  <2>5. QED
    BY <1>6, <2>4 DEF Same, y
<1>9. QED
  BY <1>1, <1>7, <1>8 DEF Steady

\* The session's connection is closed, and nothing else has changed for it.
LEMMA SteadyClosed ==
    ASSUME NEW w, NEW srv, Steady(w, srv), NEW c \in Conn, w.gSieve = c, w.sieve[c].open,
           NEW v, v.gSieve = c, v.own = w.own, v.account = w.account,
           v.managed = w.managed, v.current = w.current, ~v.sieve[c].open,
           \A d \in Conn : d # c => v.sieve[d] = w.sieve[d]
    PROVE  Steady(v, srv)
<1>1. w.own \in {0, c}
  BY DEF Steady, InSession, Session
<1>2. Left(v) /\ OneAccount(v)
  BY <1>1, OutOfOfficeAssumption DEF Steady, Left, OneAccount
<1>3. ~InSession(v)
  BY DEF InSession
<1>4. QED
  BY <1>2, <1>3 DEF Steady

\* A connection that the session has left is closed.
LEMMA SteadyShut ==
    ASSUME NEW w \in Window, NEW srv, Steady(w, srv), NEW c \in Conn, w.gSieve # c
    PROVE  Steady(Disconnect(w, c), srv)
<1> DEFINE v == Disconnect(w, c)
           t == Gone(w.sieve[c])
<1>1. Becomes(v, w, c, t) /\ ~t.open
  BY DisconnectIs, GoneIs DEF Window
<1> HIDE DEF v, t
<1>2. Same(v, w) /\ v.sieve[c] = t /\ \A d \in Conn : d # c => v.sieve[d] = w.sieve[d]
  BY <1>1 DEF Becomes
<1>3. Left(v) /\ OneAccount(v)
  BY <1>1, <1>2 DEF Steady, Left, OneAccount, Same
<1>4. ASSUME InSession(v) PROVE Session(v, v.sieve[v.gSieve], srv)
  <2>1. v.sieve[v.gSieve] = w.sieve[w.gSieve] /\ InSession(w)
    BY <1>2, <1>4 DEF InSession, Same
  <2>2. \A r : Asking(w, w.sieve[w.gSieve], srv, r) => Asking(v, w.sieve[w.gSieve], srv, r)
    BY <1>2 DEF Asking, Same
  <2>3. QED
    BY <1>2, <2>1, <2>2 DEF Steady, Session, Same, Known
<1>5. QED
  BY <1>3, <1>4 DEF Steady, v

\* Same, but for the attempts to create a script and an exception.
LEMMA CreateScriptOwn ==
    ASSUME NEW w \in Window, NEW c \in Conn, w.own \in {0, c}
    PROVE  LET v == CreateScript(w) IN
           /\ v \in Window /\ Same(v, w)
           /\ \A d \in Conn : d # c => v.sieve[d] = w.sieve[d]
<1>1. CASE w.own = 0
  <2>1. CreateScript(w) = w
    BY <1>1, OutOfOfficeAssumption DEF CreateScript
  <2>2. QED
    BY <2>1, SameRefl
<1>2. CASE w.own = c
  <2>1. CreateScript(w) = AddRequest(w, c, Req("create"))
    BY <1>2 DEF CreateScript
  <2>2. Req("create") \in Request
    BY Requests DEF Cmd, OnScript
  <2>3. Becomes(AddRequest(w, c, Req("create")), w, c, Queued(w.sieve[c], Req("create")))
    BY <2>2, AddRequestIs
  <2>4. QED
    BY <2>1, <2>3 DEF Becomes
<1>3. QED
  BY <1>1, <1>2

\* The window v has kept all but the connection of the session.
Near(v, w, c) ==
    /\ v \in Window /\ v.gSieve = c /\ v.own = w.own /\ v.account = w.account
    /\ v.managed = w.managed /\ v.current = w.current
    /\ \A d \in Conn : d # c => v.sieve[d] = w.sieve[d]

\* The session's first request hears of an error of its connection.
LEMMA ListenerBroken ==
    ASSUME NEW w, Good(w), NEW srv, Steady(w, srv), NEW c \in Conn, w.gSieve = c,
           w.sieve[c].open, w.sieve[c].queue # <<>>, NEW answer \in Answer,
           answer = IF w.sieve[c].data # NoAnswer THEN w.sieve[c].data ELSE ErrorAnswer,
           NEW password
    PROVE  LET v == Listener(w, Head(w.sieve[c].queue).cmd, answer, password) IN
           v \in Window /\ (Near(v, w, c) \/ Ruined(v, w, c))
<1> DEFINE s == w.sieve[c]
           h == Head(s.queue)
           v == Listener(w, h.cmd, answer, password)
<1>1. /\ w \in Window /\ Session(w, s, srv) /\ Left(w) /\ w.own \in {0, c}
      /\ w.gSieve \in Conn
  BY DEF Good, Steady, InSession, Session
<1>2. answer.res # "OK" /\ (h.cmd # "create" => answer.res = "NO")
  BY <1>1, NoneFacts DEF Session
<1>3. CASE h.cmd = "create"
  <2>1. v = Throw(w)
    BY <1>2, <1>3 DEF Listener
  <2>2. Near(Throw(w), w, c) /\ Throw(w) \in Window
    BY <1>1, ThrowIs DEF Same, Near
  <2>3. QED
    BY <2>1, <2>2
<1>4. CASE h.cmd # "create" /\ w.tryToCreate
  <2> DEFINE u == CreateScript(w)
             b == ~u.ok
             y == [u EXCEPT !.tryToCreate = b]
  <2>1. v = y
    BY <1>1, <1>2, <1>4 DEF Listener, OnError
  <2>2. /\ b \in BOOLEAN /\ u \in Window /\ Same(u, w)
        /\ \A d \in Conn : d # c => u.sieve[d] = w.sieve[d]
    BY <1>1, CreateScriptOwn
  <2> HIDE DEF u, b
  <2>3. /\ y \in Window /\ y.sieve = u.sieve /\ y.gSieve = u.gSieve /\ y.own = u.own
        /\ y.account = u.account /\ y.managed = u.managed /\ y.current = u.current
    BY <2>2 DEF Window
  <2> HIDE DEF y
  <2>4. Near(y, w, c)
    BY <2>2, <2>3 DEF Same, Near
  <2>5. QED
    BY <2>1, <2>3, <2>4
<1>5. CASE h.cmd # "create" /\ ~w.tryToCreate
  <2>1. v = OnTreatError(w)
    BY <1>1, <1>2, <1>5 DEF Listener, OnError
  <2>2. Good(OnTreatError(w))
    BY GoodTreatError DEF After
  <2>3. Ruined(OnTreatError(w), w, c) /\ OnTreatError(w) \in Window
    BY <1>1, <2>2, TreatErrorIs DEF Good
  <2>4. QED
    BY <2>1, <2>3
<1>6. QED
  BY <1>3, <1>4, <1>5

LEMMA SteadyBroken ==
    ASSUME NEW w \in Window, NEW srv, Steady(w, srv), NEW c \in Conn, w.gSieve = c,
           w.sieve[c].open, NEW l, Near(l, w, c) \/ Ruined(l, w, c),
           NEW v \in Window, Same(v, l), v.sieve = l.sieve
    PROVE  IF v.sieve[c].open THEN Steady(Disconnect(v, c), srv) ELSE Steady(v, srv)
<1> DEFINE x == Disconnect(v, c)
<1>1. CASE Near(l, w, c)
  <2>1. /\ Becomes(x, v, c, Gone(v.sieve[c])) /\ ~Gone(v.sieve[c]).open
    BY DisconnectIs, GoneIs DEF Window
  <2> HIDE DEF x
  <2>2. /\ ~x.sieve[c].open /\ Same(x, v)
        /\ \A d \in Conn : d # c => x.sieve[d] = v.sieve[d]
    BY <2>1 DEF Becomes
  <2>3. Steady(x, srv)
    BY <1>1, <2>2, SteadyClosed DEF Same, Near
  <2>4. ~v.sieve[c].open => Steady(v, srv)
    BY <1>1, SteadyClosed DEF Same, Near
  <2>5. QED
    BY <2>3, <2>4 DEF x
<1>2. CASE Ruined(l, w, c)
  <2>1. w.own \in {0, c} /\ Left(w) /\ w.sieve[c] \in Sieve
    BY DEF Steady, InSession, Session, Window
  <2>2. Steady(l, srv) /\ l.sieve[c] = Gone(w.sieve[c])
    BY <1>2, <2>1, SteadyRuined DEF Ruined
  <2>3. ~v.sieve[c].open
    BY <2>1, <2>2, GoneIs
  <2>4. Steady(v, srv)
    BY <2>2, SteadySame DEF Same
  <2>5. QED
    BY <2>3, <2>4
<1>3. QED
  BY <1>1, <1>2

LEMMA SteadyStopped ==
    ASSUME NEW w, Good(w), NEW srv, Steady(w, srv), NEW c \in Conn, w.sieve[c].open,
           NEW error \in BOOLEAN, NEW parsable \in BOOLEAN, NEW password
    PROVE  Steady(Stopped(w, c, error, parsable, password), srv)
<1> DEFINE s == w.sieve[c]
           answer == IF s.data # NoAnswer THEN s.data ELSE ErrorAnswer
           told == error /\ parsable /\ s.queue # <<>>
           l == [Listener(w, Head(s.queue).cmd, answer, password) EXCEPT !.ok = TRUE]
           v == IF told THEN l ELSE w
<1>1. Stopped(w, c, error, parsable, password) =
        IF v.sieve[c].open THEN Disconnect(v, c) ELSE v
  BY DEF Stopped
<1>2. w \in Window /\ s \in Sieve /\ answer \in Answer
  BY NoneFacts DEF Good, Window, Sieve
<1>3. CASE w.gSieve # c
  <2>1. s.queue = <<>>
    BY <1>3 DEF Steady, Left
  <2>2. v = w
    BY <2>1
  <2> HIDE DEF v
  <2>3. Stopped(w, c, error, parsable, password) = Disconnect(w, c)
    BY <1>1, <2>2
  <2>4. Steady(Disconnect(w, c), srv)
    BY <1>2, <1>3, SteadyShut
  <2>5. QED
    BY <2>3, <2>4
<1>4. CASE w.gSieve = c /\ ~told
  <2>1. Stopped(w, c, error, parsable, password) = Disconnect(w, c)
    BY <1>1, <1>4
  <2> DEFINE x == Disconnect(w, c)
  <2>2. ~x.sieve[c].open /\ Same(x, w) /\ \A d \in Conn : d # c => x.sieve[d] = w.sieve[d]
    BY <1>2, DisconnectIs, GoneIs DEF Becomes
  <2> HIDE DEF x
  <2>3. Steady(x, srv)
    BY <1>4, <2>2, SteadyClosed DEF Same
  <2>4. QED
    BY <2>1, <2>3 DEF x
<1>5. CASE w.gSieve = c /\ told
  <2> DEFINE k == Listener(w, Head(s.queue).cmd, answer, password)
  <2>1. v = [k EXCEPT !.ok = TRUE] /\ s.queue # <<>>
    BY <1>5
  <2> HIDE DEF told, v, answer
  <2>2. k \in Window /\ (Near(k, w, c) \/ Ruined(k, w, c))
    BY <1>2, <1>5, <2>1, ListenerBroken DEF answer
  <2> HIDE DEF k
  <2>3. v \in Window /\ Same(v, k) /\ v.sieve = k.sieve
    BY <2>1, <2>2 DEF Window, Same
  <2>4. IF v.sieve[c].open THEN Steady(Disconnect(v, c), srv) ELSE Steady(v, srv)
    BY <1>2, <1>5, <2>2, <2>3, SteadyBroken
  <2>5. QED
    BY <1>1, <2>4
<1>6. QED
  BY <1>3, <1>4, <1>5
-----------------------------------------------------------------------------
(* As long as the user waits, what the user does leaves the session steady. *)

\* The connection s of the session has nothing to do.
Idle(w, s) == w.own \in {0, w.gSieve} /\ Trusted(s) /\ s.data = NoAnswer

\* The connection of the session is that of its account.
AtHome(w) == InSession(w) => w.sieve[w.gSieve].account = w.account

\* Every answer that the user waits for has come, but for the current account.
AtRest(w) ==
    /\ Good(w) /\ Left(w) /\ ~w.tryToCreate
    /\ w.managed # None => w.managed = w.account
    /\ w.gSieve \in Conn => w.sieve[w.gSieve].queue = <<>>
    /\ InSession(w) => Idle(w, w.sieve[w.gSieve])

LEMMA RestIs ==
    ASSUME Good(client), NEW srv, Steady(client, srv), ~Unanswered
    PROVE  AtRest(client) /\ AtHome(client) /\ client.current = None
<1>1. client.current = None /\ ~client.tryToCreate
  BY DEF Unanswered
<1>2. client.gSieve \in Conn => client.sieve[client.gSieve].queue = <<>>
  BY DEF Unanswered
<1>3. InSession(client) => Idle(client, client.sieve[client.gSieve])
  BY <1>2 DEF Steady, Session, Idle, InSession
<1>4. AtHome(client)
  BY <1>2 DEF Steady, Session, AtHome, InSession
<1>5. QED
  BY <1>1, <1>2, <1>3, <1>4 DEF Steady, AtRest, OneAccount

LEMMA AtRestSame ==
    ASSUME NEW w, AtRest(w), NEW v, Good(v), v.sieve = w.sieve, v.gSieve = w.gSieve,
           v.own \in {0, w.own}, ~v.tryToCreate, v.managed # None => v.managed = v.account
    PROVE  /\ AtRest(v)
           /\ AtHome(w) /\ v.account = w.account => AtHome(v)
  BY OutOfOfficeAssumption DEF AtRest, AtHome, Left, InSession, Idle

\* One account: the current one, if any, is the session's.
LEMMA SteadyRest ==
    ASSUME NEW w, AtRest(w), AtHome(w), NEW srv, InSession(w) => Knowing(w, srv),
           w.managed # None => w.current \in {w.account, None}
    PROVE  Steady(w, srv)
<1>1. Left(w) /\ OneAccount(w)
  BY DEF AtRest, OneAccount
<1>2. ASSUME InSession(w) PROVE Session(w, w.sieve[w.gSieve], srv)
  <2>1. w.sieve[w.gSieve].queue = <<>> /\ Idle(w, w.sieve[w.gSieve])
    BY <1>2 DEF AtRest, InSession
  <2>2. QED
    BY <1>2, <2>1 DEF Session, Idle, Knowing, AtHome
<1>3. QED
  BY <1>1, <1>2 DEF Steady

\* A request r is added to the queue of the session, which is empty.
LEMMA SteadyAsked ==
    ASSUME NEW w, AtRest(w), NEW srv, InSession(w) => Knowing(w, srv),
           w.managed # None => w.current \in {w.account, None},
           NEW r \in Request, (r.cmd \in OnScript /\ AtHome(w)) \/ r.cmd = "logout",
           r.cmd = "logout" => /\ w.current # None /\ w.enabled[w.account]
                               /\ ~w.connected,
           r.cmd = "setactive" => r.arg = w.shown[w.account],
           NEW x, x.sieve = AddRequest(w, w.gSieve, r).sieve, x.gSieve = w.gSieve,
           x.own = w.own, x.account = w.account, x.connected = w.connected,
           x.current = w.current, x.managed = w.managed, x.shown = w.shown,
           x.enabled = w.enabled, r.cmd = "logout" => ~x.tryToCreate
    PROVE  Steady(x, srv)
<1> DEFINE c == w.gSieve
           v == AddRequest(w, c, r)
           s == w.sieve[c]
           t == Queued(s, r)
<1>1. w \in Window /\ Left(w) /\ OneAccount(w) /\ OneAccount(x)
  BY DEF AtRest, Good, OneAccount
<1>2. CASE c \notin Conn
  <2>1. v = Throw(w)
    BY <1>2 DEF AddRequest
  <2>2. v.sieve = w.sieve
    BY <1>1, <2>1, ThrowIs
  <2>3. Left(x) /\ ~InSession(x)
    BY <1>1, <1>2, <2>2 DEF Left, InSession
  <2>4. QED
    BY <1>1, <2>3 DEF Steady
<1>3. CASE c \in Conn
  <2>1. Becomes(v, w, c, t)
    BY <1>1, <1>3, AddRequestIs
  <2>2. s \in Sieve /\ s.queue = <<>>
    BY <1>1, <1>3 DEF AtRest, Window
  <2>3. /\ t.queue = <<r>> /\ t.account = s.account /\ t.open = s.open
        /\ t.reply = s.reply /\ t.data = s.data /\ t.login = s.login
        /\ t.moved = s.moved
    <3>1. t.queue = Append(s.queue, r)
      BY <2>2, QueuedIs
    <3>2. Append(s.queue, r) = <<r>>
      BY <2>2, AppendIs DEF Sieve
    <3>3. QED
      BY <2>2, <3>1, <3>2, QueuedIs
  <2> HIDE DEF v, t
  <2>4. x.sieve[c] = t /\ \A d \in Conn : d # c => x.sieve[d] = w.sieve[d]
    BY <2>1 DEF Becomes, v
  <2>5. Left(x)
    BY <1>1, <1>3, <2>4, OutOfOfficeAssumption DEF Left
  <2>6. ASSUME t.open PROVE Session(x, t, srv)
    <3>1. Idle(w, s) /\ Knowing(w, srv)
      BY <1>3, <2>3, <2>6 DEF AtRest, InSession
    <3>2. s.reply = NoAnswer
      BY <1>3, <2>2 DEF AtRest, Good, Turn
    <3>3. /\ Trusted(t) /\ t.data = NoAnswer /\ t.reply = NoAnswer
          /\ r.cmd # "logout" => t.account = x.account
      BY <1>3, <2>3, <2>6, <3>1, <3>2 DEF Idle, Trusted, AtHome, InSession
    <3>4. r.cmd \notin Entering
      BY DEF OnScript, Entering
    <3>5. Asking(x, t, srv, r)
      BY <3>3, <3>4 DEF Asking
    <3>6. <<r>> # <<>> /\ Head(<<r>>) = r /\ Len(<<r>>) = 1
      BY OneIs
    <3>7. QED
      BY <2>3, <3>1, <3>3, <3>5, <3>6 DEF Session, Idle, Knowing, Known
  <2>7. QED
    BY <1>1, <2>4, <2>5, <2>6 DEF Steady, InSession
<1>4. QED
  BY <1>2, <1>3

\* A request changes nothing but connections and the exception.
LEMMA AskedIs ==
    ASSUME NEW w \in Window, NEW c, NEW r \in Request
    PROVE  Same(AddRequest(w, c, r), w)
<1>1. CASE c \in Conn
  BY <1>1, AddRequestIs DEF Becomes
<1>2. CASE c \notin Conn
  BY <1>2, ThrowIs DEF AddRequest
<1>3. QED
  BY <1>1, <1>2

\* The manager turns to the account a.
LEMMA SteadyNewSession ==
    ASSUME NEW p, AtRest(p), NEW srv, Free(p) # {}, NEW a \in Account, p.own = 0,
           p.account = a, ~p.connected, p.current = a, p.enabled[a], p.managed = a
    PROVE  IF p.gSieve \notin Conn \/ ~p.sieve[p.gSieve].open THEN Steady(LoggedOut(p), srv)
           ELSE Steady(AddRequest(p, p.gSieve, Req("logout")), srv)
<1>1. p \in Window /\ Left(p) /\ ~p.tryToCreate /\ a # None
  BY OutOfOfficeAssumption DEF AtRest, Good
<1>2. CASE p.gSieve \notin Conn \/ ~p.sieve[p.gSieve].open
  <2> DEFINE x == NewSieve(p, FALSE)
  <2>1. LoggedOut(p) = x
    BY OutOfOfficeAssumption DEF LoggedOut
  <2>2. PICK k \in Free(p) :
          /\ x \in Window /\ x.gSieve = k /\ x.own = k
          /\ Same([x EXCEPT !.gSieve = p.gSieve, !.own = p.own], p)
          /\ x.sieve[k] = Fresh(p, FALSE)
          /\ \A d \in Conn : d # k => x.sieve[d] = p.sieve[d]
    BY <1>1, NewSieveIs
  <2>3. k \in Conn
    BY <2>2 DEF Free
  <2> HIDE DEF x
  <2>4. /\ x.account = p.account /\ x.connected = p.connected /\ x.managed = p.managed
        /\ x.current = p.current /\ x.tryToCreate = p.tryToCreate
    BY <2>2 DEF Same, Window
  <2>5. \A d \in Conn : d # k /\ x.sieve[d].open => x.sieve[d].queue = <<>>
    BY <1>1, <1>2, <2>2 DEF Left
  <2>6. OneAccount(x) /\ Knowing(x, srv)
    BY <1>1, <2>4 DEF OneAccount, Knowing
  <2>7. Steady(x, srv)
    BY <1>1, <2>2, <2>3, <2>4, <2>5, <2>6, SteadyFresh
  <2>8. QED
    BY <1>2, <2>1, <2>7
<1>3. CASE ~(p.gSieve \notin Conn \/ ~p.sieve[p.gSieve].open)
  <2> DEFINE r == Req("logout")
             v == AddRequest(p, p.gSieve, r)
  <2>1. r \in Request /\ r.cmd = "logout"
    BY Requests DEF Cmd
  <2> HIDE DEF r
  <2>2. Same(v, p)
    BY <1>1, <2>1, AskedIs
  <2>3. Knowing(p, srv) /\ r.cmd # "setactive"
    BY <1>1, <2>1 DEF Knowing
  <2>4. Steady(v, srv)
    BY <1>1, <2>1, <2>2, <2>3, SteadyAsked DEF Same
  <2>5. QED
    BY <1>3, <2>4 DEF r
<1>4. QED
  BY <1>2, <1>3

LEMMA SteadyConnectServer ==
    ASSUME NEW w, AtRest(w), AtHome(w), NEW srv, Free(w) # {}, NEW a \in Account,
           w.current = a, NEW activate \in BOOLEAN
    PROVE  Steady(ConnectServer(w, a, activate), srv)
<1> DEFINE v == Turned(w, a, activate)
<1>1. Good(w) /\ w \in Window /\ a # None
  BY OutOfOfficeAssumption DEF AtRest, Good
<1>2. Good(v) /\ Free(v) # {} /\ TurnedFrom(v, w, a)
  BY <1>1, GoodTurned, TurnedIs DEF Carries
<1>3. ConnectServer(w, a, activate) =
        IF ~w.enabled[a] THEN Managed(PostStatus(w, FALSE, FALSE), None)
        ELSE IF v.managed # a THEN NewSession(Managed(v, a), a, activate)
        ELSE IF activate THEN ActivateScript(v, v.shown[a])
        ELSE v
  BY ConnectServerIs
<1> HIDE DEF v
<1>4. AtRest(v) /\ AtHome(v)
  BY <1>2, AtRestSame DEF TurnedFrom, AtRest
<1>5. CASE ~w.enabled[a]
  <2> DEFINE p == PostStatus(w, FALSE, FALSE)
             m == Managed(p, None)
  <2>1. Reports(p, w, FALSE, FALSE) /\ Good(p)
    BY <1>1, PostStatusIs, GoodPostStatus DEF Carries
  <2> HIDE DEF p
  <2>2. /\ Good(m) /\ m.sieve = p.sieve /\ m.gSieve = p.gSieve /\ m.own = p.own
        /\ m.account = p.account /\ m.tryToCreate = p.tryToCreate
        /\ m.managed = None
    BY <2>1, ManagedIs
  <2> HIDE DEF m
  <2>3. AtRest(m) /\ AtHome(m)
    <3>1. /\ m.sieve = w.sieve /\ m.gSieve = w.gSieve /\ m.own = w.own
          /\ m.account = w.account /\ m.tryToCreate = w.tryToCreate
      BY <2>1, <2>2 DEF Reports
    <3>2. QED
      BY <2>2, <3>1, AtRestSame DEF AtRest
  <2>4. Steady(m, srv)
    BY <2>2, <2>3, SteadyRest DEF Knowing
  <2>5. QED
    BY <1>3, <1>5, <2>4 DEF m, p
<1>6. CASE w.enabled[a] /\ v.managed # a
  <2> DEFINE m == Managed(v, a)
             p == Placed(m, a, activate)
  <2>1. /\ Good(m) /\ Free(m) # {} /\ m.sieve = v.sieve /\ m.gSieve = v.gSieve
        /\ m.own = v.own /\ m.tryToCreate = v.tryToCreate /\ m.current = v.current
        /\ m.enabled = v.enabled /\ m.managed = a
    BY <1>2, ManagedIs DEF Carries
  <2>2. NewSession(m, a, activate) =
          IF p.gSieve \notin Conn \/ ~p.sieve[p.gSieve].open THEN LoggedOut(p)
          ELSE AddRequest(p, p.gSieve, Req("logout"))
    BY DEF NewSession, Placed
  <2>3. ConnectServer(w, a, activate) = NewSession(m, a, activate)
    BY <1>3, <1>6
  <2> HIDE DEF m
  <2>4. /\ Good(p) /\ Free(m) \subseteq Free(p) /\ p.sieve = m.sieve /\ p.gSieve = m.gSieve
        /\ p.own = 0 /\ p.account = a /\ ~p.connected /\ p.tryToCreate = m.tryToCreate
        /\ p.current = m.current /\ p.enabled = m.enabled /\ p.managed = m.managed
    BY <2>1, PlacedIs
  <2> HIDE DEF p
  <2>5. AtRest(p)
    BY <1>4, <2>1, <2>4, AtRestSame DEF AtRest
  <2>6. p.current = a /\ p.enabled[a] /\ p.managed = a /\ Free(p) # {}
    BY <1>2, <1>6, <2>1, <2>4 DEF TurnedFrom
  <2>7. IF p.gSieve \notin Conn \/ ~p.sieve[p.gSieve].open THEN Steady(LoggedOut(p), srv)
        ELSE Steady(AddRequest(p, p.gSieve, Req("logout")), srv)
    BY <2>4, <2>5, <2>6, SteadyNewSession
  <2>8. QED
    BY <2>2, <2>3, <2>7
<1>7. ASSUME v.managed = a
      PROVE  v.account = a /\ v.current = a /\ Steady(v, srv) /\ Knowing(v, srv)
  <2>1. v.account = a /\ v.current = a /\ Knowing(v, srv)
    BY <1>1, <1>2, <1>4, <1>7 DEF AtRest, TurnedFrom, Knowing
  <2>2. QED
    BY <1>4, <2>1, SteadyRest
<1>8. CASE w.enabled[a] /\ v.managed = a /\ activate
  <2> DEFINE r == [cmd |-> "setactive", arg |-> v.shown[a]]
             x == AddRequest(v, v.gSieve, r)
  <2>1. ConnectServer(w, a, activate) = IF ~v.connected THEN v ELSE x
    BY <1>3, <1>8 DEF ActivateScript
  <2>2. v.shown[a] \in BOOLEAN /\ v \in Window
    BY <1>2 DEF Good, Window
  <2>3. r \in Request /\ r.cmd = "setactive" /\ r.arg = v.shown[a]
    BY <2>2, Requests DEF Cmd, OnScript
  <2> HIDE DEF r
  <2>4. Same(x, v)
    BY <2>2, <2>3, AskedIs
  <2>5. r.cmd \in OnScript /\ r.cmd # "logout"
    BY <2>3 DEF OnScript
  <2>6. Steady(x, srv)
    BY <1>4, <1>7, <1>8, <2>3, <2>4, <2>5, SteadyAsked DEF Same
  <2>7. QED
    BY <1>7, <1>8, <2>1, <2>6
<1>9. CASE w.enabled[a] /\ v.managed = a /\ ~activate
  BY <1>3, <1>7, <1>9
<1>10. QED
  BY <1>5, <1>6, <1>8, <1>9

LEMMA SteadyOnTreeSelect ==
    ASSUME NEW w, AtRest(w), AtHome(w), NEW srv, Steady(w, srv), Free(w) # {},
           w.row # None
    PROVE  Steady(OnTreeSelect(w), srv)
<1>1. w \in Window /\ w.row \in Account /\ w.activating \in BOOLEAN
  BY DEF AtRest, Good, Window
<1>2. CASE w.current # None
  BY <1>2 DEF OnTreeSelect
<1>3. CASE w.current = None /\ w.internal
  <2> DEFINE v == [w EXCEPT !.internal = FALSE]
  <2>1. /\ v.sieve = w.sieve /\ v.gSieve = w.gSieve /\ v.own = w.own
        /\ v.account = w.account /\ v.connected = w.connected
        /\ v.tryToCreate = w.tryToCreate /\ v.current = w.current
        /\ v.managed = w.managed /\ v.shown = w.shown /\ v.enabled = w.enabled
    BY <1>1 DEF Window
  <2>2. OnTreeSelect(w) = v
    BY <1>3 DEF OnTreeSelect
  <2> HIDE DEF v
  <2>3. QED
    BY <2>1, <2>2, SteadySame
<1>4. CASE w.current = None /\ ~w.internal
  <2> DEFINE v == [w EXCEPT !.current = w.row, !.progress = TRUE]
  <2>1. /\ v \in Window /\ v.sieve = w.sieve /\ v.gSieve = w.gSieve /\ v.own = w.own
        /\ v.account = w.account /\ v.tryToCreate = w.tryToCreate
        /\ v.current = w.row /\ v.managed = w.managed /\ v.row = w.row
    BY <1>1 DEF Window
  <2>2. OnTreeSelect(w) = ConnectServer(v, w.row, w.activating)
    BY <1>4 DEF OnTreeSelect
  <2> HIDE DEF v
  <2>3. Good(v) /\ Free(v) # {}
    BY <2>1 DEF AtRest, Good, Selected, Free
  <2>4. AtRest(v) /\ AtHome(v)
    BY <2>1, <2>3, AtRestSame DEF AtRest
  <2>5. QED
    BY <1>1, <2>1, <2>2, <2>3, <2>4, SteadyConnectServer
<1>5. QED
  BY <1>2, <1>3, <1>4

LEMMA SteadySelectRow ==
    ASSUME GoodInv, Steady(client, server), NEW a \in Account, SelectRow(a), ~hasty'
    PROVE  Steady(client', server)
<1> DEFINE w == [client EXCEPT !.row = a]
<1>1. Good(client) /\ client \in Window /\ a # None
  BY OutOfOfficeAssumption DEF GoodInv, Good
<1>2. Free(client) # {} /\ Done(OnTreeSelect(w)) /\ ~Unanswered
  BY DEF SelectRow, Click
<1>3. AtRest(client) /\ AtHome(client)
  BY <1>1, <1>2, RestIs
<1>4. /\ w \in Window /\ w.sieve = client.sieve /\ w.gSieve = client.gSieve
      /\ w.own = client.own /\ w.row = a /\ w.account = client.account
      /\ w.tryToCreate = client.tryToCreate /\ w.current = client.current
      /\ w.connected = client.connected /\ w.enabled = client.enabled
      /\ w.managed = client.managed /\ w.shown = client.shown
  BY <1>1 DEF Window
<1> HIDE DEF w
<1>5. Good(w) /\ Free(w) # {}
  BY <1>1, <1>2, <1>4 DEF Good, Selected, Free
<1>6. AtRest(w) /\ AtHome(w) /\ Steady(w, server)
  BY <1>3, <1>4, <1>5, AtRestSame, SteadySame DEF AtRest
<1>7. Good(OnTreeSelect(w)) /\ Steady(OnTreeSelect(w), server)
  BY <1>1, <1>4, <1>5, <1>6, GoodOnTreeSelect, SteadyOnTreeSelect
<1>8. QED
  BY <1>2, <1>7, DoneIs, SteadyEnded

LEMMA SteadyEnableClick ==
    ASSUME GoodInv, Steady(client, server), EnableClick, ~hasty'
    PROVE  Steady(client', server)
<1> DEFINE a == client.row
           w == [client EXCEPT !.enabled[a] = TRUE, !.activating = TRUE]
           x == [w EXCEPT !.current = a]
<1>1. Good(client) /\ client \in Window /\ client.ok
  BY DEF GoodInv, Good
<1>2. /\ Free(client) # {} /\ ~Unanswered /\ a # None
      /\ Done(OnTreeSelect(w)) \/ Done(ConnectServer(x, a, TRUE))
  BY DEF EnableClick, Click
<1>3. AtRest(client) /\ AtHome(client) /\ client.current = None
  BY <1>1, <1>2, RestIs
<1>4. a \in Account
  BY <1>1, <1>2 DEF Window
<1>5. /\ w \in Window /\ w.sieve = client.sieve /\ w.gSieve = client.gSieve
      /\ w.own = client.own /\ w.row = a /\ w.account = client.account
      /\ w.tryToCreate = client.tryToCreate /\ w.current = client.current
      /\ w.connected = client.connected /\ w.managed = client.managed
      /\ w.shown = client.shown
  BY <1>1, <1>4 DEF Window
<1> HIDE DEF w
<1>6. Good(w) /\ Free(w) # {}
  BY <1>1, <1>2, <1>5 DEF Good, Selected, Free
<1>7. AtRest(w) /\ AtHome(w)
  BY <1>3, <1>5, <1>6, AtRestSame DEF AtRest
<1>8. Steady(w, server)
  <2>1. InSession(w) => Knowing(w, server)
    BY <1>5 DEF Steady, Session, Knowing, Known, InSession
  <2>2. QED
    BY <1>3, <1>5, <1>7, <2>1, SteadyRest
<1>9. Good(OnTreeSelect(w)) /\ Steady(OnTreeSelect(w), server)
  BY <1>2, <1>5, <1>6, <1>7, <1>8, GoodOnTreeSelect, SteadyOnTreeSelect
<1>10. /\ x \in Window /\ x.sieve = w.sieve /\ x.gSieve = w.gSieve /\ x.own = w.own
       /\ x.row = a /\ x.account = w.account /\ x.tryToCreate = w.tryToCreate
       /\ x.current = a /\ x.managed = w.managed
  BY <1>4, <1>5 DEF Window
<1> HIDE DEF x
<1>11. Good(x) /\ Free(x) # {}
  BY <1>2, <1>6, <1>10 DEF Good, Selected, Free
<1>12. AtRest(x) /\ AtHome(x)
  BY <1>7, <1>10, <1>11, AtRestSame DEF AtRest
<1>13. Good(ConnectServer(x, a, TRUE)) /\ Steady(ConnectServer(x, a, TRUE), server)
  BY <1>4, <1>10, <1>11, <1>12, GoodConnectServer, SteadyConnectServer
<1> HIDE DEF a
<1>14. QED
  BY <1>2, <1>9, <1>13, DoneIs, SteadyEnded

LEMMA SteadyEditClick ==
    ASSUME GoodInv, Steady(client, server), EditClick, ~hasty'
    PROVE  Steady(client', server)
<1> DEFINE w == [client EXCEPT !.dialog = TRUE]
           r == Req("getscript")
           v == AddRequest(w, w.gSieve, r)
           b == v.tryToCreate \/ v.ok
           x == [v EXCEPT !.tryToCreate = b]
<1>1. Good(client) /\ client \in Window /\ client.canEdit
  BY DEF GoodInv, Good, EditClick
<1>2. ~Unanswered /\ (Done(w) \/ Done(x))
  BY DEF EditClick, Click
<1>3. AtRest(client) /\ AtHome(client) /\ client.current = None
  BY <1>1, <1>2, RestIs
<1>4. /\ w \in Window /\ w.sieve = client.sieve /\ w.gSieve = client.gSieve
      /\ w.own = client.own /\ w.row = client.row /\ w.account = client.account
      /\ w.tryToCreate = client.tryToCreate /\ w.current = client.current
      /\ w.connected = client.connected /\ w.enabled = client.enabled
      /\ w.managed = client.managed /\ w.shown = client.shown
  BY <1>1 DEF Window
<1> HIDE DEF w
<1>5. Good(w)
  BY <1>1, <1>4 DEF Good, Selected
<1>6. AtRest(w) /\ AtHome(w) /\ Steady(w, server) /\ (InSession(w) => Knowing(w, server))
  <2>1. AtRest(w) /\ AtHome(w)
    BY <1>3, <1>4, <1>5, AtRestSame DEF AtRest
  <2>2. Steady(w, server)
    BY <1>4, SteadySame
  <2>3. QED
    BY <2>1, <2>2 DEF Steady, Session, Knowing
<1>7. r \in Request /\ r.cmd = "getscript"
  BY Requests DEF Cmd, OnScript
<1> HIDE DEF r
<1>8. Same(v, w) /\ Good(v) /\ b \in BOOLEAN
  BY <1>4, <1>5, <1>7, AskedIs, GoodAddRequest DEF Carries
<1> HIDE DEF b
<1>9. v.sieve = AddRequest(w, w.gSieve, r).sieve
  OBVIOUS
<1> HIDE DEF v
<1>10. /\ x \in Window /\ x.sieve = v.sieve /\ x.gSieve = v.gSieve /\ x.own = v.own
       /\ x.account = v.account /\ x.connected = v.connected /\ x.current = v.current
       /\ x.managed = v.managed /\ x.shown = v.shown /\ x.enabled = v.enabled
       /\ x.canEdit = v.canEdit /\ x.dialog = v.dialog /\ x.row = v.row
  BY <1>8 DEF Good, Window
<1> HIDE DEF x
<1>11. Good(x)
  BY <1>8, <1>10 DEF Good, Selected
<1>12. r.cmd \in OnScript /\ r.cmd # "logout" /\ r.cmd # "setactive"
  BY <1>7 DEF OnScript
<1>13. Steady(x, server)
  BY <1>3, <1>4, <1>6, <1>7, <1>8, <1>9, <1>10, <1>12, SteadyAsked DEF Same
<1>14. QED
  BY <1>2, <1>5, <1>6, <1>11, <1>13, DoneIs, SteadyEnded DEF x, v, r, b

LEMMA SteadyEditDone ==
    ASSUME GoodInv, Steady(client, server), NEW accept \in BOOLEAN, EditDone(accept), ~hasty'
    PROVE  Steady(client', server)
<1> DEFINE w == [client EXCEPT !.dialog = FALSE]
           r == Req("putscript")
           v == IF ~accept THEN w
                ELSE IF w.managed = None THEN Throw(w)
                ELSE AddRequest(w, w.gSieve, r)
           x == IF v.ok THEN UpdateControl(v) ELSE v
<1>1. Good(client) /\ client \in Window /\ client.row # None
  BY DEF GoodInv, Good, Selected, EditDone
<1>2. Done(x) /\ (accept => ~Unanswered)
  BY DEF EditDone
<1>3. /\ w \in Window /\ w.sieve = client.sieve /\ w.gSieve = client.gSieve
      /\ w.own = client.own /\ w.row = client.row /\ w.account = client.account
      /\ w.tryToCreate = client.tryToCreate /\ w.current = client.current
      /\ w.connected = client.connected /\ w.enabled = client.enabled
      /\ w.managed = client.managed /\ w.shown = client.shown
      /\ w.canEdit = client.canEdit
  BY <1>1 DEF Window
<1> HIDE DEF w
<1>4. Good(w) /\ Steady(w, server)
  BY <1>1, <1>3, SteadySame DEF Good, Selected
<1>5. r \in Request /\ r.cmd = "putscript"
  BY Requests DEF Cmd, OnScript
<1> HIDE DEF r
<1>6. Good(v) /\ Same(v, w) /\ Steady(v, server)
  <2>1. CASE ~accept
    BY <1>4, <2>1, SameRefl
  <2>2. CASE accept /\ w.managed = None
    <3>1. v = Throw(w)
      BY <2>2
    <3>2. Good(Throw(w)) /\ Same(Throw(w), w) /\ Throw(w).sieve = w.sieve
      BY <1>3, <1>4, GoodThrow, ThrowIs DEF Carries
    <3> HIDE DEF v
    <3>3. Steady(v, server)
      BY <1>4, <3>1, <3>2, SteadySame DEF Same
    <3>4. QED
      BY <3>1, <3>2, <3>3
  <2>3. CASE accept /\ w.managed # None
    <3> DEFINE y == AddRequest(w, w.gSieve, r)
    <3>1. v = y
      BY <2>3
    <3>2. Good(y) /\ Same(y, w)
      BY <1>3, <1>4, <1>5, AskedIs, GoodAddRequest DEF Carries
    <3>3. AtRest(client) /\ AtHome(client) /\ client.current = None
      BY <1>1, <1>2, <2>3, RestIs
    <3>4. AtRest(w) /\ AtHome(w)
      BY <1>3, <1>4, <3>3, AtRestSame DEF AtRest
    <3>5. InSession(w) => Knowing(w, server)
      BY <1>4 DEF Steady, Session, Knowing
    <3>6. r.cmd \in OnScript /\ r.cmd # "logout" /\ r.cmd # "setactive"
      BY <1>5 DEF OnScript
    <3>7. y.sieve = AddRequest(w, w.gSieve, r).sieve
      OBVIOUS
    <3> HIDE DEF y, v
    <3>8. Steady(y, server)
      BY <1>3, <1>5, <3>2, <3>3, <3>4, <3>5, <3>6, <3>7, SteadyAsked DEF Same
    <3>9. QED
      BY <3>1, <3>2, <3>8
  <2>4. QED
    BY <2>1, <2>2, <2>3
<1> HIDE DEF v
<1>7. v.row # None
  BY <1>1, <1>3, <1>6 DEF Same
<1>8. Good(UpdateControl(v)) /\ Steady(UpdateControl(v), server)
  BY <1>6, <1>7, GoodUpdateControl, SteadySame
<1>9. Good(x) /\ Steady(x, server)
  BY <1>6, <1>8
<1>10. QED
  BY <1>2, <1>9, DoneIs, SteadyEnded

LEMMA SteadyInit == Init => SteadyInv
<1> SUFFICES ASSUME Init PROVE Steady(client, server)
  BY DEF SteadyInv
<1>1. /\ client.gSieve = 0 /\ client.own = 0 /\ client.managed = None
      /\ \A c \in Conn : client.sieve[c] = Unused(First)
  BY DEF Init
<1>2. \A c \in Conn : ~client.sieve[c].open
  BY <1>1, UnusedIs
<1>3. QED
  BY <1>1, <1>2, OutOfOfficeAssumption DEF Steady, Left, OneAccount, InSession

LEMMA SteadyNetwork ==
    ASSUME GoodInv, Steady(client, server), NEW c \in Conn, Network(c)
    PROVE  Steady(client', server')
<1>1. Good(client) /\ client.ok /\ ServersGood(server)
  BY DEF GoodInv
<1>2. CASE Obey(c)
  <2>1. client' = Told(c, "OK") /\ client.sieve[c].asked # NoRequest
    BY <1>2 DEF Obey
  <2> DEFINE a == client.account
             s == client.sieve[c]
             r == s.asked
  <2>2. a \in Account
    BY <1>1 DEF Good, Window
  <2>3. /\ a # s.account => server'[a] = server[a]
        /\ r.cmd = "setactive" => server'[s.account].active = r.arg
        /\ r.cmd # "setactive" => server'[s.account].active = server[s.account].active
        /\ r.cmd = "listscripts" => server' = server
    BY <1>1, <1>2, <2>2, ServersGoodObey
  <2>4. /\ r.cmd = "setactive" => server'[a].active \in {server[a].active, r.arg}
        /\ r.cmd # "setactive" => server'[a].active = server[a].active
    BY <2>3
  <2>5. Steady(Told(c, "OK"), server')
    BY <1>1, <2>1, <2>3, <2>4, SteadyTold
  <2>6. QED
    BY <2>1, <2>5
<1>3. CASE \E res \in {"NO", "REFERRAL"} : Refuse(c, res)
  <2>1. PICK res \in {"NO", "REFERRAL"} : Refuse(c, res)
    BY <1>3
  <2>2. client' = Told(c, res) /\ client.sieve[c].asked # NoRequest /\ server' = server
    BY <2>1 DEF Refuse
  <2>3. Steady(Told(c, res), server)
    BY <1>1, <2>2, SteadyTold
  <2>4. QED
    BY <2>2, <2>3
<1>4. CASE Tear(c)
  <2>1. server' = server
    BY <1>4 DEF Tear
  <2>2. QED
    BY <1>1, <1>4, <2>1, SteadyTear
<1>5. CASE \E password \in BOOLEAN : DataAvailable(c, password)
  <2>1. PICK password \in BOOLEAN : DataAvailable(c, password)
    BY <1>5
  <2>2. Done(HandlerEnd(c, password)) /\ server' = server
    BY <1>1, <2>1, HandlerIs
  <2>3. Good(HandlerEnd(c, password)) /\ Steady(HandlerEnd(c, password), server)
    BY <1>1, <2>1, GoodDataAvailable, SteadyDataAvailable
  <2>4. QED
    BY <2>2, <2>3, DoneIs, SteadyEnded
<1>6. CASE \E error, parsable, password \in BOOLEAN : StopRequest(c, error, parsable, password)
  <2>1. PICK error \in BOOLEAN, parsable \in BOOLEAN, password \in BOOLEAN :
          StopRequest(c, error, parsable, password)
    BY <1>6
  <2> DEFINE x == Stopped(client, c, error, parsable, password)
  <2>2. /\ error => Free(client) # {}
        /\ Done(x) /\ server' = server
    BY <2>1 DEF StopRequest
  <2>3. Good(x)
    BY <1>1, <2>2, GoodStopped
  <2>4. Steady(x, server)
    BY <1>1, <2>1, SteadyStopped DEF StopRequest
  <2> HIDE DEF x
  <2>5. QED
    BY <2>2, <2>3, <2>4, DoneIs, SteadyEnded
<1>7. QED
  BY <1>2, <1>3, <1>4, <1>5, <1>6 DEF Network

LEMMA SteadyNext ==
    ASSUME GoodInv, SteadyInv, [Next]_vars
    PROVE  SteadyInv'
<1> SUFFICES ASSUME ~hasty' PROVE Steady(client', server')
  BY DEF SteadyInv
<1>1. Steady(client, server)
  BY HastyClicks DEF SteadyInv
<1>2. CASE User
  <2>1. Steady(client', server)
    BY <1>1, <1>2, SteadySelectRow, SteadyEnableClick, SteadyEditClick, SteadyEditDone
       DEF User
  <2>2. server' = server
    BY <1>2, GoodUser
  <2>3. QED
    BY <2>1, <2>2
<1>3. CASE \E c \in Conn : Network(c)
  BY <1>1, <1>3, SteadyNetwork
<1>4. CASE UNCHANGED vars
  BY <1>1, <1>4 DEF vars
<1>5. QED
  BY <1>2, <1>3, <1>4 DEF Next

\* With a user who waits, each handler of a session finds the session as the
\* one before left it: on the connection of one account, at a known step of the
\* way from the connection to the script, the window up to date with the answers.
THEOREM AlwaysSteady == Spec => []SteadyInv
<1>1. Init => SteadyInv
  BY SteadyInit
<1>2. GoodInv /\ SteadyInv /\ [Next]_vars => SteadyInv'
  BY SteadyNext
<1>3. QED
  BY <1>1, <1>2, AlwaysGood, PTL DEF Spec

\* No command about scripts reaches a server before it has let the user in, on
\* any way through STARTTLS, missing passwords, refusals and broken
\* connections, for a user who waits, and except behind a referral.
THEOREM LoginComesFirst == Spec => []LoginFirst
<1>1. GoodInv /\ SteadyInv => LoginFirst
  <2> SUFFICES ASSUME GoodInv, SteadyInv, NEW c \in Conn, ~hasty,
                      client.sieve[c].asked.cmd \in OnScript
               PROVE  client.sieve[c].login \/ client.sieve[c].moved
    BY DEF LoginFirst
  <2> DEFINE s == client.sieve[c]
  <2>1. Good(client) /\ Steady(client, server)
    BY DEF GoodInv, SteadyInv
  <2>2. s.asked # NoRequest
    BY DEF NoRequest, OnScript, None
  <2>3. Asking(client, s, server, Head(s.queue)) /\ s.asked = Head(s.queue)
    BY <2>1, <2>2, UnderWay DEF Good, Turn
  <2>4. QED
    BY <2>3 DEF Asking, Trusted
<1>2. QED
  BY <1>1, AlwaysGood, AlwaysSteady, PTL

\* When the session of an account is at rest its row shows what its server
\* does, whatever way the add-on took: the icon that ConnectServer had turned
\* before it asked is right again after each refusal, break and referral, for
\* a user who waits.
THEOREM WindowShowsServer == Spec => []ShownIsServed
<1>1. SteadyInv => ShownIsServed
  <2> SUFFICES ASSUME SteadyInv, NEW a \in Account, ~hasty, client.current = None,
                      Connected(a)
               PROVE  client.shown[a] = server[a].active
    BY DEF ShownIsServed
  <2>1. /\ client.managed = a /\ client.account = a /\ InSession(client) /\ a # None
    BY OutOfOfficeAssumption DEF Connected, InSession
  <2>2. Known(client, server)
    BY <2>1 DEF SteadyInv, Steady, Session
  <2>3. QED
    BY <2>1, <2>2 DEF Known
<1>2. QED
  BY <1>1, AlwaysSteady, PTL
=============================================================================
