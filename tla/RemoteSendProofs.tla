-------------------------- MODULE RemoteSendProofs --------------------------
(***************************************************************************)
(* Proofs about RemoteSend, for any number of calls, any requests and any  *)
(* changes that the user makes to the preferences.                         *)
(***************************************************************************)
EXTENDS RemoteSend, MessageSendProofs, SequenceTheorems

(***************************************************************************)
(* The invariant is that of MessageSend, and what ties each call to its    *)
(* sending and to the preferences.                                         *)
(***************************************************************************)

\* What SetDSNProperties has still to write.
Lefts == {<<"SUCCESS", "FAILURE", "DELAY", "NEVER">>, <<"FAILURE", "DELAY", "NEVER">>,
          <<"DELAY", "NEVER">>, <<"NEVER">>}

Listed == {"SUCCESS", "FAILURE", "DELAY", "NEVER"}

Early == {"idle", "dsn", "filled", "posted", "raised"}

Named(l) == {l[i] : i \in DOMAIN l}

\* Of the preferences in set, those that are on are those that were asked for.
Agrees(r, p, set) == p \cap set = r.options \cap set

\* Nothing has been sent yet.
Unsent(s, e) == s.sends = 0 /\ s.phase = "idle" /\ e.asked = <<>>

\* The sending of a call that has begun one, and what its end told.
Begins(s, e) ==
    /\ s.mode = "DeliverNow"
    /\ e.delivered => Len(e.asked) = Recipients

\* What a call has written is still there, unless somebody else wrote.
Written(r, g, l, a, p) ==
    a /\ r.dsn => /\ g = "dsn" => Agrees(r, p, Listed \ Named(l))
                  /\ g \in {"filled", "posted", "waiting"} => Agrees(r, p, Listed)

AskedFor(r, a, e) ==
    \A i \in DOMAIN e.asked :
        e.asked[i] # {} => r.dsn /\ (a => e.asked[i] = Smtp!NotifyOf(r.options))

Settled(r, g, l, a, f, s, e, p) ==
    /\ f.dsn = r.dsn
    /\ IF g = "dsn" THEN l \in Lefts ELSE l = <<>>
    /\ IF g \in Early THEN Unsent(s, e) ELSE Begins(s, e)
    /\ g = "dsn" => r.dsn
    /\ g = "returned" => s.told # <<>>
    /\ Written(r, g, l, a, p)
    /\ AskedFor(r, a, e)

CallInv ==
    /\ IInv
    /\ request \in [Messages -> Requests]
    /\ call \in [Messages -> Stage]
    /\ alone \in [Messages -> BOOLEAN]
    /\ DOMAIN left = Messages
    /\ \A c \in Messages : Settled(request[c], call[c], left[c], alone[c],
                                   fields[c], send[c], session[c], prefs)

-----------------------------------------------------------------------------
(* What goes on in a sending leaves to its call what the call knows of it. *)

\* The sending of s, further on: still the same, and what was told is told.
Kin(s, t) == /\ t.mode = s.mode /\ t.sends = s.sends
             /\ s.told # <<>> => t.told # <<>>

LEMMA KinTrans ==
    ASSUME NEW s, NEW t, NEW u, Kin(s, t), Kin(t, u) PROVE Kin(s, u)
  BY DEF Kin

LEMMA KinStopSending ==
    ASSUME NEW s \in Send, NEW f, NEW status \in {"ok", "failed"}
    PROVE  Kin(s, OnStopSending(s, f, status))
<1>1. s.told \in Seq({"ok", "failed"})
  BY DEF Send
<1>2. Append(s.told, status) # <<>>
  BY <1>1
<1>3. /\ OnStopSending(s, f, status).mode = s.mode
      /\ OnStopSending(s, f, status).sends = s.sends
      /\ OnStopSending(s, f, status).told = Append(s.told, status)
  BY DEF OnStopSending, Send
<1>4. QED
  BY <1>2, <1>3 DEF Kin

LEMMA KinSteps ==
    ASSUME NEW s \in Send
    PROVE  /\ \A folder : \A t \in Copying(s, folder) : Kin(s, t)
           /\ Kin(s, Asking(s))
           /\ \A status : Kin(s, OnStopCopy(s, status))
           /\ \A f : Kin(s, Silently(s, f))
<1>1. ASSUME NEW folder, NEW t \in Copying(s, folder) PROVE Kin(s, t)
  BY DEF Copying, Kin, Send
<1>2. Kin(s, Asking(s))
  BY DEF Asking, Kin, Send
<1>3. ASSUME NEW status PROVE Kin(s, OnStopCopy(s, status))
  <2>1. /\ OnStopCopy(s, status).mode = s.mode
        /\ OnStopCopy(s, status).sends = s.sends
        /\ OnStopCopy(s, status).told = s.told
    BY DEF OnStopCopy, Send
  <2>2. QED
    BY <2>1 DEF Kin
<1>4. ASSUME NEW f PROVE Kin(s, Silently(s, f))
  BY DEF Silently, Kin, Send
<1>5. QED
  BY <1>1, <1>2, <1>3, <1>4

LEMMA KinStopCopy ==
    ASSUME NEW s \in Send, NEW t \in StopCopy(s)
    PROVE  Kin(s, t)
<1> DEFINE r == [s EXCEPT !.second = FALSE]
<1>1. r \in Send /\ Kin(s, r)
  BY DEF Send, Kin
<1>2. \/ t \in Copying(r, "Second") \/ t = OnStopCopy(r, "failed")
      \/ t = OnStopCopy(s, "ok")
  BY DEF StopCopy
<1> HIDE DEF r
<1>3. Kin(r, t) \/ Kin(s, t)
  BY <1>1, <1>2, KinSteps
<1>4. QED
  BY <1>1, <1>3, KinTrans

LEMMA KinDoFcc ==
    ASSUME NEW f \in Field, NEW s \in Send, NEW t \in DoFcc(s, f)
    PROVE  Kin(s, t)
<1>1. CASE f.fcc = "folder"
  BY <1>1, KinSteps DEF DoFcc
<1>2. CASE f.fcc # "folder"
  <2>1. t \in StopCopy(OnStopSending(s, f, "ok"))
    BY <1>2 DEF DoFcc
  <2>2. OnStopSending(s, f, "ok") \in Send /\ Kin(s, OnStopSending(s, f, "ok"))
    BY ToldTyped, KinStopSending
  <2>3. QED
    BY <2>1, <2>2, KinStopCopy, KinTrans
<1>3. QED
  BY <1>1, <1>2

LEMMA KinDelivered ==
    ASSUME NEW f \in Field, NEW s \in Send, NEW t \in Delivered(s, f)
    PROVE  Kin(s, t)
<1>1. OnStopSending(s, f, "ok") \in Send /\ Kin(s, OnStopSending(s, f, "ok"))
  BY ToldTyped, KinStopSending
<1>2. Kin(OnStopSending(s, f, "ok"), t)
  BY <1>1, KinDoFcc DEF Delivered
<1>3. QED
  BY <1>1, <1>2, KinTrans

LEMMA KinDeliverMessage ==
    ASSUME NEW f \in Field, NEW s \in Send, NEW t \in DeliverMessage(s, f)
    PROVE  Kin(s, t)
<1>1. \/ t = Silently(s, f) \/ t \in SendToMagicFolder(s)
      \/ t = [s EXCEPT !.phase = Delivery(f)]
  BY DEF DeliverMessage
<1>2. CASE t = Silently(s, f)
  BY <1>2, KinSteps
<1>3. CASE t \in SendToMagicFolder(s)
  <2>1. \/ t \in Copying(s, MagicFolder(s.mode))
        \/ t = [Asking(s) EXCEPT !.within = "deliver"]
    BY <1>3 DEF SendToMagicFolder
  <2>2. Kin(Asking(s), [Asking(s) EXCEPT !.within = "deliver"])
    BY DEF Asking, Kin, Send
  <2>3. QED
    BY <2>1, <2>2, KinSteps, KinTrans
<1>4. CASE t = [s EXCEPT !.phase = Delivery(f)]
  BY <1>4 DEF Kin, Send
<1>5. QED
  BY <1>1, <1>2, <1>3, <1>4

LEMMA KinUnwound ==
    ASSUME NEW t \in Send, NEW within
    PROVE  Kin(t, Unwound(t, within))
<1>1. \/ Unwound(t, within) = [t EXCEPT !.within = "doomed"]
      \/ Unwound(t, within) = Asking(t) \/ Unwound(t, within) = t
  BY DEF Unwound
<1>2. QED
  BY <1>1, KinSteps DEF Kin, Send

\* What one message becomes.
Became(m) ==
    /\ send[m].phase # "idle"
    /\ Kin(send[m], send'[m])
    /\ \A n \in Messages \ {m} : send'[n] = send[n] /\ session'[n] = session[n]
    /\ UNCHANGED <<fields, prefs>>

LEMMA ContinuesKeeps ==
    ASSUME IInv, NEW m \in Messages, Continues(m)
    PROVE  /\ Became(m)
           /\ \/ session'[m] = session[m]
              \/ /\ send[m].phase = "mailing"
                 /\ session'[m] \in Smtp!Asks(session[m], prefs) \cup Smtp!Delivers(session[m])
                 /\ \/ fields[m].dsn
                    \/ \A i \in DOMAIN session'[m].asked : session'[m].asked[i] = {}
              \/ session'[m] \in Smtp!Reports(session[m])
<1> DEFINE s == send[m]
           f == fields[m]
<1>1. s \in Send /\ f \in Field /\ Good(s, f, session[m])
  BY SendAssumption DEF IInv
<1>2. ASSUME NEW set, \A t \in set : Kin(s, t), Becomes(m, set), s.phase # "idle",
             \A n \in Messages \ {m} : session'[n] = session[n],
             UNCHANGED <<fields, prefs>>
      PROVE  Became(m)
  <2>1. PICK t \in set : send' = [send EXCEPT ![m] = t]
    BY <1>2 DEF Becomes
  <2>2. QED
    BY <1>2, <2>1 DEF Became, IInv
<1>3. CASE PrepareFails(m)
  <2>1. Became(m)
    BY <1>1, <1>2, <1>3, KinSteps DEF PrepareFails
  <2>2. QED
    BY <1>3, <2>1 DEF PrepareFails
<1>4. CASE Prepared(m)
  <2>1. Became(m)
    BY <1>1, <1>2, <1>4, KinDeliverMessage DEF Prepared
  <2>2. QED
    BY <1>4, <2>1 DEF Prepared
<1>5. CASE NewsExit(m)
  <2> DEFINE p == [s EXCEPT !.posted = TRUE]
  <2>1. p \in Send /\ Kin(s, p)
    BY <1>1 DEF Send, Kin
  <2> HIDE DEF p
  <2>2. \A t \in DeliverAsNewsExit(p, f) : Kin(s, t)
    <3>1. \A t \in MailAlso(p) : Kin(p, t)
      BY <2>1 DEF MailAlso, Kin, Send
    <3>2. \A t \in Delivered(p, f) : Kin(p, t)
      BY <1>1, <2>1, KinDelivered
    <3>3. QED
      BY <2>1, <3>1, <3>2, KinTrans DEF DeliverAsNewsExit
  <2>3. \A t \in DeliveryFailed(s, f) : Kin(s, t)
    BY <1>1, KinStopSending DEF DeliveryFailed
  <2>4. \A t \in DeliverAsNewsExit(p, f) \cup DeliveryFailed(s, f) : Kin(s, t)
    BY <2>2, <2>3
  <2>5. Becomes(m, DeliverAsNewsExit(p, f) \cup DeliveryFailed(s, f))
    BY <1>5 DEF NewsExit, p
  <2>6. Became(m)
    BY <1>2, <1>5, <2>4, <2>5 DEF NewsExit
  <2>7. QED
    BY <1>5, <2>6 DEF NewsExit
<1>6. CASE MailGoesOn(m)
  <2>1. PICK d \in Smtp!Asks(session[m], prefs) \cup Smtp!Delivers(session[m]) :
            /\ fields[m].dsn \/ \A i \in DOMAIN d.asked : d.asked[i] = {}
            /\ session' = [session EXCEPT ![m] = d]
    BY <1>6 DEF MailGoesOn
  <2>2. session'[m] = d /\ \A n \in Messages \ {m} : session'[n] = session[n]
    BY <2>1 DEF IInv
  <2>3. Became(m)
    BY <1>6, <2>2 DEF MailGoesOn, Became, Kin
  <2>4. QED
    BY <1>6, <2>1, <2>2, <2>3 DEF MailGoesOn
<1>7. CASE MailExit(m)
  <2>1. PICK d \in Smtp!Reports(session[m]) :
            /\ session' = [session EXCEPT ![m] = d]
            /\ Becomes(m, IF d.result = "ok" THEN Delivered(s, f) ELSE DeliveryFailed(s, f))
    BY <1>7 DEF MailExit
  <2>2. session'[m] = d /\ \A n \in Messages \ {m} : session'[n] = session[n]
    BY <2>1 DEF IInv
  <2>3. \A t \in Delivered(s, f) \cup DeliveryFailed(s, f) : Kin(s, t)
    BY <1>1, KinDelivered, KinStopSending DEF DeliveryFailed
  <2>4. \A t \in IF d.result = "ok" THEN Delivered(s, f) ELSE DeliveryFailed(s, f) : Kin(s, t)
    BY <2>3
  <2>5. Became(m)
    BY <1>2, <1>7, <2>1, <2>2, <2>4 DEF MailExit
  <2>6. QED
    BY <2>1, <2>2, <2>5
<1>8. CASE CopyEnds(m)
  <2> DEFINE r == [s EXCEPT !.folders = @ \cup {s.target}]
  <2>1. s.target \in Folder
    BY <1>1, <1>8 DEF CopyEnds, Good, OnItsWay
  <2>2. r \in Send /\ Kin(s, r)
    BY <1>1, <2>1 DEF Send, Kin
  <2> HIDE DEF r
  <2>3. \A t \in StopCopy(r) \cup {Asking(s)} : Kin(s, t)
    BY <1>1, <2>2, KinStopCopy, KinSteps, KinTrans
  <2>4. Becomes(m, StopCopy(r) \cup {Asking(s)})
    BY <1>8 DEF CopyEnds, r
  <2>5. Became(m)
    BY <1>2, <1>8, <2>3, <2>4 DEF CopyEnds
  <2>6. QED
    BY <1>8, <2>5 DEF CopyEnds
<1>9. CASE RetryCopy(m)
  <2> DEFINE r == [s EXCEPT !.progress = FALSE, !.retries = @ + 1]
             set == {Unwound(t, r.within) : t \in DoFcc(r, f)}
  <2>1. s.phase = "asking"
    BY <1>1, <1>9 DEF RetryCopy, Good, Send
  <2>2. r \in Send /\ Kin(s, r)
    <3>1. s.retries + 1 \in Nat /\ FALSE \in BOOLEAN
      BY <1>1 DEF Send
    <3>2. QED
      BY <1>1, <3>1 DEF Send, Kin
  <2>3. Becomes(m, set)
    BY <1>9 DEF RetryCopy
  <2> HIDE DEF r
  <2>4. ASSUME NEW t \in DoFcc(r, f) PROVE Kin(s, Unwound(t, r.within))
    <3>1. Kin(s, t)
      BY <1>1, <2>2, KinDoFcc, KinTrans
    <3>2. Good(t, f, session[m])
      BY <1>1, <2>1, RetriedIsGood DEF r
    <3>3. QED
      BY <3>1, <3>2, KinUnwound, KinTrans DEF Good
  <2>5. \A t \in set : Kin(s, t)
    BY <2>4
  <2> HIDE DEF set
  <2>6. Became(m)
    BY <1>2, <1>9, <2>1, <2>3, <2>5 DEF RetryCopy
  <2>7. QED
    BY <1>9, <2>6 DEF RetryCopy
<1>10. CASE GiveUpCopy(m)
  <2>1. Became(m)
    BY <1>1, <1>2, <1>10, KinSteps DEF GiveUpCopy
  <2>2. QED
    BY <1>10, <2>1 DEF GiveUpCopy
<1>11. CASE Cancel(m)
  <2> DEFINE r == [s EXCEPT !.cancelled = TRUE]
             t == IF r.phase = "copying" THEN Asking(r) ELSE r
  <2>1. r \in Send /\ Kin(s, r) /\ r.phase = s.phase
    BY <1>1 DEF Send, Kin
  <2>2. Becomes(m, {t}) /\ s.phase # "idle"
    BY <1>11, <2>1 DEF Cancel
  <2> HIDE DEF r
  <2>3. Kin(s, t)
    BY <2>1, KinSteps, KinTrans
  <2>4. \A u \in {t} : Kin(s, u)
    BY <2>3
  <2> HIDE DEF t
  <2>5. Became(m)
    BY <1>2, <1>11, <2>2, <2>4 DEF Cancel
  <2>6. QED
    BY <1>11, <2>5 DEF Cancel
<1>12. QED
  BY <1>3, <1>4, <1>5, <1>6, <1>7, <1>8, <1>9, <1>10, <1>11 DEF Continues

-----------------------------------------------------------------------------
(* The preferences, one after the other.                                   *)

LEMMA LeftOrder ==
    /\ PrefOrder \in Lefts /\ Named(PrefOrder) = Listed
    /\ \A l \in Lefts :
        /\ l # <<>> /\ Head(l) \in Listed
        /\ IF Len(l) = 1 THEN Tail(l) = <<>> ELSE Tail(l) \in Lefts
        /\ Named(l) = Named(Tail(l)) \cup {Head(l)}
    /\ Named(<<>>) = {}
<1> DEFINE l4 == <<"SUCCESS", "FAILURE", "DELAY", "NEVER">>
           l3 == <<"FAILURE", "DELAY", "NEVER">>
           l2 == <<"DELAY", "NEVER">>
           l1 == <<"NEVER">>
<1>1. Tail(l4) = l3 /\ Tail(l3) = l2 /\ Tail(l2) = l1 /\ Tail(l1) = <<>>
  OBVIOUS
<1>2. /\ Named(l4) = {"SUCCESS", "FAILURE", "DELAY", "NEVER"}
      /\ Named(l3) = {"FAILURE", "DELAY", "NEVER"}
      /\ Named(l2) = {"DELAY", "NEVER"}
      /\ Named(l1) = {"NEVER"}
      /\ Named(<<>>) = {}
  BY DEF Named
<1>3. /\ Named(l4) = Named(l3) \cup {"SUCCESS"}
      /\ Named(l3) = Named(l2) \cup {"FAILURE"}
      /\ Named(l2) = Named(l1) \cup {"DELAY"}
      /\ Named(l1) = Named(<<>>) \cup {"NEVER"}
  BY <1>2
<1>4. /\ Head(l4) = "SUCCESS" /\ Head(l3) = "FAILURE" /\ Head(l2) = "DELAY"
      /\ Head(l1) = "NEVER"
  OBVIOUS
<1>5. /\ Len(l4) # 1 /\ Len(l3) # 1 /\ Len(l2) # 1 /\ Len(l1) = 1
      /\ l4 # <<>> /\ l3 # <<>> /\ l2 # <<>> /\ l1 # <<>>
  OBVIOUS
<1>6. Lefts = {l4, l3, l2, l1} /\ PrefOrder = l4
  BY DEF Lefts, PrefOrder
<1> HIDE DEF l4, l3, l2, l1
<1>7. Named(PrefOrder) = Listed /\ PrefOrder \in Lefts
  BY <1>2, <1>6 DEF Listed
<1>8. ASSUME NEW l \in Lefts
      PROVE  /\ l # <<>> /\ Head(l) \in Listed
             /\ IF Len(l) = 1 THEN Tail(l) = <<>> ELSE Tail(l) \in Lefts
             /\ Named(l) = Named(Tail(l)) \cup {Head(l)}
  <2>1. l # <<>> /\ Head(l) \in Listed
    BY <1>4, <1>5, <1>6 DEF Listed
  <2>2. IF Len(l) = 1 THEN Tail(l) = <<>> ELSE Tail(l) \in Lefts
    BY <1>1, <1>5, <1>6
  <2>3. Named(l) = Named(Tail(l)) \cup {Head(l)}
    BY ZenonT(30), <1>1, <1>3, <1>4, <1>6
  <2>4. QED
    BY <2>1, <2>2, <2>3
<1>9. QED
  BY <1>2, <1>7, <1>8

\* TypeOK names the same sequences as what is left of PrefOrder.
LEMMA LeftTyped ==
    Lefts \cup {<<>>} \subseteq {SubSeq(PrefOrder, i, 4) : i \in 1..5}
<1>1. /\ PrefOrder \in Seq(Listed) /\ Len(PrefOrder) = 4
      /\ Tail(PrefOrder) = <<"FAILURE", "DELAY", "NEVER">>
      /\ Tail(Tail(PrefOrder)) = <<"DELAY", "NEVER">>
      /\ Tail(Tail(Tail(PrefOrder))) = <<"NEVER">>
      /\ Tail(Tail(Tail(Tail(PrefOrder)))) = <<>>
  BY DEF PrefOrder, Listed
<1>2. SubSeq(PrefOrder, 1, 4) = PrefOrder
  BY <1>1, SubSeqFull
<1>3. ASSUME NEW i \in 1..4
      PROVE  Tail(SubSeq(PrefOrder, i, 4)) = SubSeq(PrefOrder, i + 1, 4)
  <2>1. i \in 1..Len(PrefOrder) /\ 4 \in i..Len(PrefOrder)
    BY <1>1
  <2>2. QED
    BY <1>1, <2>1, HeadTailOfSubSeq
<1>4. /\ SubSeq(PrefOrder, 2, 4) = Tail(PrefOrder)
      /\ SubSeq(PrefOrder, 3, 4) = Tail(Tail(PrefOrder))
      /\ SubSeq(PrefOrder, 4, 4) = Tail(Tail(Tail(PrefOrder)))
      /\ SubSeq(PrefOrder, 5, 4) = Tail(Tail(Tail(Tail(PrefOrder))))
  <2>1. 1 \in 1..4 /\ 2 \in 1..4 /\ 3 \in 1..4 /\ 4 \in 1..4
    OBVIOUS
  <2>2. 1 + 1 = 2 /\ 2 + 1 = 3 /\ 3 + 1 = 4 /\ 4 + 1 = 5
    OBVIOUS
  <2>3. QED
    BY <1>2, <1>3, <2>1, <2>2
<1>5. {1, 2, 3, 4, 5} \subseteq 1..5
  OBVIOUS
<1>6. PrefOrder = <<"SUCCESS", "FAILURE", "DELAY", "NEVER">>
  BY DEF PrefOrder
<1>7. QED
  BY <1>1, <1>2, <1>4, <1>5, <1>6 DEF Lefts

\* Writing one preference makes it what was asked for, and no other.
LEMMA SetPrefAgrees ==
    ASSUME NEW c \in Messages, NEW o, NEW set, Agrees(request[c], prefs, set)
    PROVE  Agrees(request[c], SetPref(c, o), set \cup {o})
  BY DEF Agrees, SetPref

LEMMA AgreedNotify ==
    ASSUME NEW r, NEW p, Agrees(r, p, Listed)
    PROVE  Smtp!NotifyOf(p) = Smtp!NotifyOf(r.options)
<1>1. \A o \in Listed : o \in p <=> o \in r.options
  BY DEF Agrees
<1>2. p \cap {"SUCCESS", "FAILURE", "DELAY"} = r.options \cap {"SUCCESS", "FAILURE", "DELAY"}
  BY <1>1 DEF Listed
<1>3. "NEVER" \in p <=> "NEVER" \in r.options
  BY <1>1 DEF Listed
<1>4. QED
  BY <1>2, <1>3 DEF Smtp!NotifyOf

-----------------------------------------------------------------------------
(* Each step of a call.                                                    *)

SettledNow(c) == Settled(request[c], call[c], left[c], alone[c],
                         fields[c], send[c], session[c], prefs)

\* The calls that a step does not touch.
LEMMA Untouched ==
    ASSUME CallInv, NEW d \in Messages, UNCHANGED <<fields, request>>,
           send'[d] = send[d], session'[d] = session[d],
           call'[d] = call[d], left'[d] = left[d],
           \/ alone'[d] = alone[d] /\ UNCHANGED prefs
           \/ alone'[d] = (alone[d] /\ ~ Active(d))
    PROVE  SettledNow(d)'
<1>1. SettledNow(d) /\ alone'[d] \in BOOLEAN
  BY DEF CallInv, SettledNow
<1>2. CASE alone'[d] = alone[d] /\ UNCHANGED prefs
  BY <1>1, <1>2 DEF SettledNow
<1>3. CASE alone'[d] = (alone[d] /\ ~ Active(d))
  <2>1. alone'[d] => alone[d] /\ ~ Active(d)
    BY <1>3
  <2>2. Written(request[d], call[d], left[d], alone'[d], prefs')
    BY <2>1 DEF Written, Active
  <2>3. AskedFor(request[d], alone'[d], session[d])
    BY <1>1, <2>1 DEF SettledNow, Settled, AskedFor
  <2>4. QED
    BY <1>1, <2>2, <2>3 DEF SettledNow, Settled
<1>4. QED
  BY <1>2, <1>3

LEMMA PrefsTyped ==
    ASSUME CallInv, UNCHANGED <<fields, send, session>>, prefs' \in DsnPrefs
    PROVE  IInv'
  BY DEF CallInv, IInv

LEMMA WritesTyped ==
    ASSUME CallInv, NEW c \in Messages, NEW o \in Option, Writes(c, o)
    PROVE  /\ prefs' \in DsnPrefs
           /\ alone' \in [Messages -> BOOLEAN]
           /\ alone'[c] = alone[c]
           /\ \A d \in Messages \ {c} : alone'[d] = (alone[d] /\ ~ Active(d))
<1>1. prefs \subseteq Option /\ request[c].options \subseteq Option
  BY RemoteAssumption DEF CallInv, IInv, Request
<1>2. prefs' \in DsnPrefs
  BY <1>1, RemoteAssumption DEF Writes, SetPref
<1>3. alone \in [Messages -> BOOLEAN]
  BY DEF CallInv
<1>4. alone' = [d \in Messages |-> alone[d] /\ (d = c \/ ~ Active(d))]
  BY DEF Writes
<1>5. \A d \in Messages : (alone[d] /\ (d = c \/ ~ Active(d))) \in BOOLEAN
  OBVIOUS
<1>6. QED
  BY <1>2, <1>3, <1>4, <1>5

\* What is left to show of a step of call c.
LEMMA OneSettles ==
    ASSUME CallInv, IInv', NEW c \in Messages,
           UNCHANGED <<fields, request>>,
           call' \in [Messages -> Stage], alone' \in [Messages -> BOOLEAN],
           DOMAIN left' = Messages,
           \A d \in Messages \ {c} :
                /\ send'[d] = send[d] /\ session'[d] = session[d]
                /\ call'[d] = call[d] /\ left'[d] = left[d]
                /\ \/ alone'[d] = alone[d] /\ UNCHANGED prefs
                   \/ alone'[d] = (alone[d] /\ ~ Active(d)),
           SettledNow(c)'
    PROVE  CallInv'
<1>1. ASSUME NEW d \in Messages PROVE SettledNow(d)'
  BY Untouched
<1>2. QED
  BY <1>1 DEF CallInv, SettledNow

LEMMA SettledBefore ==
    ASSUME CallInv, NEW c \in Messages
    PROVE  /\ SettledNow(c) /\ request[c] \in Request /\ request[c].dsn \in BOOLEAN
           /\ call[c] \in Stage /\ alone[c] \in BOOLEAN
           /\ DOMAIN call = Messages /\ DOMAIN left = Messages
  BY RemoteAssumption DEF CallInv, SettledNow, Request

LEMMA SettlesBeginCall ==
    ASSUME CallInv, NEW c \in Messages, BeginCall(c)
    PROVE  CallInv'
<1>1. SettledNow(c) /\ DOMAIN call = Messages /\ DOMAIN left = Messages
  BY SettledBefore
<1>2. call[c] = "idle" /\ UNCHANGED <<fields, send, session, request>>
  BY DEF BeginCall
<1>3. Unsent(send[c], session[c]) /\ left[c] = <<>> /\ fields[c].dsn = request[c].dsn
  BY <1>1, <1>2 DEF SettledNow, Settled, Early
<1>4. CASE ~ request[c].dsn
  <2>1. UNCHANGED <<left, prefs, alone>> /\ call' = [call EXCEPT ![c] = "filled"]
    BY <1>4 DEF BeginCall
  <2>2. SettledNow(c)'
    BY <1>1, <1>2, <1>3, <1>4, <2>1 DEF SettledNow, Settled, Early, Written
  <2>3. call' \in [Messages -> Stage] /\ alone' \in [Messages -> BOOLEAN]
    BY <2>1 DEF CallInv, Stage
  <2>4. IInv' /\ DOMAIN left' = Messages
    BY <1>1, <1>2, <2>1, PrefsTyped DEF CallInv, IInv
  <2>5. QED
    BY <1>1, <1>2, <2>1, <2>2, <2>3, <2>4, OneSettles
<1>5. CASE request[c].dsn
  <2>1. Writes(c, "FULL")
    BY <1>5 DEF BeginCall
  <2>2. /\ prefs' \in DsnPrefs
        /\ alone' \in [Messages -> BOOLEAN]
        /\ alone'[c] = alone[c]
        /\ \A d \in Messages \ {c} : alone'[d] = (alone[d] /\ ~ Active(d))
    BY <2>1, WritesTyped DEF Option
  <2>3. IInv'
    BY <1>2, <2>2, PrefsTyped
  <2>4. \/ /\ call' = [call EXCEPT ![c] = "dsn"]
           /\ left' = [left EXCEPT ![c] = PrefOrder]
        \/ call' = [call EXCEPT ![c] = "raised"] /\ UNCHANGED left
    BY <1>5 DEF BeginCall
  <2>5. call' \in [Messages -> Stage] /\ DOMAIN left' = Messages
    BY <1>1, <2>4 DEF CallInv, Stage
  <2>6. \A d \in Messages \ {c} : call'[d] = call[d] /\ left'[d] = left[d]
    BY <1>1, <2>4
  <2>7. AskedFor(request[c], alone[c], session[c])
    BY <1>1 DEF SettledNow, Settled
  <2>8. CASE call'[c] = "dsn" /\ left'[c] = PrefOrder
    <3>1. Agrees(request[c], prefs', Listed \ Named(PrefOrder))
      BY LeftOrder DEF Agrees
    <3>2. Written(request[c], call'[c], left'[c], alone[c], prefs')
      BY <2>8, <3>1 DEF Written
    <3>3. SettledNow(c)'
      BY <1>2, <1>3, <1>5, <2>2, <2>7, <2>8, <3>2, LeftOrder
         DEF SettledNow, Settled, Early
    <3>4. QED
      BY <1>2, <2>2, <2>3, <2>5, <2>6, <3>3, OneSettles
  <2>9. CASE call'[c] = "raised" /\ left'[c] = <<>>
    <3>1. SettledNow(c)'
      BY <1>2, <1>3, <2>2, <2>7, <2>9 DEF SettledNow, Settled, Early, Written
    <3>2. QED
      BY <1>2, <2>2, <2>3, <2>5, <2>6, <3>1, OneSettles
  <2>10. QED
    BY <1>1, <1>3, <2>4, <2>8, <2>9
<1>6. QED
  BY <1>4, <1>5

LEMMA SettlesWritePref ==
    ASSUME CallInv, NEW c \in Messages, WritePref(c)
    PROVE  CallInv'
<1> DEFINE r == request[c]
           l == left[c]
           o == Head(l)
           g == IF Len(l) = 1 THEN "filled" ELSE "dsn"
<1>1. SettledNow(c) /\ DOMAIN call = Messages /\ DOMAIN left = Messages
  BY SettledBefore
<1>2. call[c] = "dsn" /\ UNCHANGED <<fields, send, session, request>> /\ Writes(c, o)
  BY DEF WritePref
<1>3. /\ Unsent(send[c], session[c]) /\ l \in Lefts /\ fields[c].dsn = r.dsn /\ r.dsn
      /\ alone[c] => Agrees(r, prefs, Listed \ Named(l))
      /\ AskedFor(r, alone[c], session[c])
  BY <1>1, <1>2 DEF SettledNow, Settled, Early, Written
<1>4. /\ o \in Listed
      /\ IF Len(l) = 1 THEN Tail(l) = <<>> ELSE Tail(l) \in Lefts
      /\ Named(l) = Named(Tail(l)) \cup {o}
      /\ Named(<<>>) = {}
  BY <1>3, LeftOrder
<1>5. o \in Option
  BY <1>4 DEF Listed, Option
<1>6. /\ prefs' \in DsnPrefs
      /\ alone' \in [Messages -> BOOLEAN]
      /\ alone'[c] = alone[c]
      /\ \A d \in Messages \ {c} : alone'[d] = (alone[d] /\ ~ Active(d))
  BY <1>2, <1>5, WritesTyped
<1>7. IInv'
  BY <1>2, <1>6, PrefsTyped
<1>8. call' = [call EXCEPT ![c] = g] /\ left' = [left EXCEPT ![c] = Tail(l)]
  BY <1>2 DEF WritePref
<1> HIDE DEF g, o
<1>9. alone[c] => Agrees(r, prefs', Listed \ Named(Tail(l)))
  <2> SUFFICES ASSUME alone[c] PROVE Agrees(r, prefs', Listed \ Named(Tail(l)))
    OBVIOUS
  <2>1. prefs' = SetPref(c, o)
    BY <1>2 DEF Writes
  <2>2. Agrees(r, prefs', (Listed \ Named(l)) \cup {o})
    BY <1>3, <2>1, SetPrefAgrees
  <2>3. \A x \in Listed \ Named(Tail(l)) : x \in (Listed \ Named(l)) \cup {o}
    BY <1>4
  <2>4. QED
    BY <2>2, <2>3 DEF Agrees
<1>10. Written(r, g, Tail(l), alone[c], prefs')
  <2>1. g = "filled" => Tail(l) = <<>>
    BY <1>4 DEF g
  <2>2. g \in {"filled", "dsn"}
    BY DEF g
  <2>3. Listed \ {} = Listed
    OBVIOUS
  <2>4. QED
    BY <1>4, <1>9, <2>1, <2>2, <2>3 DEF Written
<1>11. IF g = "dsn" THEN Tail(l) \in Lefts ELSE Tail(l) = <<>>
  BY <1>4 DEF g
<1>12. g \in Early /\ g # "returned" /\ g \in Stage
  BY DEF g, Early, Stage
<1>13. SettledNow(c)'
  <2>1. call'[c] = g /\ left'[c] = Tail(l)
    BY <1>1, <1>8
  <2>2. QED
    BY <1>2, <1>3, <1>6, <1>10, <1>11, <1>12, <2>1 DEF SettledNow, Settled
<1>14. /\ call' \in [Messages -> Stage] /\ DOMAIN left' = Messages
       /\ \A d \in Messages \ {c} : call'[d] = call[d] /\ left'[d] = left[d]
  BY <1>1, <1>8, <1>12 DEF CallInv
<1>15. QED
  BY <1>2, <1>6, <1>7, <1>13, <1>14, OneSettles

LEMMA SettlesPostOrReturn ==
    ASSUME CallInv, NEW c \in Messages, PostSendMsg(c) \/ Return(c)
    PROVE  CallInv'
<1>1. SettledNow(c) /\ DOMAIN call = Messages /\ DOMAIN left = Messages
  BY SettledBefore
<1>2. UNCHANGED <<fields, send, session, prefs, request, left, alone>>
  BY DEF PostSendMsg, Return, sendVars
<1>3. \/ /\ call[c] = "filled"
         /\ \/ call' = [call EXCEPT ![c] = "posted"]
            \/ call' = [call EXCEPT ![c] = "raised"]
      \/ /\ call[c] = "waiting" /\ send[c].told # <<>>
         /\ call' = [call EXCEPT ![c] = "returned"]
  BY DEF PostSendMsg, Return
<1>4. SettledNow(c)'
  BY <1>1, <1>2, <1>3 DEF SettledNow, Settled, Early, Written
<1>5. call' \in [Messages -> Stage]
  BY <1>3 DEF CallInv, Stage
<1>6. \A d \in Messages \ {c} : call'[d] = call[d]
  BY <1>1, <1>3
<1>7. IInv' /\ alone' \in [Messages -> BOOLEAN]
  BY <1>2 DEF CallInv, IInv
<1>8. QED
  BY <1>1, <1>2, <1>4, <1>5, <1>6, <1>7, OneSettles

LEMMA SettlesRunSendMsg ==
    ASSUME CallInv, NEW c \in Messages, RunSendMsg(c)
    PROVE  CallInv'
<1>1. SettledNow(c) /\ DOMAIN call = Messages /\ DOMAIN left = Messages
  BY SettledBefore
<1>2. /\ UNCHANGED <<fields, prefs, request, left, alone>> /\ call[c] = "posted"
      /\ call' = [call EXCEPT ![c] = "waiting"]
      /\ session' = [session EXCEPT ![c] = Smtp!NewSession]
      /\ SendMsg(c, "DeliverNow")
  BY DEF RunSendMsg, SendMsg
<1>3. IInv'
  BY <1>2, NextIInv DEF CallInv, Next, Mode
<1>4. /\ send[c] \in Send /\ DOMAIN send = Messages /\ DOMAIN session = Messages
  BY DEF CallInv, IInv
<1>5. send'[c].mode = "DeliverNow"
  BY <1>2, <1>4 DEF SendMsg, Send
<1>6. session'[c] = Smtp!NewSession
  BY <1>2, <1>4
<1>7. Begins(send'[c], session'[c]) /\ AskedFor(request[c], alone[c], session'[c])
  BY <1>5, <1>6 DEF Begins, AskedFor, Smtp!NewSession
<1>8. SettledNow(c)'
  BY <1>1, <1>2, <1>7 DEF SettledNow, Settled, Early, Written
<1>9. \A d \in Messages \ {c} :
        send'[d] = send[d] /\ session'[d] = session[d] /\ call'[d] = call[d]
  BY <1>1, <1>2, <1>4 DEF SendMsg
<1>10. call' \in [Messages -> Stage] /\ alone' \in [Messages -> BOOLEAN]
  BY <1>2 DEF CallInv, Stage
<1>11. QED
  BY <1>1, <1>2, <1>3, <1>8, <1>9, <1>10, OneSettles

\* The server is asked while the call waits, with preferences that are still as
\* the call left them, or that somebody else has written since.
LEMMA SettlesAsking ==
    ASSUME CallInv, NEW c \in Messages, call[c] = "waiting",
           NEW e, e \in Smtp!Asks(session[c], prefs) \cup Smtp!Delivers(session[c]),
           fields[c].dsn \/ \A i \in DOMAIN e.asked : e.asked[i] = {}
    PROVE  AskedFor(request[c], alone[c], e) /\ (e.delivered => Len(e.asked) = Recipients)
<1> DEFINE d == session[c]
           r == request[c]
<1>1. SettledNow(c) /\ alone[c] \in BOOLEAN
  BY SettledBefore
<1>2. /\ AskedFor(r, alone[c], d) /\ (d.delivered => Len(d.asked) = Recipients)
      /\ alone[c] /\ r.dsn => Agrees(r, prefs, Listed)
      /\ fields[c].dsn = r.dsn
  BY <1>1 DEF SettledNow, Settled, Early, Begins, Written
<1>3. d \in Smtp!Session /\ Recipients \in Nat
  BY SendAssumption DEF CallInv, IInv
<1>4. CASE e \in Smtp!Delivers(d)
  <2>1. e.asked = d.asked /\ Len(d.asked) = Recipients
    BY <1>4 DEF Smtp!Delivers
  <2>2. QED
    BY <1>2, <2>1 DEF AskedFor
<1>5. CASE e \in Smtp!Asks(d, prefs)
  <2>1. PICK n \in {Smtp!NotifyOf(prefs), {}} : e = [d EXCEPT !.asked = Append(@, n)]
    BY <1>5 DEF Smtp!Asks
  <2>2. Len(d.asked) < Recipients
    BY <1>5 DEF Smtp!Asks
  <2>3. d.asked \in Seq(Smtp!Notify) /\ e.asked = Append(d.asked, n)
        /\ e.delivered = d.delivered
    BY <1>3, <2>1 DEF Smtp!Session
  <2>4. Len(d.asked) \in Nat
    BY <2>3
  <2>5. ~ e.delivered
    BY <1>2, <1>3, <2>2, <2>3, <2>4
  <2>6. ASSUME NEW i \in DOMAIN e.asked, e.asked[i] # {}
        PROVE  r.dsn /\ (alone[c] => e.asked[i] = Smtp!NotifyOf(r.options))
    <3>1. r.dsn
      BY <1>2, <2>6
    <3>2. CASE i \in DOMAIN d.asked
      <4>1. e.asked[i] = d.asked[i]
        BY <2>3, <3>2
      <4>2. QED
        BY <1>2, <2>6, <3>2, <4>1 DEF AskedFor
    <3>3. CASE i \notin DOMAIN d.asked
      <4>1. e.asked[i] = n
        BY <2>3, <3>3
      <4>2. n = Smtp!NotifyOf(prefs)
        BY <2>1, <2>6, <4>1
      <4>3. alone[c] => Smtp!NotifyOf(prefs) = Smtp!NotifyOf(r.options)
        BY <1>2, <3>1, AgreedNotify
      <4>4. QED
        BY <3>1, <4>1, <4>2, <4>3
    <3>4. QED
      BY <3>2, <3>3
  <2>7. QED
    BY <2>5, <2>6 DEF AskedFor
<1>6. QED
  BY <1>4, <1>5

LEMMA SettlesContinues ==
    ASSUME CallInv, NEW c \in Messages, SendContinues(c)
    PROVE  CallInv'
<1> DEFINE s == send[c]
           e == session[c]
<1>1. SettledNow(c) /\ call[c] \in Stage
  BY SettledBefore
<1>2. UNCHANGED <<request, call, left, alone>> /\ Continues(c) /\ IInv
  BY DEF SendContinues, callVars, CallInv
<1>3. /\ Became(c)
      /\ \/ session'[c] = e
         \/ /\ s.phase = "mailing"
            /\ session'[c] \in Smtp!Asks(e, prefs) \cup Smtp!Delivers(e)
            /\ \/ fields[c].dsn
               \/ \A i \in DOMAIN session'[c].asked : session'[c].asked[i] = {}
         \/ session'[c] \in Smtp!Reports(e)
  BY <1>2, ContinuesKeeps
<1>4. IInv'
  BY <1>2, NextIInv DEF Next
<1>5. call[c] \in {"waiting", "returned"} /\ Begins(s, e)
  BY <1>1, <1>3 DEF SettledNow, Settled, Early, Unsent, Became, Stage
<1>6. UNCHANGED <<fields, prefs>>
  BY <1>3 DEF Became
<1>7. AskedFor(request[c], alone[c], session'[c])
      /\ (session'[c].delivered => Len(session'[c].asked) = Recipients)
  <2>1. CASE session'[c] = e
    BY <1>1, <1>5, <2>1 DEF SettledNow, Settled, Begins
  <2>2. CASE /\ s.phase = "mailing"
             /\ session'[c] \in Smtp!Asks(e, prefs) \cup Smtp!Delivers(e)
             /\ \/ fields[c].dsn
                \/ \A i \in DOMAIN session'[c].asked : session'[c].asked[i] = {}
    <3>1. s.told = <<>>
      BY <1>2, <2>2 DEF IInv, Good, Untold, Begun
    <3>2. call[c] = "waiting"
      BY <1>1, <1>5, <3>1 DEF SettledNow, Settled
    <3>3. QED
      BY <2>2, <3>2, SettlesAsking
  <2>3. CASE session'[c] \in Smtp!Reports(e)
    <3>1. e \in Smtp!Session
      BY <1>2 DEF IInv
    <3>2. session'[c].asked = e.asked /\ session'[c].delivered = e.delivered
      BY <2>3, <3>1 DEF Smtp!Reports, Smtp!Session
    <3>3. QED
      BY <1>1, <1>5, <3>2 DEF SettledNow, Settled, Begins, AskedFor
  <2>4. QED
    BY <1>3, <2>1, <2>2, <2>3
<1>8. Begins(send'[c], session'[c])
  BY <1>3, <1>5, <1>7 DEF Begins, Became, Kin
<1>9. call[c] = "returned" => send'[c].told # <<>>
  BY <1>1, <1>3 DEF SettledNow, Settled, Became, Kin
<1>10. SettledNow(c)'
  BY <1>1, <1>2, <1>5, <1>6, <1>7, <1>8, <1>9 DEF SettledNow, Settled, Early
<1>11. \A d \in Messages \ {c} : send'[d] = send[d] /\ session'[d] = session[d]
  BY <1>3 DEF Became
<1>12. /\ call' \in [Messages -> Stage] /\ alone' \in [Messages -> BOOLEAN]
       /\ DOMAIN left' = Messages
  BY <1>2 DEF CallInv
<1>13. QED
  BY <1>2, <1>4, <1>6, <1>10, <1>11, <1>12, OneSettles

LEMMA SettlesUserSetsPrefs ==
    ASSUME CallInv, UserSetsPrefs
    PROVE  CallInv'
<1>1. UNCHANGED <<fields, send, session, request, call, left>>
  BY DEF UserSetsPrefs
<1>2. IInv'
  BY <1>1, PrefsTyped, RemoteAssumption DEF UserSetsPrefs
<1>3. alone' = [d \in Messages |-> alone[d] /\ ~ Active(d)]
  BY DEF UserSetsPrefs
<1>4. \A d \in Messages : alone'[d] = (alone[d] /\ ~ Active(d))
  BY <1>3
<1>5. \A d \in Messages : (alone[d] /\ ~ Active(d)) \in BOOLEAN
  OBVIOUS
<1>6. alone' \in [Messages -> BOOLEAN]
  BY <1>3, <1>5
<1>7. \A d \in Messages : SettledNow(d)'
  BY <1>1, <1>4, Untouched
<1>8. QED
  BY <1>1, <1>2, <1>6, <1>7 DEF CallInv, SettledNow

LEMMA InitCallInv == RemoteInit => CallInv
<1> SUFFICES ASSUME RemoteInit PROVE CallInv
  OBVIOUS
<1>1. IInv
  BY InitIInv DEF RemoteInit
<1>2. ASSUME NEW c \in Messages PROVE SettledNow(c)
  <2>1. /\ call[c] = "idle" /\ left[c] = <<>> /\ fields[c].dsn = request[c].dsn
    BY DEF RemoteInit
  <2>2. send[c] = NewSend(fields[c]) /\ session[c] = Smtp!NewSession
    BY DEF RemoteInit, Init
  <2>3. Unsent(send[c], session[c]) /\ AskedFor(request[c], alone[c], session[c])
    BY <2>2 DEF Unsent, AskedFor, NewSend, Smtp!NewSession
  <2>4. QED
    BY <2>1, <2>3 DEF SettledNow, Settled, Early, Written
<1>3. QED
  BY <1>1, <1>2 DEF CallInv, SettledNow, RemoteInit, Stage

LEMMA NextCallInv == CallInv /\ [RemoteNext]_remoteVars => CallInv'
<1> SUFFICES ASSUME CallInv, [RemoteNext]_remoteVars PROVE CallInv'
  OBVIOUS
<1>1. CASE UNCHANGED remoteVars
  BY <1>1 DEF CallInv, IInv, remoteVars, sendVars, callVars
<1>2. ASSUME NEW c \in Messages, BeginCall(c) PROVE CallInv'
  BY <1>2, SettlesBeginCall
<1>3. ASSUME NEW c \in Messages, WritePref(c) PROVE CallInv'
  BY <1>3, SettlesWritePref
<1>4. ASSUME NEW c \in Messages, PostSendMsg(c) \/ Return(c) PROVE CallInv'
  BY <1>4, SettlesPostOrReturn
<1>5. ASSUME NEW c \in Messages, RunSendMsg(c) PROVE CallInv'
  BY <1>5, SettlesRunSendMsg
<1>6. ASSUME NEW c \in Messages, SendContinues(c) PROVE CallInv'
  BY <1>6, SettlesContinues
<1>7. CASE UserSetsPrefs
  BY <1>7, SettlesUserSetsPrefs
<1>8. QED
  BY <1>1, <1>2, <1>3, <1>4, <1>5, <1>6, <1>7 DEF RemoteNext

LEMMA CallInvariant == RemoteSpec => []CallInv
  BY InitCallInv, NextCallInv, PTL DEF RemoteSpec

-----------------------------------------------------------------------------
(* The properties.                                                         *)

\* Every variable has its type, and SetDSNProperties is left with nothing to write.
THEOREM RemoteTypeCorrect == RemoteSpec => []RemoteTypeOK
<1>1. CallInv => RemoteTypeOK
  <2> SUFFICES ASSUME CallInv PROVE RemoteTypeOK
    OBVIOUS
  <2>1. TypeOK
    BY IInvTyped DEF CallInv
  <2>2. ASSUME NEW c \in Messages
        PROVE  /\ left[c] \in Lefts \cup {<<>>}
               /\ left[c] # <<>> <=> call[c] = "dsn"
    <3>1. IF call[c] = "dsn" THEN left[c] \in Lefts ELSE left[c] = <<>>
      BY DEF CallInv, Settled
    <3>2. QED
      BY <3>1, LeftOrder
  <2>3. \A c \in Messages : left[c] \in {SubSeq(PrefOrder, i, 4) : i \in 1..5}
    BY <2>2, LeftTyped
  <2>4. QED
    BY <2>1, <2>2, <2>3 DEF RemoteTypeOK, CallInv
<1>2. QED
  BY <1>1, CallInvariant, PTL

\* The server is asked for the notifications that the client of the call wants,
\* as long as nobody else writes the preferences, whatever they were before.
THEOREM AskedAsRequested == RemoteSpec => []DsnAsRequested
<1>1. CallInv => DsnAsRequested
  BY DEF CallInv, Settled, AskedFor, DsnAsRequested
<1>2. QED
  BY <1>1, CallInvariant, PTL

\* A call that raised has sent nothing; one that returned has told its client, and
\* the truth.
THEOREM CallsSettle == RemoteSpec => []CallSettled
<1>1. CallInv => CallSettled
  <2> SUFFICES ASSUME CallInv, NEW c \in Messages
               PROVE  /\ call[c] \in {"idle", "raised"} => send[c].sends = 0
                      /\ call[c] = "returned" =>
                            /\ send[c].told # <<>>
                            /\ send[c].told[1] = "ok" =>
                                  session[c].delivered /\ Len(session[c].asked) = Recipients
    BY DEF CallSettled
  <2>1. Settled(request[c], call[c], left[c], alone[c], fields[c], send[c], session[c], prefs)
    BY DEF CallInv
  <2>2. call[c] \in {"idle", "raised"} => send[c].sends = 0
    BY <2>1 DEF Settled, Early, Unsent
  <2>3. ASSUME call[c] = "returned", send[c].told[1] = "ok"
        PROVE  session[c].delivered /\ Len(session[c].asked) = Recipients
    <3>1. Begins(send[c], session[c]) /\ send[c].told # <<>>
      BY <2>1, <2>3 DEF Settled, Early
    <3>2. Good(send[c], fields[c], session[c]) /\ fields[c].to
      BY RemoteAssumption DEF CallInv, IInv
    <3>3. send[c].told = <<"failed">> \/ SentBy(send[c], fields[c], session[c])
      BY <3>1, <3>2 DEF Good, ToldTruly, Begins
    <3>4. send[c].told # <<"failed">>
      BY <2>3
    <3>5. QED
      BY <3>1, <3>2, <3>3, <3>4 DEF SentBy, Begins
  <2>4. call[c] = "returned" => send[c].told # <<>>
    BY <2>1 DEF Settled
  <2>5. QED
    BY <2>2, <2>3, <2>4
<1>2. QED
  BY <1>1, CallInvariant, PTL
=============================================================================
