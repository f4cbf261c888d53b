------------------------- MODULE MessageSendProofs -------------------------
(***************************************************************************)
(* Proofs about MessageSend, for any messages, kinds of messages, numbers  *)
(* of recipients and of copies tried again.                                *)
(***************************************************************************)
EXTENDS MessageSend, TLAPS

(***************************************************************************)
(* The invariant is one about each message: a predicate of its record s,   *)
(* its fields f and its session e.                                         *)
(***************************************************************************)

\* It has gone where it was addressed to.
SentBy(s, f, e) == /\ f.to => e.delivered
                   /\ f.newsgroups => s.posted

Cheerful(told) == "failed" \notin {told[i] : i \in DOMAIN told}

\* The calls of OnStopSending that there may have been, with room for more.
Told(s, f, more) ==
    Len(s.told) + more <= IF f.fcc = "folder" THEN 1 ELSE 2 + s.retries

Begun == {"preparing", "posting", "mailing"}

\* Nobody has been told anything while the message is on its way.
Untold(s, f) ==
    s.phase \in Begun => /\ s.told = <<>>
                         /\ s.second = f.fcc2
                         /\ s.stopped = "none"

\* Which ways lead to delivery: news come before mail.
OnItsWay(s, f) ==
    /\ s.phase # "idle" => s.mode \in Mode
    /\ s.phase = "copying" => s.target \in Folder
    /\ s.phase \in {"posting", "mailing"} => s.mode = "DeliverNow"
    /\ s.phase = "mailing" /\ f.newsgroups => s.posted

\* A message that is sent is copied when it has been delivered, and not before.
CopiedWhenSent(s, f, e) ==
    s.phase \in {"copying", "asking"} =>
        /\ Cheerful(s.told)
        /\ s.mode = "DeliverNow" => SentBy(s, f, e)

ToldTruly(s, f, e) ==
    s.mode = "DeliverNow" /\ s.told # <<>> =>
        \/ s.told = <<"failed">>
        \/ SentBy(s, f, e) /\ Cheerful(s.told)

ClosedKept(s, f, e) ==
    ~ s.window /\ (s.retries = 0 \/ s.mode = "DeliverNow") =>
        IF s.mode = "QueueForLater" THEN "Unsent" \in s.folders ELSE SentBy(s, f, e)

\* The copy in the folder of the mode is in folders.
MainCopy(s, f, folders) ==
    IF s.mode = "DeliverNow" THEN f.fcc = "folder" => "Sent" \in folders
                             ELSE MagicFolder(s.mode) \in folders

\* When the copy under way has ended, what is not there is still to come.
FiledNext(s, f) ==
    s.phase = "copying" /\ s.retries = 0 =>
        /\ f.fcc2 => s.second \/ "Second" \in s.folders \cup {s.target}
        /\ MainCopy(s, f, s.folders \cup {s.target})

StoppedLast(s) == s.stopped # "none" => s.phase = "idle"

Filed(s, f) ==
    s.stopped = "ok" /\ s.retries = 0 =>
        /\ s.mode \in Mode
        /\ f.fcc2 => "Second" \in s.folders
        /\ IF s.mode = "SaveAsDraft" THEN s.draft \/ "Drafts" \in s.folders
                                     ELSE MainCopy(s, f, s.folders)

Good(s, f, e) ==
    /\ s \in Send
    /\ Told(s, f, 0)
    /\ Untold(s, f)
    /\ OnItsWay(s, f)
    /\ CopiedWhenSent(s, f, e)
    /\ ToldTruly(s, f, e)
    /\ ClosedKept(s, f, e)
    /\ FiledNext(s, f)
    /\ StoppedLast(s)
    /\ Filed(s, f)

IInv ==
    /\ fields \in [Messages -> Fields]
    /\ DOMAIN send = Messages
    /\ send \in [Messages -> Send]
    /\ session \in [Messages -> Smtp!Session]
    /\ prefs \in DsnPrefs
    /\ \A m \in Messages : Good(send[m], fields[m], session[m])

\* What DoFcc and NotifyListenerOnStopCopy find: the message has been delivered,
\* if it was to be; the listener has yet to hear that copying is done.
Copyable(s, f, e) ==
    /\ s \in Send
    /\ s.mode \in Mode
    /\ s.stopped = "none"
    /\ Cheerful(s.told)
    /\ s.mode = "DeliverNow" => SentBy(s, f, e)
    /\ ClosedKept(s, f, e)

-----------------------------------------------------------------------------
LEMMA AppendOk ==
    ASSUME NEW told \in Seq({"ok", "failed"}), Cheerful(told)
    PROVE  LET longer == Append(told, "ok")
           IN  /\ longer \in Seq({"ok", "failed"})
               /\ longer # <<>>
               /\ Len(longer) = Len(told) + 1
               /\ Cheerful(longer)
  BY DEF Cheerful

\* What the listener does to a record leaves one.
LEMMA ListenerTyped ==
    ASSUME NEW s \in Send, NEW told \in Seq({"ok", "failed"}), NEW window \in BOOLEAN,
           NEW draft \in BOOLEAN, NEW folders \in SUBSET Folder
    PROVE  /\ [s EXCEPT !.told = told, !.window = window, !.draft = draft] \in Send
           /\ [s EXCEPT !.window = window] \in Send
           /\ [s EXCEPT !.window = window, !.deleteDraft = TRUE,
                        !.draft = draft] \in Send
           /\ [s EXCEPT !.deleteDraft = TRUE, !.draft = draft,
                        !.folders = folders] \in Send
<1>1. [s EXCEPT !.told = told, !.window = window, !.draft = draft] \in Send
  BY DEF Send
<1>2. [s EXCEPT !.window = window] \in Send
  BY DEF Send
<1>3. [s EXCEPT !.window = window, !.deleteDraft = TRUE, !.draft = draft] \in Send
  BY DEF Send
<1>4. [s EXCEPT !.deleteDraft = TRUE, !.draft = draft, !.folders = folders] \in Send
  BY DEF Send
<1>5. QED
  BY <1>1, <1>2, <1>3, <1>4

\* A copy may be started, or asked about, from wherever it is due.
LEMMA CopyingIsGood ==
    ASSUME NEW f \in Field, NEW e, NEW s, Copyable(s, f, e), Told(s, f, 0),
           NEW folder \in Folder,
           s.retries = 0 =>
              /\ f.fcc2 => s.second \/ "Second" \in s.folders \cup {folder}
              /\ MainCopy(s, f, s.folders \cup {folder}),
           NEW t \in Copying(s, folder)
    PROVE  Good(t, f, e)
<1>1. t = [s EXCEPT !.phase = "copying", !.target = folder, !.within = "callback"]
  BY DEF Copying
<1>2. t \in Send
  BY <1>1 DEF Copyable, Send, Phase
<1>3. /\ t.mode = s.mode /\ t.told = s.told /\ t.stopped = "none"
      /\ t.retries = s.retries /\ t.folders = s.folders /\ t.second = s.second
      /\ t.phase = "copying" /\ t.target = folder /\ t.posted = s.posted
      /\ t.window = s.window
  BY <1>1 DEF Copyable, Send
<1>4. QED
  BY <1>2, <1>3 DEF Good, Told, Untold, Begun, OnItsWay, CopiedWhenSent, ToldTruly,
       ClosedKept, FiledNext, StoppedLast, Filed, Copyable, SentBy, MainCopy

LEMMA AskingIsGood ==
    ASSUME NEW f \in Field, NEW e, NEW s, Copyable(s, f, e), Told(s, f, 0)
    PROVE  Good(Asking(s), f, e) /\ Good([Asking(s) EXCEPT !.within = "deliver"], f, e)
<1> DEFINE t == Asking(s)
           u == [t EXCEPT !.within = "deliver"]
<1>1. t \in Send /\ u \in Send
  BY DEF Copyable, Send, Phase, Asking
<1>2. /\ t.mode = s.mode /\ t.told = s.told /\ t.stopped = "none"
      /\ t.retries = s.retries /\ t.folders = s.folders
      /\ t.phase = "asking" /\ t.posted = s.posted /\ t.window = s.window
  BY DEF Copyable, Send, Asking
<1>3. /\ u.mode = s.mode /\ u.told = s.told /\ u.stopped = "none"
      /\ u.retries = s.retries /\ u.folders = s.folders
      /\ u.phase = "asking" /\ u.posted = s.posted /\ u.window = s.window
  BY DEF Copyable, Send, Asking
<1> HIDE DEF t, u
<1>4. Good(t, f, e)
  BY <1>1, <1>2 DEF Good, Told, Untold, Begun, OnItsWay, CopiedWhenSent, ToldTruly,
       ClosedKept, FiledNext, StoppedLast, Filed, Copyable, SentBy
<1>5. Good(u, f, e)
  BY <1>1, <1>3 DEF Good, Told, Untold, Begun, OnItsWay, CopiedWhenSent, ToldTruly,
       ClosedKept, FiledNext, StoppedLast, Filed, Copyable, SentBy
<1>6. QED
  BY <1>4, <1>5 DEF t, u

\* The listener hears that the copy failed.
LEMMA CopyFailedIsGood ==
    ASSUME NEW f \in Field, NEW e, NEW s, Copyable(s, f, e), Told(s, f, 0)
    PROVE  Good(OnStopCopy(s, "failed"), f, e)
<1> DEFINE t == OnStopCopy(s, "failed")
<1>1. t \in Send
  BY DEF Copyable, Send, Phase, OnStopCopy
<1>2. /\ t.mode = s.mode /\ t.told = s.told /\ t.stopped = "failed"
      /\ t.retries = s.retries /\ t.folders = s.folders
      /\ t.phase = "idle" /\ t.posted = s.posted /\ t.window = s.window
  BY DEF Copyable, Send, OnStopCopy
<1> HIDE DEF t
<1>3. Good(t, f, e)
  BY <1>1, <1>2 DEF Good, Told, Untold, Begun, OnItsWay, CopiedWhenSent, ToldTruly,
       ClosedKept, FiledNext, StoppedLast, Filed, Copyable, SentBy
<1>4. QED
  BY <1>3 DEF t

\* The listener hears that every copy is there.
LEMMA CopyDoneIsGood ==
    ASSUME NEW f \in Field, NEW e, NEW s, Copyable(s, f, e), Told(s, f, 0),
           s.retries = 0 => /\ f.fcc2 => "Second" \in s.folders
                            /\ MainCopy(s, f, s.folders)
    PROVE  Good(OnStopCopy(s, "ok"), f, e)
<1> DEFINE t == OnStopCopy(s, "ok")
<1>1. s \in Send /\ s.mode \in Mode
  BY DEF Copyable
<1>2. t \in Send
  <2> DEFINE saved == s.mode = "SaveAsDraft" /\ s.target = "Drafts"
             r == [s EXCEPT !.stopped = "ok", !.phase = "idle", !.within = "callback"]
             left == IF saved THEN r.folders \ {"Drafts"} ELSE r.folders
  <2>1. r \in Send
    BY <1>1 DEF Send, Phase
  <2>2. \/ t = [r EXCEPT !.window = FALSE]
        \/ t = [r EXCEPT !.window = FALSE, !.deleteDraft = TRUE, !.draft = FALSE]
        \/ t = [r EXCEPT !.deleteDraft = TRUE, !.draft = saved,
                         !.folders = left]
    BY DEF OnStopCopy
  <2>3. saved \in BOOLEAN
    OBVIOUS
  <2> HIDE DEF r, t
  <2>4. r.folders \ {"Drafts"} \in SUBSET Folder /\ r.folders \in SUBSET Folder
    BY <2>1 DEF Send
  <2>5. left \in SUBSET Folder
    BY <2>4
  <2> HIDE DEF saved, left
  <2>6. CASE t = [r EXCEPT !.window = FALSE]
    <3>1. FALSE \in BOOLEAN
      OBVIOUS
    <3>2. QED
      BY <2>1, <2>6, <3>1 DEF Send
  <2>7. CASE t = [r EXCEPT !.window = FALSE, !.deleteDraft = TRUE, !.draft = FALSE]
    BY <2>1, <2>7 DEF Send
  <2>8. CASE t = [r EXCEPT !.deleteDraft = TRUE, !.draft = saved,
                           !.folders = left]
    BY <2>1, <2>3, <2>5, <2>8 DEF Send
  <2>9. QED
    BY <2>2, <2>6, <2>7, <2>8
<1>3. /\ t.mode = s.mode /\ t.told = s.told /\ t.stopped = "ok"
      /\ t.retries = s.retries /\ t.phase = "idle" /\ t.posted = s.posted
  BY <1>1 DEF Send, OnStopCopy
<1>4. CASE s.mode = "DeliverNow"
  <2>1. t.folders = s.folders
    BY <1>1, <1>4 DEF Send, OnStopCopy
  <2>2. QED
    BY <1>2, <1>3, <1>4, <2>1 DEF Good, Told, Untold, Begun, OnItsWay, CopiedWhenSent,
       ToldTruly, ClosedKept, FiledNext, StoppedLast, Filed, Copyable, SentBy, MainCopy
<1>5. CASE s.mode = "QueueForLater"
  <2>1. t.folders = s.folders
    BY <1>1, <1>5 DEF Send, OnStopCopy
  <2>2. QED
    BY <1>2, <1>3, <1>5, <2>1 DEF Good, Told, Untold, Begun, OnItsWay, CopiedWhenSent,
       ToldTruly, ClosedKept, FiledNext, StoppedLast, Filed, Copyable, SentBy, MainCopy,
       MagicFolder
<1>6. CASE s.mode \in {"SaveAsDraft", "SaveAsTemplate"}
  <2>1. /\ t.window = s.window
        /\ \/ t.folders = s.folders
           \/ s.mode = "SaveAsDraft" /\ t.draft /\ t.folders = s.folders \ {"Drafts"}
    BY <1>1, <1>6 DEF Send, OnStopCopy
  <2>2. QED
    BY <1>2, <1>3, <1>6, <2>1 DEF Good, Told, Untold, Begun, OnItsWay, CopiedWhenSent,
       ToldTruly, ClosedKept, FiledNext, StoppedLast, Filed, Copyable, SentBy, MainCopy,
       MagicFolder
<1>7. QED
  BY <1>1, <1>4, <1>5, <1>6 DEF Mode

\* A copy has ended: the second one, or the end.
LEMMA StopCopyIsGood ==
    ASSUME NEW f \in Field, NEW e, NEW s, Copyable(s, f, e), Told(s, f, 0),
           s.retries = 0 => /\ f.fcc2 => s.second \/ "Second" \in s.folders
                            /\ MainCopy(s, f, s.folders),
           NEW t \in StopCopy(s)
    PROVE  Good(t, f, e)
<1>1. CASE s.second
  <2> DEFINE r == [s EXCEPT !.second = FALSE]
  <2>1. /\ r \in Send /\ r.mode = s.mode /\ r.told = s.told /\ r.stopped = s.stopped
        /\ r.retries = s.retries /\ r.folders = s.folders /\ r.posted = s.posted
        /\ r.window = s.window
    BY DEF Copyable, Send
  <2>2. t \in Copying(r, "Second") \/ t = OnStopCopy(r, "failed")
    BY <1>1 DEF StopCopy
  <2> HIDE DEF r
  <2>3. Copyable(r, f, e) /\ Told(r, f, 0)
    BY <2>1 DEF Copyable, ClosedKept, SentBy, Told
  <2>4. r.retries = 0 =>
            /\ f.fcc2 => r.second \/ "Second" \in r.folders \cup {"Second"}
            /\ MainCopy(r, f, r.folders \cup {"Second"})
    BY <2>1 DEF MainCopy
  <2>5. CASE t \in Copying(r, "Second")
    BY <2>3, <2>4, <2>5, CopyingIsGood DEF Folder
  <2>6. CASE t = OnStopCopy(r, "failed")
    BY <2>3, <2>6, CopyFailedIsGood
  <2>7. QED
    BY <2>2, <2>5, <2>6
<1>2. CASE ~ s.second
  <2>1. t = OnStopCopy(s, "ok")
    BY <1>2 DEF StopCopy
  <2>2. QED
    BY <1>2, <2>1, CopyDoneIsGood
<1>3. QED
  BY <1>1, <1>2

LEMMA ToldTyped ==
    ASSUME NEW f \in Field, NEW s \in Send, NEW status \in {"ok", "failed"}
    PROVE  OnStopSending(s, f, status) \in Send
<1> DEFINE told == Append(s.told, status)
           window == s.window /\ f.fcc # "nocopy"
           draft == s.draft /\ ~s.deleteDraft
<1>1. told \in Seq({"ok", "failed"})
  BY DEF Send
<1>2. window \in BOOLEAN /\ draft \in BOOLEAN
  OBVIOUS
<1>3. \/ OnStopSending(s, f, status)
            = [s EXCEPT !.told = told, !.window = window, !.draft = draft]
      \/ OnStopSending(s, f, status) = [s EXCEPT !.told = told, !.phase = "idle"]
  BY DEF OnStopSending
<1> HIDE DEF told, window, draft
<1>4. [s EXCEPT !.told = told, !.phase = "idle"] \in Send
  BY <1>1 DEF Send, Phase
<1>5. [s EXCEPT !.told = told, !.window = window, !.draft = draft] \in Send
  BY <1>1, <1>2, ListenerTyped
<1>6. QED
  BY <1>3, <1>4, <1>5

LEMMA DoFccIsGood ==
    ASSUME NEW f \in Field, NEW e, NEW s, Copyable(s, f, e),
           Told(s, f, IF f.fcc = "folder" THEN 0 ELSE 1),
           s.retries = 0 => s.mode = "DeliverNow" /\ (f.fcc2 => s.second),
           NEW t \in DoFcc(s, f)
    PROVE  Good(t, f, e)
<1>1. CASE f.fcc = "folder"
  <2>1. t \in Copying(s, "Sent") \/ t = Asking(s)
    BY <1>1 DEF DoFcc
  <2>2. Told(s, f, 0)
    BY <1>1 DEF Told
  <2>3. CASE t \in Copying(s, "Sent")
    BY <2>2, <2>3, CopyingIsGood DEF Folder, MainCopy
  <2>4. CASE t = Asking(s)
    BY <2>2, <2>4, AskingIsGood
  <2>5. QED
    BY <2>1, <2>3, <2>4
<1>2. CASE f.fcc # "folder"
  <2> DEFINE r == OnStopSending(s, f, "ok")
  <2>1. s \in Send
    BY DEF Copyable
  <2>2. r \in Send
    BY <2>1, ToldTyped
  <2>3. /\ r.mode = s.mode /\ r.told = Append(s.told, "ok") /\ r.stopped = s.stopped
        /\ r.retries = s.retries /\ r.folders = s.folders /\ r.second = s.second
        /\ r.posted = s.posted /\ r.window = (s.window /\ f.fcc # "nocopy")
    BY <2>1 DEF OnStopSending, Send
  <2> HIDE DEF r
  <2>4. s.told \in Seq({"ok", "failed"}) /\ s.retries \in Nat
    BY <2>1 DEF Send
  <2>5. Cheerful(r.told) /\ Len(r.told) = Len(s.told) + 1
    BY <2>3, <2>4, AppendOk DEF Copyable
  <2>6. Told(r, f, 0)
    BY <1>2, <2>3, <2>4, <2>5 DEF Told
  <2>7. Copyable(r, f, e)
    BY <2>2, <2>3, <2>5 DEF Copyable, ClosedKept, SentBy
  <2>8. t \in StopCopy(r)
    BY <1>2 DEF DoFcc, r
  <2>9. QED
    BY <1>2, <2>3, <2>6, <2>7, <2>8, StopCopyIsGood DEF MainCopy
<1>3. QED
  BY <1>1, <1>2

-----------------------------------------------------------------------------
(* The end of delivery.                                                    *)

LEMMA DeliveredIsGood ==
    ASSUME NEW f \in Field, NEW e, NEW s, Good(s, f, e), s.mode = "DeliverNow",
           s.phase \in {"posting", "mailing"}, SentBy(s, f, e),
           NEW t \in Delivered(s, f)
    PROVE  Good(t, f, e)
<1> DEFINE r == OnStopSending(s, f, "ok")
<1>1. /\ s \in Send /\ s.told = <<>> /\ s.told \in Seq({"ok", "failed"})
      /\ s.second = f.fcc2 /\ s.stopped = "none" /\ s.retries \in Nat
  BY DEF Good, Untold, Begun, Send
<1>2. r \in Send
  BY <1>1, ToldTyped
<1>3. /\ r.mode = s.mode /\ r.told = Append(s.told, "ok") /\ r.stopped = s.stopped
      /\ r.retries = s.retries /\ r.second = s.second /\ r.posted = s.posted
  BY <1>1 DEF OnStopSending, Send
<1> HIDE DEF r
<1>4. Cheerful(s.told) /\ Len(s.told) = 0
  BY <1>1 DEF Cheerful
<1>5. Cheerful(r.told) /\ Len(r.told) = 1
  <2>1. s.told \in Seq({"ok", "failed"})
    BY <1>1
  <2>2. Cheerful(r.told) /\ Len(r.told) = Len(s.told) + 1
    BY <2>1, <1>3, <1>4, AppendOk
  <2>3. QED
    BY <2>2, <1>4
<1>6. Told(r, f, IF f.fcc = "folder" THEN 0 ELSE 1)
  BY <1>1, <1>3, <1>5 DEF Told
<1>7. Copyable(r, f, e)
  BY <1>1, <1>2, <1>3, <1>5 DEF Copyable, ClosedKept, SentBy, Mode
<1>8. r.retries = 0 => r.mode = "DeliverNow" /\ (f.fcc2 => r.second)
  BY <1>1, <1>3
<1>9. t \in DoFcc(r, f)
  BY DEF Delivered, r
<1>10. QED
  BY <1>6, <1>7, <1>8, <1>9, DoFccIsGood

LEMMA FailedIsGood ==
    ASSUME NEW f \in Field, NEW e, NEW s, Good(s, f, e), s.mode = "DeliverNow",
           s.phase \in {"posting", "mailing"}, NEW t \in DeliveryFailed(s, f)
    PROVE  Good(t, f, e)
<1>1. /\ s \in Send /\ s.told = <<>> /\ s.stopped = "none" /\ s.retries \in Nat
      /\ ClosedKept(s, f, e)
  BY DEF Good, Untold, Begun, Send
<1>2. t = OnStopSending(s, f, "failed")
  BY DEF DeliveryFailed
<1>3. t \in Send
  BY <1>1, <1>2, ToldTyped
<1>4. /\ t.mode = s.mode /\ t.told = <<"failed">> /\ t.stopped = "none"
      /\ t.retries = s.retries /\ t.folders = s.folders /\ t.posted = s.posted
      /\ t.phase = "idle" /\ t.window = s.window
  BY <1>1, <1>2 DEF OnStopSending, Send
<1>5. Len(t.told) = 1
  BY <1>4
<1>6. Told(t, f, 0) /\ ToldTruly(t, f, e) /\ ClosedKept(t, f, e)
  <2>1. Told(t, f, 0)
    BY <1>1, <1>4, <1>5 DEF Told
  <2>2. ToldTruly(t, f, e)
    BY <1>4 DEF ToldTruly
  <2>3. ClosedKept(t, f, e)
    BY <1>1, <1>4 DEF ClosedKept, SentBy
  <2>4. QED
    BY <2>1, <2>2, <2>3
<1>7. QED
  BY <1>1, <1>3, <1>4, <1>6 DEF Good, Untold, Begun, OnItsWay, CopiedWhenSent,
     FiledNext, StoppedLast, Filed

\* A send that ends without a word, or that begins to post or to mail.
LEMMA SilentIsGood ==
    ASSUME NEW f \in Field, NEW e, NEW s, Good(s, f, e), s.phase \in Begun,
           NEW phase \in {"idle", "stuck"}, NEW silent \in BOOLEAN,
           NEW t, t = [s EXCEPT !.silent = silent, !.phase = phase]
    PROVE  Good(t, f, e)
<1>1. t \in Send
  BY DEF Good, Send, Phase
<1>2. /\ t.mode = s.mode /\ t.told = s.told /\ t.stopped = s.stopped
      /\ t.retries = s.retries /\ t.folders = s.folders /\ t.posted = s.posted
      /\ t.phase = phase /\ t.window = s.window /\ t.draft = s.draft
  BY DEF Good, Send
<1>3. QED
  BY <1>1, <1>2 DEF Good, Told, Untold, Begun, OnItsWay, CopiedWhenSent,
     ToldTruly, ClosedKept, FiledNext, StoppedLast, Filed, SentBy, MainCopy

LEMMA UnderWayIsGood ==
    ASSUME NEW f \in Field, NEW e, NEW s, Good(s, f, e), s.phase \in Begun,
           s.mode = "DeliverNow", NEW phase \in {"posting", "mailing"},
           phase = "mailing" /\ f.newsgroups => s.posted
    PROVE  Good([s EXCEPT !.phase = phase], f, e)
<1> DEFINE t == [s EXCEPT !.phase = phase]
<1>1. t \in Send
  BY DEF Good, Send, Phase
<1>2. /\ t.mode = s.mode /\ t.told = s.told /\ t.stopped = s.stopped
      /\ t.retries = s.retries /\ t.folders = s.folders /\ t.posted = s.posted
      /\ t.phase = phase /\ t.window = s.window /\ t.draft = s.draft
      /\ t.second = s.second
  BY DEF Good, Send
<1> HIDE DEF t
<1>3. Good(t, f, e)
  BY <1>1, <1>2 DEF Good, Told, Untold, Begun, OnItsWay, CopiedWhenSent,
     ToldTruly, ClosedKept, FiledNext, StoppedLast, Filed, SentBy, MainCopy, Mode
<1>4. QED
  BY <1>3 DEF t

LEMMA SilentlyIsGood ==
    ASSUME NEW f \in Field, NEW e, NEW s, Good(s, f, e), s.phase \in Begun
    PROVE  Good(Silently(s, f), f, e)
<1>1. PICK phase \in {"idle", "stuck"} :
            Silently(s, f) = [s EXCEPT !.silent = TRUE, !.phase = phase]
  BY DEF Silently
<1>2. QED
  BY <1>1, SilentIsGood

LEMMA DeliverMessageIsGood ==
    ASSUME NEW f \in Field, NEW e, NEW s, Good(s, f, e), s.phase = "preparing",
           NEW t \in DeliverMessage(s, f)
    PROVE  Good(t, f, e)
<1>1. s \in Send /\ s.mode \in Mode /\ s.told = <<>> /\ s.stopped = "none"
  BY DEF Good, Untold, OnItsWay, Begun
<1>2. CASE t = Silently(s, f)
  BY <1>2, SilentlyIsGood DEF Begun
<1>3. CASE s.mode # "DeliverNow" /\ t \in SendToMagicFolder(s)
  <2>1. Copyable(s, f, e) /\ Told(s, f, 0)
    BY <1>1, <1>3 DEF Copyable, Cheerful, Good
  <2>2. MagicFolder(s.mode) \in Folder
    BY <1>1, <1>3 DEF MagicFolder, Folder, Mode
  <2>3. s.second = f.fcc2
    BY DEF Good, Untold, Begun
  <2>4. CASE t \in Copying(s, MagicFolder(s.mode))
    BY <1>3, <2>1, <2>2, <2>3, <2>4, CopyingIsGood DEF MainCopy
  <2>5. CASE t = [Asking(s) EXCEPT !.within = "deliver"]
    BY <2>1, <2>5, AskingIsGood
  <2>6. QED
    BY <1>3, <2>4, <2>5 DEF SendToMagicFolder
<1>4. CASE s.mode = "DeliverNow" /\ t = [s EXCEPT !.phase = Delivery(f)]
  <2>1. Delivery(f) \in {"posting", "mailing"} /\ (Delivery(f) = "mailing" => ~ f.newsgroups)
    BY DEF Delivery
  <2>2. QED
    BY <1>4, <2>1, UnderWayIsGood DEF Begun
<1>5. QED
  BY <1>2, <1>3, <1>4 DEF DeliverMessage

\* The newsgroups have the message.
LEMMA PostedIsGood ==
    ASSUME NEW f \in Field, NEW e, NEW s, Good(s, f, e), s.phase = "posting"
    PROVE  LET t == [s EXCEPT !.posted = TRUE]
           IN  Good(t, f, e) /\ t.phase = "posting" /\ t.posted
<1> DEFINE t == [s EXCEPT !.posted = TRUE]
<1>1. t \in Send
  BY DEF Good, Send
<1>2. /\ t.mode = s.mode /\ t.told = s.told /\ t.stopped = s.stopped
      /\ t.retries = s.retries /\ t.folders = s.folders /\ t.posted
      /\ t.phase = s.phase /\ t.window = s.window /\ t.draft = s.draft
      /\ t.second = s.second
  BY DEF Good, Send
<1> HIDE DEF t
<1>3. Good(t, f, e)
  BY <1>1, <1>2 DEF Good, Told, Untold, Begun, OnItsWay, CopiedWhenSent,
     ToldTruly, ClosedKept, FiledNext, StoppedLast, Filed, SentBy, MainCopy
<1>4. QED
  BY <1>2, <1>3 DEF t

LEMMA NewsExitIsGood ==
    ASSUME NEW f \in Field, NEW e, NEW s, Good(s, f, e), s.phase = "posting", s.posted,
           NEW t \in DeliverAsNewsExit(s, f)
    PROVE  Good(t, f, e)
<1>1. s.mode = "DeliverNow"
  BY DEF Good, OnItsWay
<1>2. CASE f.to
  <2>1. \/ t = [s EXCEPT !.phase = "mailing"]
        \/ t = [s EXCEPT !.phase = "stuck", !.silent = TRUE]
    BY <1>2 DEF DeliverAsNewsExit, MailAlso
  <2>2. CASE t = [s EXCEPT !.phase = "mailing"]
    BY <1>1, <2>2, UnderWayIsGood DEF Begun
  <2>3. CASE t = [s EXCEPT !.phase = "stuck", !.silent = TRUE]
    <3>1. t = [s EXCEPT !.silent = TRUE, !.phase = "stuck"]
      BY <2>3 DEF Good, Send
    <3>2. QED
      BY <3>1, SilentIsGood DEF Begun
  <2>4. QED
    BY <2>1, <2>2, <2>3
<1>3. CASE ~ f.to
  <2>1. t \in Delivered(s, f)
    BY <1>3 DEF DeliverAsNewsExit
  <2>2. SentBy(s, f, e)
    BY <1>3 DEF SentBy
  <2>3. QED
    BY <1>1, <2>1, <2>2, DeliveredIsGood
<1>4. QED
  BY <1>2, <1>3

-----------------------------------------------------------------------------
(* Copies.                                                                 *)

LEMMA CopyEndsIsGood ==
    ASSUME NEW f \in Field, NEW e, NEW s, Good(s, f, e), s.phase = "copying",
           NEW t \in StopCopy([s EXCEPT !.folders = @ \cup {s.target}]) \cup {Asking(s)}
    PROVE  Good(t, f, e)
<1>1. /\ s \in Send /\ s.mode \in Mode /\ s.stopped = "none" /\ Told(s, f, 0)
      /\ Cheerful(s.told) /\ ClosedKept(s, f, e) /\ FiledNext(s, f)
      /\ s.mode = "DeliverNow" => SentBy(s, f, e)
  <2>1. s \in Send /\ s.mode \in Mode /\ Told(s, f, 0) /\ Cheerful(s.told)
    BY DEF Good, OnItsWay, CopiedWhenSent
  <2>2. s.stopped = "none"
    BY <2>1 DEF Good, StoppedLast
  <2>3. QED
    BY <2>1, <2>2 DEF Good, CopiedWhenSent
<1>2. CASE t = Asking(s)
  BY <1>1, <1>2, AskingIsGood DEF Copyable
<1>3. CASE t \in StopCopy([s EXCEPT !.folders = @ \cup {s.target}])
  <2> DEFINE r == [s EXCEPT !.folders = @ \cup {s.target}]
  <2>1. s.target \in Folder
    BY DEF Good, OnItsWay
  <2>2. r \in Send
    BY <1>1, <2>1 DEF Send
  <2>3. /\ r.mode = s.mode /\ r.told = s.told /\ r.stopped = s.stopped
        /\ r.retries = s.retries /\ r.folders = s.folders \cup {s.target}
        /\ r.posted = s.posted /\ r.second = s.second /\ r.window = s.window
    BY <1>1 DEF Send
  <2>4. t \in StopCopy(r)
    BY <1>3
  <2> HIDE DEF r
  <2>5. Copyable(r, f, e) /\ Told(r, f, 0)
    BY <1>1, <2>2, <2>3 DEF Copyable, ClosedKept, SentBy, Told
  <2>6. r.retries = 0 => /\ f.fcc2 => r.second \/ "Second" \in r.folders
                         /\ MainCopy(r, f, r.folders)
    BY <1>1, <2>3 DEF FiledNext, MainCopy
  <2>7. QED
    BY <2>4, <2>5, <2>6, StopCopyIsGood
<1>4. QED
  BY <1>2, <1>3

\* What is left to do after a prompt changes nothing but the phase.
LEMMA UnwoundIsGood ==
    ASSUME NEW f \in Field, NEW e, NEW t, Good(t, f, e), t.retries # 0, NEW within
    PROVE  Good(Unwound(t, within), f, e)
<1>1. t \in Send /\ Told(t, f, 0) /\ ClosedKept(t, f, e)
  BY DEF Good
<1>2. CASE t.phase \notin {"asking", "copying"}
  BY <1>2 DEF Unwound
<1>3. CASE t.phase \in {"asking", "copying"}
  <2>1. Copyable(t, f, e)
    BY <1>1, <1>3 DEF Copyable, Good, CopiedWhenSent, OnItsWay, StoppedLast
  <2>2. Good(Asking(t), f, e)
    BY <1>1, <2>1, AskingIsGood
  <2>3. Good([t EXCEPT !.within = "doomed"], f, e)
    <3> DEFINE u == [t EXCEPT !.within = "doomed"]
    <3>1. u \in Send
      BY <1>1 DEF Send
    <3>2. /\ u.mode = t.mode /\ u.told = t.told /\ u.stopped = t.stopped
          /\ u.retries = t.retries /\ u.folders = t.folders /\ u.posted = t.posted
          /\ u.phase = t.phase /\ u.window = t.window /\ u.draft = t.draft
          /\ u.second = t.second /\ u.target = t.target
      BY <1>1 DEF Send
    <3> HIDE DEF u
    <3>3. Good(u, f, e)
      BY <1>3, <3>1, <3>2 DEF Good, Told, Untold, Begun, OnItsWay, CopiedWhenSent,
         ToldTruly, ClosedKept, FiledNext, StoppedLast, Filed, SentBy
    <3>4. QED
      BY <3>3 DEF u
  <2>4. QED
    BY <2>2, <2>3 DEF Unwound
<1>4. QED
  BY <1>2, <1>3

\* DoFcc leaves the count of retries alone.
LEMMA DoFccCounts ==
    ASSUME NEW f \in Field, NEW s \in Send, NEW t \in DoFcc(s, f)
    PROVE  t.retries = s.retries
  BY DEF DoFcc, Copying, Asking, StopCopy, OnStopSending, OnStopCopy, Send

\* A copy that is tried again, before the prompts unwind.
LEMMA RetriedIsGood ==
    ASSUME NEW f \in Field, NEW e, NEW s, Good(s, f, e), s.phase = "asking", NEW t,
           t \in DoFcc([s EXCEPT !.progress = FALSE, !.retries = @ + 1], f)
    PROVE  Good(t, f, e) /\ t.retries # 0
<1> DEFINE r == [s EXCEPT !.progress = FALSE, !.retries = @ + 1]
<1>1. /\ s \in Send /\ s.mode \in Mode /\ s.stopped = "none" /\ Told(s, f, 0)
      /\ Cheerful(s.told) /\ ClosedKept(s, f, e)
      /\ s.mode = "DeliverNow" => SentBy(s, f, e)
  BY DEF Good, OnItsWay, CopiedWhenSent, StoppedLast, Send
<1>2. r \in Send
  <2>1. s.retries + 1 \in Nat /\ FALSE \in BOOLEAN
    BY <1>1 DEF Send
  <2>2. QED
    BY <1>1, <2>1 DEF Send
<1>3. /\ r.mode = s.mode /\ r.told = s.told /\ r.stopped = s.stopped
      /\ r.retries = s.retries + 1 /\ r.folders = s.folders /\ r.posted = s.posted
      /\ r.second = s.second /\ r.window = s.window
      /\ s.retries \in Nat /\ Len(s.told) \in Nat
  BY <1>1 DEF Send
<1>4. t \in DoFcc(r, f)
  OBVIOUS
<1> HIDE DEF r
<1>5. Copyable(r, f, e)
  BY <1>1, <1>2, <1>3 DEF Copyable, ClosedKept, SentBy
<1>6. Told(r, f, IF f.fcc = "folder" THEN 0 ELSE 1)
  <2>1. CASE f.fcc = "folder"
    BY <1>1, <1>3, <2>1 DEF Told
  <2>2. CASE f.fcc # "folder"
    BY <1>1, <1>3, <2>2 DEF Told
  <2>3. QED
    BY <2>1, <2>2
<1>7. Good(t, f, e)
  BY <1>3, <1>4, <1>5, <1>6, DoFccIsGood
<1>8. t.retries # 0
  BY <1>2, <1>3, <1>4, DoFccCounts
<1>9. QED
  BY <1>7, <1>8

LEMMA RetryIsGood ==
    ASSUME NEW f \in Field, NEW e, NEW s, Good(s, f, e), s.phase = "asking", NEW t,
           t \in DoFcc([s EXCEPT !.progress = FALSE, !.retries = @ + 1], f),
           NEW within
    PROVE  Good(Unwound(t, within), f, e)
  BY RetriedIsGood, UnwoundIsGood

LEMMA GiveUpIsGood ==
    ASSUME NEW f \in Field, NEW e, NEW s, Good(s, f, e), s.phase = "asking"
    PROVE  Good(OnStopCopy(s, "failed"), f, e)
<1>1. Copyable(s, f, e) /\ Told(s, f, 0)
  BY DEF Good, OnItsWay, CopiedWhenSent, StoppedLast, Copyable
<1>2. QED
  BY <1>1, CopyFailedIsGood

LEMMA CancelIsGood ==
    ASSUME NEW f \in Field, NEW e, NEW s, Good(s, f, e)
    PROVE  LET t == [s EXCEPT !.cancelled = TRUE]
           IN  Good(IF t.phase = "copying" THEN Asking(t) ELSE t, f, e)
<1> DEFINE t == [s EXCEPT !.cancelled = TRUE]
<1>1. t \in Send /\ t.target = s.target
  BY DEF Good, Send
<1>2. /\ t.mode = s.mode /\ t.told = s.told /\ t.stopped = s.stopped
      /\ t.retries = s.retries /\ t.folders = s.folders /\ t.posted = s.posted
      /\ t.phase = s.phase /\ t.window = s.window /\ t.draft = s.draft
      /\ t.second = s.second
  BY DEF Good, Send
<1> HIDE DEF t
<1>3. Good(t, f, e)
  BY <1>1, <1>2 DEF Good, Told, Untold, Begun, OnItsWay, CopiedWhenSent,
     ToldTruly, ClosedKept, FiledNext, StoppedLast, Filed, SentBy, MainCopy
<1>4. CASE t.phase = "copying"
  <2>1. Copyable(t, f, e) /\ Told(t, f, 0)
    BY <1>3, <1>4 DEF Good, OnItsWay, CopiedWhenSent, StoppedLast, Copyable
  <2>2. Good(Asking(t), f, e)
    BY <2>1, AskingIsGood
  <2>3. QED
    BY <1>4, <2>2 DEF t
<1>5. CASE t.phase # "copying"
  BY <1>3, <1>5 DEF t
<1>6. QED
  BY <1>4, <1>5

\* Copies lead to copies, questions and ends.
LEMMA StopCopyPhase ==
    ASSUME NEW s \in Send, NEW t \in StopCopy(s)
    PROVE  t.phase \notin Begun
<1>1. CASE s.second
  <2> DEFINE r == [s EXCEPT !.second = FALSE]
  <2>1. r \in Send
    BY DEF Send
  <2>2. t \in Copying(r, "Second") \/ t = OnStopCopy(r, "failed")
    BY <1>1 DEF StopCopy
  <2> HIDE DEF r
  <2>3. QED
    BY ZenonT(60), <2>1, <2>2 DEF Copying, OnStopCopy, Send, Begun
<1>2. CASE ~ s.second
  <2>1. t = OnStopCopy(s, "ok")
    BY <1>2 DEF StopCopy
  <2>2. QED
    BY <2>1 DEF OnStopCopy, Send, Begun
<1>3. QED
  BY <1>1, <1>2

LEMMA DoFccPhase ==
    ASSUME NEW f \in Field, NEW s \in Send, NEW t \in DoFcc(s, f), NEW within
    PROVE  Unwound(t, within) \in Send => Unwound(t, within).phase \notin Begun
<1>1. t.phase \notin Begun
  <2>1. CASE f.fcc = "folder"
    BY ZenonT(60), <2>1 DEF DoFcc, Copying, Asking, Send, Begun
  <2>2. CASE f.fcc # "folder"
    <3>1. t \in StopCopy(OnStopSending(s, f, "ok"))
      BY <2>2 DEF DoFcc
    <3>2. OnStopSending(s, f, "ok") \in Send
      BY ToldTyped
    <3>3. QED
      BY <3>1, <3>2, StopCopyPhase
  <2>3. QED
    BY <2>1, <2>2
<1>2. QED
  BY <1>1 DEF Unwound, Asking, Send, Begun

-----------------------------------------------------------------------------
(* Sessions, and a new send.                                               *)

\* A session never takes a delivery back.
LEMMA SessionGrows ==
    ASSUME NEW e \in Smtp!Session, NEW p,
           NEW d \in Smtp!Asks(e, p) \cup Smtp!Delivers(e) \cup Smtp!Reports(e)
    PROVE  /\ d \in Smtp!Session
           /\ e.delivered => d.delivered
           /\ d.result = "ok" /\ e.result = "running" => d.delivered
<1>1. CASE d \in Smtp!Asks(e, p)
  <2>1. PICK n \in {Smtp!NotifyOf(p), {}} : d = [e EXCEPT !.asked = Append(@, n)]
    BY <1>1 DEF Smtp!Asks
  <2>2. n \in Smtp!Notify
    BY DEF Smtp!NotifyOf, Smtp!Notify
  <2>3. Append(e.asked, n) \in Seq(Smtp!Notify)
    BY <2>2 DEF Smtp!Session
  <2>4. QED
    BY <2>1, <2>3 DEF Smtp!Session
<1>2. CASE d \in Smtp!Delivers(e)
  <2>1. e.result = "running" /\ e.asked \in Seq(Smtp!Notify)
    BY <1>2 DEF Smtp!Delivers, Smtp!Session
  <2>2. d = [asked |-> e.asked, delivered |-> TRUE, result |-> e.result]
    BY <1>2 DEF Smtp!Delivers
  <2>3. TRUE \in BOOLEAN /\ "running" \in {"running", "ok", "failed"}
    OBVIOUS
  <2>4. d \in Smtp!Session
    BY <2>1, <2>2, <2>3 DEF Smtp!Session
  <2>5. d.delivered /\ d.result = "running"
    BY <2>1, <2>2
  <2>6. QED
    BY <2>4, <2>5
<1>3. CASE d \in Smtp!Reports(e)
  BY <1>3 DEF Smtp!Reports, Smtp!Session
<1>4. QED
  BY <1>1, <1>2, <1>3

LEMMA DeliveryStays ==
    ASSUME NEW f, NEW e, NEW d, NEW s, Good(s, f, e), e.delivered => d.delivered
    PROVE  Good(s, f, d)
  BY DEF Good, CopiedWhenSent, ToldTruly, ClosedKept, SentBy

LEMMA NewSendIsGood ==
    ASSUME NEW f \in Field, NEW e, NEW d, NEW s, Good(s, f, e), s.window,
           NEW mode \in Mode,
           NEW t, t = [s EXCEPT !.mode = mode, !.phase = "preparing",
                                !.within = "callback", !.target = "none",
                                !.posted = FALSE, !.told = <<>>, !.stopped = "none",
                                !.silent = FALSE, !.second = f.fcc2,
                                !.progress = f.progress, !.cancelled = FALSE,
                                !.folders = {}, !.sends = @ + 1]
    PROVE  Good(t, f, d)
<1>1. s \in Send
  BY DEF Good
<1>2. f.fcc2 \in BOOLEAN /\ f.progress \in BOOLEAN
  BY DEF Field
<1>3. s.sends + 1 \in Nat /\ s.retries \in Nat
  BY <1>1 DEF Send
<1>4. <<>> \in Seq({"ok", "failed"}) /\ {} \in SUBSET Folder
  OBVIOUS
<1>5. t \in Send
  <2> DEFINE r == [s EXCEPT !.mode = mode, !.phase = "preparing", !.within = "callback",
                            !.target = "none", !.told = <<>>, !.stopped = "none",
                            !.folders = {}, !.sends = @ + 1]
  <2>1. r \in Send
    BY <1>1, <1>3, <1>4 DEF Send, Phase
  <2>2. t = [r EXCEPT !.posted = FALSE, !.silent = FALSE, !.second = f.fcc2,
                      !.progress = f.progress, !.cancelled = FALSE]
    BY ZenonT(60), <1>1 DEF Send
  <2> HIDE DEF r
  <2>3. FALSE \in BOOLEAN
    OBVIOUS
  <2>4. QED
    BY ZenonT(60), <2>1, <2>2, <2>3, <1>2 DEF Send
<1>6. /\ t.mode = mode /\ t.told = <<>> /\ t.stopped = "none"
      /\ t.retries = s.retries /\ t.phase = "preparing" /\ t.window = s.window
      /\ t.second = f.fcc2 /\ Len(t.told) = 0
  BY <1>1 DEF Send
<1>7. QED
  BY <1>3, <1>5, <1>6 DEF Good, Told, Untold, Begun, OnItsWay, CopiedWhenSent,
     ToldTruly, ClosedKept, FiledNext, StoppedLast, Filed

LEMMA FirstIsGood ==
    ASSUME NEW f \in Field, NEW e
    PROVE  Good(NewSend(f), f, e)
<1> DEFINE t == NewSend(f)
<1>1. <<>> \in Seq({"ok", "failed"}) /\ {} \in SUBSET Folder /\ f.draft \in BOOLEAN
  BY DEF Field
<1>2. t \in Send
  BY <1>1 DEF NewSend, Send, Phase
<1>3. /\ t.told = <<>> /\ Len(t.told) = 0 /\ t.stopped = "none" /\ t.retries = 0
      /\ t.phase = "idle" /\ t.window
  BY DEF NewSend
<1> HIDE DEF t
<1>4. Good(t, f, e)
  BY <1>2, <1>3 DEF Good, Told, Untold, Begun, OnItsWay, CopiedWhenSent,
     ToldTruly, ClosedKept, FiledNext, StoppedLast, Filed
<1>5. QED
  BY <1>4 DEF t

-----------------------------------------------------------------------------
(* The invariant of the specification.                                     *)

\* One message changes, and its session with it or not.
LEMMA OneChanges ==
    ASSUME IInv, NEW m \in Messages, NEW t, NEW d \in Smtp!Session,
           Good(t, fields[m], d),
           send' = [send EXCEPT ![m] = t], session' = [session EXCEPT ![m] = d],
           UNCHANGED <<fields, prefs>>
    PROVE  IInv'
<1>1. t \in Send
  BY DEF Good
<1>2. /\ send' \in [Messages -> Send] /\ session' \in [Messages -> Smtp!Session]
      /\ fields' \in [Messages -> Fields] /\ prefs' \in DsnPrefs
  BY <1>1 DEF IInv
<1>3. ASSUME NEW n \in Messages
      PROVE  Good(send'[n], fields'[n], session'[n])
  <2>1. CASE n = m
    BY <2>1 DEF IInv
  <2>2. CASE n # m
    BY <2>2 DEF IInv
  <2>3. QED
    BY <2>1, <2>2
<1>4. QED
  BY <1>2, <1>3 DEF IInv

\* The session does not change.
LEMMA OneBecomes ==
    ASSUME IInv, NEW m \in Messages, NEW set, Becomes(m, set),
           \A t \in set : Good(t, fields[m], session[m]),
           UNCHANGED <<fields, session, prefs>>
    PROVE  IInv'
<1>1. PICK t \in set : send' = [send EXCEPT ![m] = t]
  BY DEF Becomes
<1>2. session' = [session EXCEPT ![m] = session[m]] /\ session[m] \in Smtp!Session
  BY DEF IInv
<1>3. QED
  BY <1>1, <1>2, OneChanges

LEMMA InitIInv == Init => IInv
<1> SUFFICES ASSUME Init PROVE IInv
  OBVIOUS
<1>1. fields \in [Messages -> Fields] /\ prefs \in DsnPrefs
  BY DEF Init
<1>2. ASSUME NEW m \in Messages
      PROVE  Good(send[m], fields[m], session[m]) /\ session[m] \in Smtp!Session
  <2>1. fields[m] \in Field /\ send[m] = NewSend(fields[m])
    BY <1>1, SendAssumption DEF Init
  <2>2. session[m] = Smtp!NewSession
    BY DEF Init
  <2>3. Smtp!NewSession \in Smtp!Session
    BY DEF Smtp!NewSession, Smtp!Session
  <2>4. QED
    BY <2>1, <2>2, <2>3, FirstIsGood
<1>3. \A m \in Messages : send[m] \in Send
  BY <1>2 DEF Good
<1>4. QED
  BY <1>1, <1>2, <1>3 DEF IInv, Init

LEMMA NextIInv == IInv /\ [Next]_sendVars => IInv'
<1> SUFFICES ASSUME IInv, [Next]_sendVars PROVE IInv'
  OBVIOUS
<1>1. CASE UNCHANGED sendVars
  BY <1>1 DEF IInv, sendVars
<1>2. ASSUME NEW m \in Messages, Continues(m) \/ \E mode \in Mode : SendMsg(m, mode)
      PROVE  IInv'
  <2> DEFINE f == fields[m]
             s == send[m]
             e == session[m]
  <2>1. f \in Field /\ Good(s, f, e) /\ e \in Smtp!Session
    BY SendAssumption DEF IInv
  <2>2. CASE PrepareFails(m)
    <3>1. Good(Silently(s, f), f, e)
      BY <2>1, <2>2, SilentlyIsGood DEF PrepareFails, Begun
    <3>2. QED
      BY <2>2, <3>1, OneBecomes DEF PrepareFails
  <2>3. CASE Prepared(m)
    <3>1. \A t \in DeliverMessage(s, f) : Good(t, f, e)
      BY <2>1, <2>3, DeliverMessageIsGood DEF Prepared
    <3>2. QED
      BY <2>3, <3>1, OneBecomes DEF Prepared
  <2>4. CASE NewsExit(m)
    <3> DEFINE p == [s EXCEPT !.posted = TRUE]
    <3>1. s.phase = "posting" /\ s.mode = "DeliverNow"
      BY <2>1, <2>4 DEF NewsExit, Good, OnItsWay
    <3>2. Good(p, f, e) /\ p.phase = "posting" /\ p.posted
      BY <2>1, <3>1, PostedIsGood
    <3>3. \A t \in DeliverAsNewsExit(p, f) : Good(t, f, e)
      BY <2>1, <3>2, NewsExitIsGood
    <3>4. \A t \in DeliveryFailed(s, f) : Good(t, f, e)
      BY <2>1, <3>1, FailedIsGood
    <3>5. \A t \in DeliverAsNewsExit(p, f) \cup DeliveryFailed(s, f) : Good(t, f, e)
      BY <3>3, <3>4
    <3>6. QED
      BY <2>4, <3>5, OneBecomes DEF NewsExit
  <2>5. CASE MailGoesOn(m)
    <3>1. PICK d \in Smtp!Asks(e, prefs) \cup Smtp!Delivers(e) :
                session' = [session EXCEPT ![m] = d]
      BY <2>5 DEF MailGoesOn
    <3>2. d \in Smtp!Session /\ (e.delivered => d.delivered)
      BY <2>1, <3>1, SessionGrows
    <3>3. Good(s, f, d)
      BY <2>1, <3>2, DeliveryStays
    <3>4. send' = [send EXCEPT ![m] = s]
      BY <2>5 DEF MailGoesOn, IInv
    <3>5. QED
      BY <2>5, <3>1, <3>2, <3>3, <3>4, OneChanges DEF MailGoesOn
  <2>6. CASE MailExit(m)
    <3>1. PICK d \in Smtp!Reports(e) :
            /\ session' = [session EXCEPT ![m] = d]
            /\ Becomes(m, IF d.result = "ok" THEN Delivered(s, f) ELSE DeliveryFailed(s, f))
      BY <2>6 DEF MailExit
    <3>2. e.result = "running"
      BY <3>1 DEF Smtp!Reports
    <3>3. /\ d \in Smtp!Session
          /\ e.delivered => d.delivered
          /\ d.result = "ok" => d.delivered
      BY <2>1, <3>1, <3>2, SessionGrows
    <3>4. s.phase = "mailing" /\ s.mode = "DeliverNow" /\ (f.newsgroups => s.posted)
      BY <2>1, <2>6 DEF MailExit, Good, OnItsWay
    <3>5. Good(s, f, d)
      BY <2>1, <3>3, DeliveryStays
    <3>6. PICK t : /\ send' = [send EXCEPT ![m] = t]
                   /\ t \in IF d.result = "ok" THEN Delivered(s, f) ELSE DeliveryFailed(s, f)
      BY <3>1 DEF Becomes
    <3>7. CASE d.result = "ok"
      <4>1. SentBy(s, f, d)
        BY <3>3, <3>4, <3>7 DEF SentBy
      <4>2. Good(t, f, d)
        BY <2>1, <3>4, <3>5, <3>6, <3>7, <4>1, DeliveredIsGood
      <4>3. QED
        BY <2>6, <3>1, <3>3, <3>6, <4>2, OneChanges DEF MailExit
    <3>8. CASE d.result # "ok"
      <4>1. Good(t, f, d)
        BY <2>1, <3>4, <3>5, <3>6, <3>8, FailedIsGood
      <4>2. QED
        BY <2>6, <3>1, <3>3, <3>6, <4>1, OneChanges DEF MailExit
    <3>9. QED
      BY <3>7, <3>8
  <2>7. CASE CopyEnds(m)
    <3>1. \A t \in StopCopy([s EXCEPT !.folders = @ \cup {s.target}]) \cup {Asking(s)} :
                Good(t, f, e)
      BY <2>1, <2>7, CopyEndsIsGood DEF CopyEnds
    <3>2. QED
      BY <2>7, <3>1, OneBecomes DEF CopyEnds
  <2>8. CASE RetryCopy(m)
    <3> DEFINE r == [s EXCEPT !.progress = FALSE, !.retries = @ + 1]
    <3>1. s.phase = "asking"
      BY <2>1, <2>8 DEF RetryCopy, Good, Send
    <3>2. \A t \in DoFcc(r, f) : Good(Unwound(t, r.within), f, e)
      BY <2>1, <3>1, RetryIsGood
    <3>3. QED
      BY <2>8, <3>2, OneBecomes DEF RetryCopy
  <2>9. CASE GiveUpCopy(m)
    <3>1. Good(OnStopCopy(s, "failed"), f, e)
      BY <2>1, <2>9, GiveUpIsGood DEF GiveUpCopy
    <3>2. QED
      BY <2>9, <3>1, OneBecomes DEF GiveUpCopy
  <2>10. CASE Cancel(m)
    <3> DEFINE r == [s EXCEPT !.cancelled = TRUE]
               t == IF r.phase = "copying" THEN Asking(r) ELSE r
    <3>1. Good(t, f, e)
      BY <2>1, CancelIsGood
    <3>2. Becomes(m, {t}) /\ UNCHANGED <<fields, session, prefs>>
      BY <2>10 DEF Cancel
    <3> HIDE DEF t
    <3>3. \A u \in {t} : Good(u, f, e)
      BY <3>1
    <3>4. QED
      BY <3>2, <3>3, OneBecomes
  <2>11. ASSUME NEW mode \in Mode, SendMsg(m, mode)
         PROVE  IInv'
    <3>1. Smtp!NewSession \in Smtp!Session
      BY DEF Smtp!NewSession, Smtp!Session
    <3>2. PICK t : /\ send' = [send EXCEPT ![m] = t]
                   /\ t = [s EXCEPT !.mode = mode, !.phase = "preparing",
                                !.within = "callback", !.target = "none",
                                !.posted = FALSE, !.told = <<>>, !.stopped = "none",
                                !.silent = FALSE, !.second = f.fcc2,
                                !.progress = f.progress, !.cancelled = FALSE,
                                !.folders = {}, !.sends = @ + 1]
      BY <2>11 DEF SendMsg
    <3>3. s.window /\ session' = [session EXCEPT ![m] = Smtp!NewSession]
      BY <2>11 DEF SendMsg
    <3>4. Good(t, f, Smtp!NewSession)
      BY <2>1, <3>2, <3>3, NewSendIsGood
    <3>5. QED
      BY <2>11, <3>1, <3>2, <3>3, <3>4, OneChanges DEF SendMsg
  <2>12. QED
    BY <1>2, <2>2, <2>3, <2>4, <2>5, <2>6, <2>7, <2>8, <2>9, <2>10, <2>11 DEF Continues
<1>3. QED
  BY <1>1, <1>2 DEF Next

LEMMA SendInvariant == Spec => []IInv
  BY InitIInv, NextIInv, PTL DEF Spec

LEMMA IInvTyped == IInv => TypeOK
<1> SUFFICES ASSUME IInv, NEW m \in Messages
    PROVE  /\ fields \in [Messages -> Fields] /\ send \in [Messages -> Send]
           /\ session \in [Messages -> Smtp!Session] /\ prefs \in DsnPrefs
           /\ Len(send[m].told) <= IF fields[m].fcc = "folder" THEN 1
                                                            ELSE 2 + send[m].retries
  BY DEF TypeOK, IInv
<1>1. Len(send[m].told) + 0 <= IF fields[m].fcc = "folder" THEN 1
                                                        ELSE 2 + send[m].retries
  BY DEF IInv, Good, Told
<1>2. Len(send[m].told) \in Nat
  BY DEF IInv, Send
<1>3. QED
  BY <1>1, <1>2 DEF IInv

\* Every variable has its type, and the listener is not told more often than the
\* code justifies.
THEOREM SendTypeCorrect == Spec => []TypeOK
  BY IInvTyped, SendInvariant, PTL

\* The compose window and the original's reply mark hear of a success only when
\* everybody has the message.
THEOREM SentIsTold == Spec => []SentAsTold
<1>1. IInv => SentAsTold
  BY DEF IInv, Good, ToldTruly, SentBy, Cheerful, SentAsTold, Sent
<1>2. QED
  BY <1>1, SendInvariant, PTL

\* No window closes over a message that is neither sent nor queued, unless a copy
\* was tried again.
THEOREM ClosingKeeps == Spec => []ClosedKeepsMail
<1>1. IInv => ClosedKeepsMail
  BY DEF IInv, Good, ClosedKept, SentBy, ClosedKeepsMail, Kept, Sent
<1>2. QED
  BY <1>1, SendInvariant, PTL

\* The end of copying is told only when every copy asked for is there.
THEOREM CopiesAreThere == Spec => []FiledAsTold
<1>1. IInv => FiledAsTold
  BY DEF IInv, Good, Filed, MainCopy, FiledAsTold, Mode
<1>2. QED
  BY <1>1, SendInvariant, PTL

\* What is told to be sent, or to have failed, is not sent again by itself.
THEOREM SentOnce == Spec => NeverSentAgain
<1> DEFINE Again(m) ==
        send'[m].sends = send[m].sends /\ send[m].told # <<>> =>
            send'[m].phase \notin {"preparing", "posting", "mailing"}
<1>1. IInv /\ IInv' /\ [Next]_sendVars => [\A m \in Messages : Again(m)]_sendVars
  <2> SUFFICES ASSUME IInv, IInv', Next, NEW m \in Messages, send[m].told # <<>>,
                      send'[m].sends = send[m].sends, send'[m].phase \in Begun
               PROVE  FALSE
    BY DEF Begun
  <2> DEFINE s == send[m]
             f == fields[m]
  <2>1. /\ s \in Send /\ send'[m] \in Send /\ f \in Field
        /\ DOMAIN send = Messages
        /\ s.phase \notin Begun
    BY SendAssumption DEF IInv, Good, Untold
  <2>2. send'[m] # s
    BY <2>1
  <2>3. ~ \E mode \in Mode : SendMsg(m, mode)
    <3> SUFFICES ASSUME NEW mode \in Mode, SendMsg(m, mode) PROVE FALSE
      OBVIOUS
    <3>1. s.sends \in Nat
      BY <2>1 DEF Send
    <3>2. send'[m].sends = s.sends + 1
      BY <2>1 DEF SendMsg, Send
    <3>3. QED
      BY <3>1, <3>2
  <2>4. Continues(m)
    <3>1. PICK n \in Messages : Continues(n) \/ \E mode \in Mode : SendMsg(n, mode)
      BY DEF Next
    <3>2. n = m
      BY <2>2, <3>1 DEF IInv, Continues, SendMsg, PrepareFails, Prepared, NewsExit,
         MailGoesOn, MailExit, CopyEnds, RetryCopy, GiveUpCopy, Cancel, Becomes
    <3>3. QED
      BY <2>3, <3>1, <3>2
  <2>5. ~ CopyEnds(m)
    <3> SUFFICES ASSUME CopyEnds(m) PROVE FALSE
      OBVIOUS
    <3> DEFINE r == [s EXCEPT !.folders = @ \cup {s.target}]
    <3>1. s.target \in Folder
      BY DEF CopyEnds, IInv, Good, OnItsWay
    <3>2. r \in Send
      BY <2>1, <3>1 DEF Send
    <3>3. send'[m] \in StopCopy(r) \/ send'[m] = Asking(s)
      BY <2>1 DEF CopyEnds, Becomes
    <3> HIDE DEF r
    <3>4. QED
      BY ZenonT(60), <2>1, <3>2, <3>3, StopCopyPhase DEF Asking, Send, Begun
  <2>6. ~ RetryCopy(m)
    <3> SUFFICES ASSUME RetryCopy(m) PROVE FALSE
      OBVIOUS
    <3> DEFINE r == [s EXCEPT !.progress = FALSE, !.retries = @ + 1]
    <3>1. r \in Send
      <4>1. s.retries + 1 \in Nat /\ FALSE \in BOOLEAN
        BY <2>1 DEF Send
      <4>2. QED
        BY <2>1, <4>1 DEF Send
    <3>2. PICK t \in DoFcc(r, f) : send'[m] = Unwound(t, r.within)
      BY <2>1 DEF RetryCopy, Becomes
    <3> HIDE DEF r
    <3>3. QED
      BY <2>1, <3>1, <3>2, DoFccPhase
  <2>7. ~ GiveUpCopy(m)
    <3> SUFFICES ASSUME GiveUpCopy(m) PROVE FALSE
      OBVIOUS
    <3>1. send'[m] = OnStopCopy(s, "failed")
      BY <2>1 DEF GiveUpCopy, Becomes
    <3>2. OnStopCopy(s, "failed").phase = "idle"
      BY <2>1 DEF OnStopCopy, Send
    <3>3. QED
      BY <3>1, <3>2 DEF Begun
  <2>8. ~ Cancel(m)
    <3> SUFFICES ASSUME Cancel(m) PROVE FALSE
      OBVIOUS
    <3> DEFINE r == [s EXCEPT !.cancelled = TRUE]
    <3>1. r \in Send /\ r.phase = s.phase
      BY <2>1 DEF Send
    <3>2. s.phase = "copying"
      BY <2>1, <3>1 DEF Cancel, Begun
    <3>3. send'[m] = Asking(r)
      BY <2>1, <3>1, <3>2 DEF Cancel, Becomes
    <3> HIDE DEF r
    <3>4. Asking(r).phase = "asking"
      BY <3>1 DEF Asking, Send
    <3>5. QED
      BY <3>3, <3>4 DEF Begun
  <2>9. QED
    BY <2>1, <2>4, <2>5, <2>6, <2>7, <2>8 DEF Continues, PrepareFails, Prepared,
       NewsExit, MailGoesOn, MailExit, Begun
<1>2. QED
  BY <1>1, SendInvariant, NextIInv, PTL DEF Spec, NeverSentAgain
=============================================================================
