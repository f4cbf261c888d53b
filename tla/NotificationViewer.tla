------------------------- MODULE NotificationViewer -------------------------
(***************************************************************************)
(* The notification-viewer add-on: it watches the mail folders, reads the  *)
(* delivery and disposition notifications (DSN, MDN, exim bounces) that    *)
(* come back for sent messages, records their reports in a SQLite          *)
(* database and in the message database of Thunderbird, and moves each     *)
(* notification into the thread of the message it is about                 *)
(* (addons/notification-viewer/chrome/content).                            *)
(*                                                                         *)
(* The JavaScript runs to completion: a callback is one action.  What      *)
(* interleaves is the callbacks: the two streaming reads of a message, the *)
(* deferred move, the copy service and its retries, the display of a row,  *)
(* the periodic check, the user and the other side of the wire.            *)
(*                                                                         *)
(* Clock readings are kept as the comparisons the code makes with them:    *)
(* expired (now - messageDate > timeoutDelay), synced (x-nviewer-sync-date *)
(* >= lastUpdate of the row) and recent (synchronised less than 5 s ago).  *)
(***************************************************************************)
EXTENDS NotificationData

CONSTANTS
    Msg,            \* Message-IDs of sent messages
    Recipients,     \* Recipients[m]: To + CC + BCC of m
    Requested,      \* Requested[m]: notifications m asks for in its headers
    Kind,           \* Kind[n]: "DSN", "MDN" or "exim"
    Orig,           \* Orig[n]: the sent message n is about
    Wanted,         \* preferences parse_dsn and parse_mdn
    ThreadPref,     \* preference thread_on_original_message
    KeepFailed,     \* preference do_not_thread_failed_notification
    Folder, Inbox, Sent, Trash,
    Rank,           \* order in which findMsgDb visits the folders
    Key,            \* message keys; bounds the headers ever created
    MaxAttempts,    \* attempts of copyFileMessage (10 in the code)
    MaxStreams,     \* bound on equal reads in flight for one header
    Env             \* which things of the environment may happen

NoKey == 0

\* A key of the SQLite table: the Message-ID with or without its <>.
RowKey == Msg \X {"bare", "bracketed"}

NoId == <<>>

Faults == {"stream", "sqlite", "copy", "crash"}

ASSUME ConstantsAssumption ==
    /\ Recipients \in [Msg -> (SUBSET Recip) \ {{}}]
    /\ Requested \in [Msg -> SUBSET Request]
    /\ Kind \in [Notif -> {"DSN", "MDN", "exim"}]
    /\ Orig \in [Notif -> Msg]
    /\ Wanted \subseteq Request
    /\ ThreadPref \in BOOLEAN /\ KeepFailed \in BOOLEAN
    /\ {Inbox, Sent, Trash} \subseteq Folder
    /\ Rank \in [Folder -> Nat]
    /\ Key \subseteq Nat \ {0}
    /\ MaxAttempts \in Nat \ {0} /\ MaxStreams \in Nat \ {0}
    /\ Env \subseteq Faults \cup {"user", "rebuild", "bcc", "dup", "display", "time", "clock"}
    /\ Msg \cap Notif = {} /\ NoId \notin Msg \cup Notif

VARIABLES
    store,      \* store[k]: the message header with key k
    streams,    \* streams[s]: reads of message sources in flight
    pending,    \* pending[c]: copies of notifications under way
    db,         \* db[rk]: notificationData of the SQLite row, if any
    waiting,    \* rows with checkDelay = 'yes'
    expired,    \* messages sent longer ago than the delay
    processed,  \* history: notifications whose reports were handled
    unsaved,    \* history: processing cut short by a fault
    lostMail    \* history: notifications purged by the user or by a fault

vars == <<store, streams, pending, db, waiting, expired,
          processed, unsaved, lostMail>>

history == <<processed, unsaved, lostMail>>

-----------------------------------------------------------------------------
Header ==
    [st     : {"free", "live", "gone"},
     id     : Msg \cup Notif \cup {NoId},
     folder : Folder,
     seen   : {"", "yes", "request"},   \* x-nviewer-seen
     moveto : RowKey \cup {NoId},       \* x-nviewer-moveto
     parent : Key \cup {NoKey},         \* threadParent
     copy   : Data,                     \* x-nviewer-to
     late   : BOOLEAN,                  \* x-nviewer-timedout
     columns : SUBSET Request,          \* x-nviewer-...-summary not empty
     synced : BOOLEAN,
     recent : BOOLEAN]

Stream == {"check", "parse", "move"} \X Key

\* A copy under way: of notification id into folder, accepted by the copy
\* service or waiting for the timer of attempt number count.
Copy == [id : Notif, folder : Folder, stage : {"copying", "retry"},
         count : 1..MaxAttempts]

TypeOK ==
    /\ store \in [Key -> Header]
    /\ streams \in [Stream -> Nat]
    /\ pending \in [Copy -> Nat]
    /\ db \in [RowKey -> Data]
    /\ waiting \subseteq RowKey
    /\ expired \subseteq Msg
    /\ processed \subseteq Notif
    /\ unsaved \subseteq Msg \cup Notif
    /\ lostMail \subseteq Notif

FreshHeader(id, f, parent) ==
    [st |-> "live", id |-> id, folder |-> f, seen |-> "", moveto |-> NoId,
     parent |-> parent, copy |-> EmptyData, late |-> FALSE,
     columns |-> {}, synced |-> FALSE, recent |-> FALSE]

NoHeader == [FreshHeader(NoId, Inbox, NoKey) EXCEPT !.st = "free"]

Init ==
    /\ store = [k \in Key |-> NoHeader]
    /\ streams = [s \in Stream |-> 0]
    /\ pending = [c \in Copy |-> 0]
    /\ db = [rk \in RowKey |-> EmptyData]
    /\ waiting = {}
    /\ expired = {}
    /\ processed = {} /\ unsaved = {} /\ lostMail = {}

-----------------------------------------------------------------------------
(* Look-ups *)

Live(s, x) == {k \in Key : s[k].st = "live" /\ s[k].id = x}

\* findMsgDb: the first header with this id, folder by folder, Trash left out.
Before(s, j, k) ==
    \/ Rank[s[j].folder] < Rank[s[k].folder]
    \/ Rank[s[j].folder] = Rank[s[k].folder] /\ j <= k

Searchable(s, x) == {k \in Live(s, x) : s[k].folder # Trash}

Find(s, x) ==
    {k \in Searchable(s, x) : \A j \in Searchable(s, x) : Before(s, k, j)}

FindIn(s, x, f) ==
    {k \in Searchable(s, x) : s[k].folder = f /\
        \A j \in Searchable(s, x) : s[j].folder = f => k <= j}

IsOriginal(h) == h.id \in Msg

Bare(m) == <<m, "bare">>

\* The original Message-ID as each kind of report yields it: <> is taken off
\* for a DSN or an MDN and left on for an exim bounce.
RowOf(n) == IF Kind[n] = "exim" THEN <<Orig[n], "bracketed">> ELSE Bare(Orig[n])

DSNFailed(n) == \E r \in Reports[n] : r.type = "DSN" /\ r.value = "failed"

Requests(m) == Requested[m] \cap Wanted

\* Faulty variant: the preferences are not looked at.
IsAnyReport(n) == Reports[n] # {}

\* A report the user wants to be read, with something in it.
IsReport(n) == Reports[n] # {} /\ (Kind[n] = "exim" \/ Kind[n] \in Wanted)

Add(bag, x) == [bag EXCEPT ![x] = @ + 1]
Take(bag, x) == [bag EXCEPT ![x] = @ - 1]

\* A new header k; keys are given out in increasing order.
IsNew(k) == store[k].st = "free" /\ \A j \in Key : j < k => store[j].st # "free"

\* The parent a header with a reference to m is given in folder f.
Parents(s, m, f) ==
    LET here == {k \in Live(s, m) : s[k].folder = f}
    IN IF here = {} THEN {NoKey} ELSE here

-----------------------------------------------------------------------------
(* The two databases *)

\* The constructor: the data of a text, with what follows from them.
Load(d, m) == UpdateProperties(d, m \in expired)

\* saveNotificationDataInMessageDb on every header of ks.
SaveInMessageDb(s, ks, o) ==
    [k \in Key |-> IF k \in ks
                   THEN [s[k] EXCEPT !.copy = o.data,
                                     !.late = o.timedOut,
                                     !.columns = o.columns,
                                     !.synced = TRUE, !.recent = TRUE]
                   ELSE s[k]]

\* Faulty variant: no header is found to be out of date.
OutdateNone(s, rks, spared) == s

\* A row was written: its lastUpdate is later than every sync date so far,
\* but those of the spared headers.
Outdate(s, rks, spared) ==
    [k \in Key |-> IF k \notin spared /\ \E rk \in rks : Bare(s[k].id) = rk
                   THEN [s[k] EXCEPT !.synced = FALSE]
                   ELSE s[k]]

\* updateMessage may fail; no caller looks at what it returns.
Writes == IF "sqlite" \in Env THEN BOOLEAN ELSE {TRUE}

WriteRow(rk, o) ==
    /\ db' = [db EXCEPT ![rk] = o.data]
    /\ waiting' = IF o.checkDelay THEN waiting \cup {rk} ELSE waiting \ {rk}

\* The two clock readings of saveNotificationData may be the same millisecond.
SameTime(ks) == IF "clock" \in Env THEN {{}, ks} ELSE {{}}

\* Faulty variant: the SQLite row is written only when no header was found.
SaveOnce(s, ks, rk, data, source) ==
    /\ IF ks = {} THEN WriteRow(rk, data) ELSE UNCHANGED <<db, waiting>>
    /\ store' = SaveInMessageDb(s, ks, data)
    /\ UNCHANGED unsaved

\* saveNotificationData: the message database of the headers found (s already
\* holds the other changes of the handler), then the SQLite row.  source is
\* the message whose data would be missing if the row is not written.  (Here
\* and in ParseOriginal a value bound by \E x \in {...} is computed once.)
SaveNotificationData(s, ks, rk, data, source) ==
    \E o \in {data} : \E saved \in {SaveInMessageDb(s, ks, o)} :
       \/ /\ WriteRow(rk, o)
          /\ \E spared \in SameTime(ks) : store' = Outdate(saved, {rk}, spared)
          /\ unsaved' = unsaved \ ({source} \cap Notif)
       \/ /\ FALSE \in Writes
          /\ store' = saved
          /\ unsaved' = unsaved \cup {source}
          /\ UNCHANGED <<db, waiting>>

-----------------------------------------------------------------------------
(* Arrival of messages *)

\* itemAdded for header k: an unknown header has its header lines read.
ItemAdded(s, k) ==
    IF s[k].seen = "" THEN Add(streams, <<"check", k>>) ELSE streams

\* A notification comes in from the network.
Deliver(n) ==
    /\ "dup" \in Env \/ \A k \in Key : store[k].id # n
    /\ \E k \in Key :
        /\ IsNew(k)
        /\ store' = [store EXCEPT ![k] = FreshHeader(n, Inbox, NoKey)]
        /\ streams' = ItemAdded(store', k)
    /\ UNCHANGED <<pending, db, waiting, expired, history>>

\* A sent message is filed in folder f: Sent, or Inbox when the sender is
\* among its recipients.
FileSent(m, f) ==
    /\ f = Sent \/ (f = Inbox /\ "bcc" \in Env)
    /\ \A k \in Key : store[k].id # m \/ store[k].folder # f
    /\ \E k \in Key :
        /\ IsNew(k)
        /\ store' = [store EXCEPT ![k] = FreshHeader(m, f, NoKey)]
        /\ streams' = ItemAdded(store', k)
    /\ UNCHANGED <<pending, db, waiting, expired, history>>

\* The end of checkMsgHdr: a request of ours or a report is read in full.
HeaderChecked(k) ==
    LET x == store[k].id
        relevant == IF x \in Msg THEN Requested[x] # {} ELSE TRUE
    IN /\ streams[<<"check", k>>] > 0
       /\ relevant => streams[<<"parse", k>>] < MaxStreams
       /\ streams' = IF relevant
                     THEN Add(Take(streams, <<"check", k>>), <<"parse", k>>)
                     ELSE Take(streams, <<"check", k>>)
       /\ UNCHANGED <<store, pending, db, waiting, expired, history>>

\* A read ends with an error, which is logged and forgotten.
StreamFailed(s) ==
    /\ "stream" \in Env
    /\ streams[s] > 0
    /\ streams' = Take(streams, s)
    /\ UNCHANGED <<store, pending, db, waiting, expired, history>>

-----------------------------------------------------------------------------
(* Moving a notification into the thread of its original *)

Accepted(n, f) == [id |-> n, folder |-> f, stage |-> "copying", count |-> 1]
Refused(n, f, c) == [id |-> n, folder |-> f, stage |-> "retry", count |-> c]

\* Faulty variant: the old header is deleted and nothing is copied.
ThreadWithoutCopy(s, k, f) ==
    {[store |-> [s EXCEPT ![k].st = "gone", ![k].moveto = NoId],
      copies |-> {}, lost |-> {}]}

\* threadNotification: a temporary file is written, the old header is
\* deleted, and the file is handed to the copy service.
ThreadOutcomes(s, k, f) ==
    LET n == s[k].id
        gone == [s EXCEPT ![k].st = "gone", ![k].moveto = NoId]
    IN {[store |-> gone, copies |-> {Accepted(n, f)}, lost |-> {}]}
       \cup IF "copy" \notin Env THEN {}
            ELSE {[store |-> gone,
                   copies |-> IF MaxAttempts > 1 THEN {Refused(n, f, 1)} ELSE {},
                   lost |-> IF MaxAttempts > 1 THEN {} ELSE {n}],
                  \* no temporary file: a warning, and the mark is cleared
                  [store |-> [s EXCEPT ![k].moveto = NoId],
                   copies |-> {}, lost |-> {}]}

\* Faulty variant: do_not_thread_failed_notification is not looked at.
MoveAlsoFailed(s, k, sought, failed) ==
    LET found == Find(s, sought[1])
    IN IF ~ThreadPref THEN {[store |-> s, copies |-> {}, lost |-> {}]}
       ELSE IF found = {}
       THEN {[store |-> [s EXCEPT ![k].moveto = sought], copies |-> {}, lost |-> {}]}
       ELSE UNION {ThreadOutcomes(s, k, s[o].folder) : o \in found}

\* moveNotificationWithSource: what it may do to header k, sought is the
\* original Message-ID it is given.
MoveOutcomes(s, k, sought, failed) ==
    LET stay(t) == {[store |-> t, copies |-> {}, lost |-> {}]}
        found == Find(s, sought[1])
    IN IF ~ThreadPref \/ (failed /\ KeepFailed) THEN stay(s)
       ELSE IF found = {} THEN stay([s EXCEPT ![k].moveto = sought])
       ELSE UNION {IF s[k].folder = s[o].folder /\ s[k].parent = o
                   THEN stay([s EXCEPT ![k].moveto = NoId])
                   ELSE ThreadOutcomes(s, k, s[o].folder) : o \in found}

StartCopies(copies) ==
    pending' = [c \in Copy |-> pending[c] + (IF c \in copies THEN 1 ELSE 0)]

\* The deferred move, when the source of the notification has been read.
MoveNotification(k) ==
    /\ streams[<<"move", k>>] > 0
    /\ \E out \in MoveOutcomes(store, k, Bare(Orig[store[k].id]), FALSE) :
        /\ store' = out.store
        /\ StartCopies(out.copies)
        /\ lostMail' = lostMail \cup out.lost
    /\ streams' = Take(streams, <<"move", k>>)
    /\ UNCHANGED <<db, waiting, expired, processed, unsaved>>

\* OnStopCopy with success: the copy is a new message in the folder.
CopyStopped(c) ==
    /\ pending[c] > 0 /\ c.stage = "copying"
    /\ pending' = Take(pending, c)
    /\ \E k \in Key : \E p \in Parents(store, Orig[c.id], c.folder) :
        /\ IsNew(k)
        /\ store' = [store EXCEPT ![k] = FreshHeader(c.id, c.folder, p)]
        /\ streams' = ItemAdded(store', k)
    /\ UNCHANGED <<db, waiting, expired, history>>

\* OnStopCopy with an error: nothing is done, the message is only a
\* temporary file now.
CopyFailed(c) ==
    /\ "copy" \in Env
    /\ pending[c] > 0 /\ c.stage = "copying"
    /\ pending' = Take(pending, c)
    /\ lostMail' = lostMail \cup {c.id}
    /\ UNCHANGED <<store, streams, db, waiting, expired, processed, unsaved>>

\* copyFileMessage from its timer: accepted, refused once more, or refused
\* for the last time and the temporary file removed.
RetryCopy(c) ==
    /\ pending[c] > 0 /\ c.stage = "retry"
    /\ \/ /\ pending' = Add(Take(pending, c), Accepted(c.id, c.folder))
          /\ UNCHANGED lostMail
       \/ /\ c.count + 1 < MaxAttempts
          /\ pending' = Add(Take(pending, c), [c EXCEPT !.count = @ + 1])
          /\ UNCHANGED lostMail
       \/ /\ c.count + 1 = MaxAttempts
          /\ pending' = Take(pending, c)
          /\ lostMail' = lostMail \cup {c.id}
    /\ UNCHANGED <<store, streams, db, waiting, expired, processed, unsaved>>

-----------------------------------------------------------------------------
(* parseMsg, called when the source of header k has been read *)

\* Faulty variant: a callback that no read is behind.
ParseUncalled(k) ==
    /\ store[k].seen # ""
    /\ streams' = Take(streams, <<"parse", k>>)
    /\ UNCHANGED <<store, pending, db, waiting, expired, history>>

\* The header was parsed by an earlier callback.
ParseRepeated(k) ==
    /\ streams[<<"parse", k>>] > 0
    /\ store[k].seen # ""
    /\ streams' = Take(streams, <<"parse", k>>)
    /\ UNCHANGED <<store, pending, db, waiting, expired, history>>

\* Marked as seen, but left alone: it is in Trash, or a report the user
\* does not want or that says nothing.
ParseIgnored(k) ==
    /\ streams[<<"parse", k>>] > 0
    /\ store[k].seen = ""
    /\ \/ store[k].folder = Trash
       \/ store[k].id \in Notif /\ ~IsReport(store[k].id)
    /\ store' = [store EXCEPT ![k].seen = "yes"]
    /\ streams' = Take(streams, <<"parse", k>>)
    /\ UNCHANGED <<pending, db, waiting, expired, history>>

\* Faulty variant: nobody is sent for.
WaitingForNone(m) == {}

\* Notifications that came before their original and were marked for it.
WaitingFor(m) ==
    UNION {{h \in Find(store, n) : store[h].moveto = Bare(m)} :
               n \in {e[1] : e \in Recorded(db[Bare(m)])}}

\* A sent message: data that notifications left in the SQLite database go
\* into its header, these notifications are sent for, and if it asks for
\* notifications its recipients are registered.
ParseOriginal(k) ==
    LET m == store[k].id
    IN /\ streams[<<"parse", k>>] > 0
       /\ m \in Msg
       /\ store[k].seen = "" /\ store[k].folder # Trash
       /\ \E moved \in {WaitingFor(m)} :
            /\ \A h \in moved : streams[<<"move", h>>] < MaxStreams
            /\ streams' = [s \in Stream |->
                              IF s = <<"parse", k>> THEN streams[s] - 1
                              ELSE IF s[1] = "move" /\ s[2] \in moved
                                   THEN streams[s] + 1
                                   ELSE streams[s]]
       /\ \E known \in {Load([db[Bare(m)] EXCEPT !.dated = TRUE], m)} :
            IF Requests(m) # {}
            THEN SaveNotificationData([store EXCEPT ![k].seen = "request"], {k}, Bare(m),
                     Load(AddDeliveredTo(known.data, Recipients[m], Requests(m)), m), m)
            ELSE /\ store' = SaveInMessageDb([store EXCEPT ![k].seen = "yes"],
                                  IF known.data.rows = {} THEN {} ELSE {k}, known)
                 /\ UNCHANGED <<db, waiting, unsaved>>
       /\ UNCHANGED <<pending, expired, processed, lostMail>>

\* Faulty variant: x-nviewer-seen is not looked at.
ParseReportAgain(k) ==
    LET n     == store[k].id
        rk    == RowOf(n)
        o     == Load(AddReports(db[rk], n), Orig[n])
        read  == [store EXCEPT ![k].seen = "yes"]
        found == Find(read, Orig[n])
    IN /\ streams[<<"parse", k>>] > 0
       /\ n \in Notif /\ IsReport(n)
       /\ store[k].folder # Trash
       /\ \E out \in MoveOutcomes(read, k, rk, DSNFailed(n)) :
            /\ SaveNotificationData(out.store, found, rk, o, n)
            /\ StartCopies(out.copies)
            /\ lostMail' = lostMail \cup out.lost
       /\ streams' = Take(streams, <<"parse", k>>)
       /\ processed' = processed \cup {n}
       /\ UNCHANGED expired

\* A notification: its reports are added to the data of its original, it is
\* moved to the original's thread, and the data are saved.
ParseReport(k) ==
    LET n     == store[k].id
        rk    == RowOf(n)
        o     == Load(AddReports(db[rk], n), Orig[n])
        read  == [store EXCEPT ![k].seen = "yes"]
        found == Find(read, Orig[n])
    IN /\ streams[<<"parse", k>>] > 0
       /\ n \in Notif /\ IsReport(n)
       /\ store[k].seen = "" /\ store[k].folder # Trash
       /\ \E out \in MoveOutcomes(read, k, rk, DSNFailed(n)) :
            /\ SaveNotificationData(out.store, found, rk, o, n)
            /\ StartCopies(out.copies)
            /\ lostMail' = lostMail \cup out.lost
       /\ streams' = Take(streams, <<"parse", k>>)
       /\ processed' = processed \cup {n}
       /\ UNCHANGED expired

-----------------------------------------------------------------------------
(* Display, timers *)

\* syncMessageDb(k), reached when a cell of the row is drawn.
SyncMessageDb(k) ==
    LET m == store[k].id
        d == db[Bare(m)]
    IN IF m \notin Msg \/ store[k].seen = "yes" \/ store[k].recent
       THEN UNCHANGED store
       ELSE IF store[k].synced \/ d.rows = {}
       THEN store' = [store EXCEPT ![k].recent = TRUE, ![k].synced = TRUE]
       ELSE store' = SaveInMessageDb(store, {k}, Load(d, m))

\* getCellText: an unknown message is read to be parsed, and a known one is
\* brought up to date.
DisplayRow(k) ==
    /\ "display" \in Env
    /\ store[k].st = "live"
    /\ IF store[k].seen = ""
       THEN /\ streams[<<"parse", k>>] < MaxStreams
            /\ streams' = Add(streams, <<"parse", k>>)
       ELSE UNCHANGED streams
    /\ SyncMessageDb(k)
    /\ UNCHANGED <<pending, db, waiting, expired, history>>

FiveSecondsPass ==
    /\ \E k \in Key : store[k].recent
    /\ store' = [k \in Key |-> [store[k] EXCEPT !.recent = FALSE]]
    /\ UNCHANGED <<streams, pending, db, waiting, expired, history>>

\* The delay of m runs out.
Expire(m) ==
    /\ "time" \in Env
    /\ m \notin expired
    /\ expired' = expired \cup {m}
    /\ UNCHANGED <<store, streams, pending, db, waiting, history>>

\* checkDelay of main.js: every row that waits is evaluated and written
\* again; ok are the rows the SQLite update did not fail for.
CheckDelays ==
    /\ waiting # {}
    /\ \E ok \in SUBSET waiting :
        /\ ok # waiting => FALSE \in Writes
        /\ waiting' = waiting \ {rk \in ok : ~Load(db[rk], rk[1]).checkDelay}
        /\ db' = [rk \in RowKey |-> IF rk \in ok THEN Load(db[rk], rk[1]).data
                                                ELSE db[rk]]
        /\ store' = Outdate(store, ok, {})
    /\ UNCHANGED <<streams, pending, expired, history>>

-----------------------------------------------------------------------------
(* The user, and Thunderbird itself *)

\* The user moves message k to folder f: a header without our properties
\* takes its place, and itemMoveCopyCompleted looks it up by its id.
UserMoves(k, f) ==
    /\ "user" \in Env
    /\ store[k].st = "live" /\ store[k].folder # f
    /\ store[k].id \in Msg => \A j \in Live(store, store[k].id) : store[j].folder # f
    /\ \E new \in Key :
       \E p \in {NoKey} \cup IF IsOriginal(store[k]) THEN {}
                             ELSE Parents(store, Orig[store[k].id], f) :
        /\ IsNew(new)
        /\ store' = [store EXCEPT ![k].st = "gone",
                                  ![new] = FreshHeader(store[k].id, f, p)]
        /\ LET listed == FindIn(store', store[k].id, f)
           IN streams' = [s \in Stream |->
                 IF s[1] = "check" /\ s[2] \in listed /\ store'[s[2]].seen = ""
                 THEN streams[s] + 1 ELSE streams[s]]
    /\ UNCHANGED <<pending, db, waiting, expired, history>>

\* The user deletes message k for good.
UserPurges(k) ==
    /\ "user" \in Env
    /\ store[k].st = "live"
    /\ store' = [store EXCEPT ![k].st = "gone"]
    /\ lostMail' = lostMail \cup ({store[k].id} \cap Notif)
    /\ UNCHANGED <<streams, pending, db, waiting, expired, processed, unsaved>>

\* The index of a folder is rebuilt from the mail file: every property the
\* add-on stored in its headers is gone.
RebuildIndex(f) ==
    /\ "rebuild" \in Env
    /\ \E k \in Key : store[k].st = "live" /\ store[k].folder = f /\ store[k].seen # ""
    /\ store' = [k \in Key |->
            IF store[k].st = "live" /\ store[k].folder = f
            THEN [FreshHeader(store[k].id, f, NoKey) EXCEPT !.parent = store[k].parent]
            ELSE store[k]]
    /\ UNCHANGED <<streams, pending, db, waiting, expired, history>>

CopiesOf(n) == {c \in Copy : c.id = n /\ pending[c] > 0}

InFlight == {n \in Notif : CopiesOf(n) # {}}

ForgetVolatile ==
    /\ streams' = [s \in Stream |-> 0]
    /\ pending' = [c \in Copy |-> 0]

\* Thunderbird dies between two callbacks, and is started again.
Crash ==
    /\ "crash" \in Env
    /\ ForgetVolatile
    /\ lostMail' = lostMail \cup InFlight
    /\ UNCHANGED <<store, db, waiting, expired, processed, unsaved>>

\* It dies in parseMsg, after the move of the notification began and before
\* the SQLite row is written.
CrashInParse(k) ==
    LET n == store[k].id
    IN /\ "crash" \in Env
       /\ streams[<<"parse", k>>] > 0
       /\ n \in Notif /\ IsReport(n)
       /\ store[k].st = "live" /\ store[k].seen = "" /\ store[k].folder # Trash
       /\ \E seen \in {"", "yes"} :
          \E out \in MoveOutcomes([store EXCEPT ![k].seen = seen], k, RowOf(n),
                                  DSNFailed(n)) :
            /\ store' = out.store
            /\ lostMail' = lostMail \cup InFlight \cup out.lost
                               \cup {c.id : c \in out.copies}
       /\ ForgetVolatile
       /\ processed' = processed \cup {n}
       /\ unsaved' = unsaved \cup {n}
       /\ UNCHANGED <<db, waiting, expired>>

-----------------------------------------------------------------------------
Next ==
    \/ \E n \in Notif : Deliver(n)
    \/ \E m \in Msg, f \in Folder : FileSent(m, f)
    \/ \E s \in Stream : StreamFailed(s)
    \/ \E c \in Copy : CopyStopped(c) \/ CopyFailed(c) \/ RetryCopy(c)
    \/ \E k \in Key :
        \/ HeaderChecked(k)
        \/ ParseRepeated(k) \/ ParseIgnored(k)
        \/ ParseOriginal(k) \/ ParseReport(k)
        \/ MoveNotification(k)
        \/ DisplayRow(k)
        \/ UserPurges(k)
        \/ CrashInParse(k)
    \/ \E k \in Key, f \in Folder : UserMoves(k, f)
    \/ \E f \in Folder : RebuildIndex(f)
    \/ \E m \in Msg : Expire(m)
    \/ FiveSecondsPass
    \/ CheckDelays
    \/ Crash

Spec == Init /\ [][Next]_vars

\* The event loop runs every callback, the timers fire, and the copies and
\* reads end.  Nobody is obliged to send, move, delete or fail; the row of a
\* message is assumed to stay on screen.
Fairness ==
    /\ \A k \in Key :
        /\ WF_vars(HeaderChecked(k))
        /\ WF_vars(ParseRepeated(k) \/ ParseIgnored(k)
                       \/ ParseOriginal(k) \/ ParseReport(k))
        /\ WF_vars(MoveNotification(k))
        /\ WF_vars(DisplayRow(k))
    /\ \A c \in Copy : WF_vars(CopyStopped(c) \/ RetryCopy(c))
    /\ \A m \in Msg : WF_vars(Expire(m))
    /\ WF_vars(FiveSecondsPass)
    /\ WF_vars(CheckDelays)

FairSpec == Spec /\ Fairness

-----------------------------------------------------------------------------
(* Properties *)

\* Every entry of a SQLite row is a report of a notification that was
\* processed and that the user wants, stands in the row of the message it is
\* about, and stands there once, whatever the order of callbacks, repeated
\* arrivals and rebuilt indexes (look-up of addDsnReport and addMdnReport,
\* x-nviewer-seen, preferences parse_dsn and parse_mdn).
LedgerSound ==
    \A rk \in RowKey : \A e \in Recorded(db[rk]) :
        /\ e[1] \in processed
        /\ Kind[e[1]] \in Wanted \cup {"exim"}
        /\ RowOf(e[1]) = rk
        /\ db[rk].count[e] = 1

\* No report is lost: a notification that was processed has all its reports
\* in its row, unless a crash or a failed SQLite write cut its processing
\* short (parseMsg marks it as seen before it does anything else).
LedgerComplete ==
    \A n \in processed : n \in unsaved \/ EntriesOf(n) \subseteq Recorded(db[RowOf(n)])

\* What a message shows in the message list was recorded: an entry in the
\* message database is in the SQLite row of that message too, except for exim
\* bounces, whose row has another key, and for rows that could not be written.
ShownIsRecorded ==
    \A k \in Key : \A e \in Recorded(store[k].copy) :
        /\ Orig[e[1]] = store[k].id
        /\ \/ e[1] \in unsaved
           \/ Kind[e[1]] = "exim"
           \/ e \in Recorded(db[Bare(store[k].id)])

\* A message shown as "good" was delivered to every recipient it was sent to,
\* once its own request has been registered: a notification that came first
\* never makes a partial list of recipients look complete.
GoodIsComplete ==
    \A k \in Key :
        LET h == store[k] IN
        (/\ IsOriginal(h) /\ h.seen = "request" /\ Status(h.copy) = "good"
         /\ h.id \notin unsaved
         /\ \A n \in processed : Kind[n] = "exim" => Orig[n] # h.id)
        => Recipients[h.id] \subseteq Delivered(h.copy)

\* A registered message shows the columns of the notifications it asked for,
\* whether its recipients were new or known from notifications that came
\* first, and whatever row it was synchronised from since.
ColumnsAreShown ==
    \A k \in Key :
        LET h == store[k] IN
        (/\ IsOriginal(h) /\ h.seen = "request" /\ h.id \notin unsaved
         /\ \A n \in processed : Kind[n] = "exim" => Orig[n] # h.id)
        => h.columns = Requests(h.id)

\* A row is checked only while a recipient that was asked for a DSN has not
\* answered, whatever was registered twice or answered early (updateProperties,
\* addDeliveredTo).
NoIdleTimer ==
    \A rk \in waiting : db[rk].dated /\ AwaitedDsn(db[rk]) # {}

\* "a background task to check delays when all DSN have not been received"
\* (main.js:142): as long as its delay runs, a registered message some
\* recipient of which still owes its DSN is among the rows that task checks,
\* also when all its recipients were known from earlier notifications, or
\* when one of them has answered.
DelaysAreWatched ==
    \A rk \in RowKey :
        (db[rk].dated /\ AwaitedDsn(db[rk]) # {} /\ rk[1] \notin expired)
            => rk \in waiting

\* A notification that was moved is never dropped silently: it is in a
\* folder, or being copied, or the user or a fault removed it.
MailKept ==
    \A n \in Notif :
        (\E k \in Key : store[k].id = n) =>
            \/ Live(store, n) # {}
            \/ n \in InFlight
            \/ n \in lostMail

\* One message that arrives stays one message: however often it is read at
\* the same time, it is never in two places, nor in a folder while a copy of
\* it is under way (seen guard of parseMsg, deletion before the copy).
SingleCopy ==
    \A n \in Notif :
        /\ Cardinality(Live(store, n)) + Cardinality(CopiesOf(n)) <= 1
        /\ \A c \in CopiesOf(n) : pending[c] = 1

\* With do_not_thread_failed_notification a notification of failure stays
\* where it is, also when its original turns up later.
FailedStaysPut ==
    KeepFailed => \A n \in Notif : DSNFailed(n) =>
        /\ n \notin InFlight
        /\ \A k \in Key : store[k].id = n => store[k].moveto = NoId

\* A SQLite row never forgets a recipient, a request or a report.
NothingForgotten ==
    [][\A rk \in RowKey :
        /\ Recorded(db[rk]) \subseteq Recorded(db'[rk])
        /\ db[rk].rows \subseteq db'[rk].rows
        /\ \A r \in Recip : db[rk].requests[r] \subseteq db'[rk].requests[r]]_db

\* A report that a message shows stays shown as long as the message keeps its
\* header and the index is not rebuilt: saving data read from SQLite never
\* covers what the header already had.
StaysShown(n) ==
    \A k \in Key : \A e \in EntriesOf(n) \cap Recorded(store[k].copy) :
        (store'[k].seen # "" /\ n \notin unsaved') => e \in Recorded(store'[k].copy)

ReportsStayShown ==
    [][\A n \in Notif : Kind[n] # "exim" => StaysShown(n)]_<<store, unsaved>>

\* "add-on now handles Exim bounce messages" (notification-viewer/ChangeLog:3):
\* the failure such a bounce reports stays shown like that of any report.
BouncesStayShown ==
    [][\A n \in Notif : Kind[n] = "exim" => StaysShown(n)]_<<store, unsaved>>

\* Seen from its entries, the SQLite table is a ReportLedger: a step of the
\* add-on records all the reports of one notification in its own row, or
\* leaves the table alone; there is no partial or misplaced record.
Ledger == INSTANCE ReportLedger WITH
    Row     <- RowKey,
    Notice  <- Notif,
    Owner   <- [n \in Notif |-> RowOf(n)],
    Entries <- [n \in Notif |-> EntriesOf(n)],
    ledger  <- [rk \in RowKey |-> Recorded(db[rk])]

ImplementsLedger == Ledger!Spec

\* A registered message that stays in its folder ends up showing the reports
\* that the SQLite database holds for it.
EventuallyShown ==
    \A k \in Key : \A m \in Msg :
        <>[](\/ store[k].id # m \/ store[k].st # "live" \/ store[k].seen # "request"
             \/ Settle(store[k].copy) = Settle(db[Bare(m)]))

\* A message is not checked for ever: its row leaves the list of those
\* that wait for an answer, because the answers came or the delay ran out.
WaitEnds == \A rk \in RowKey : rk \in waiting ~> rk \notin waiting

\* Once a notification and its original have both been parsed, in whatever
\* order they came, the notification ends up in the thread of the original,
\* unless it is a failure that is to stay where it is.
Threaded(n) ==
    /\ Live(store, n) # {}
    /\ \A k \in Live(store, n) : \A o \in Find(store, Orig[n]) :
        store[k].folder = store[o].folder /\ store[k].parent = o

ThreadedAtLast ==
    \A n \in Notif :
        <>[]((/\ n \in processed /\ ~(KeepFailed /\ DSNFailed(n))
              /\ \E o \in Find(store, Orig[n]) : store[o].seen # "")
             => Threaded(n))
=============================================================================
