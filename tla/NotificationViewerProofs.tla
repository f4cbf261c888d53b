----------------------- MODULE NotificationViewerProofs -----------------------
(***************************************************************************)
(* Theorems about NotificationViewer for every value of the constants:     *)
(* type correctness, the ledger of reports, and the implementation of      *)
(* ReportLedger.                                                           *)
(***************************************************************************)
EXTENDS NotificationViewer, NotificationDataProofs

\* A read for a deferred move was started for a notification.
MovesNotifications ==
    \A k \in Key : streams[<<"move", k>>] > 0 =>
        store[k].id \in Notif /\ store[k].st # "free"

TypeInv == TypeOK /\ MovesNotifications

Stores == [Key -> Header]

-----------------------------------------------------------------------------
(* The helpers return values of the right type *)

LEMMA RowOfType == \A n \in Notif : RowOf(n) \in RowKey
BY ConstantsAssumption DEF RowOf, RowKey, Bare

LEMMA FreshHeaderType ==
    ASSUME NEW id \in Msg \cup Notif \cup {NoId}, NEW f \in Folder,
           NEW p \in Key \cup {NoKey}
    PROVE  FreshHeader(id, f, p) \in Header
BY EmptyDataType DEF FreshHeader, Header

LEMMA LoadType ==
    ASSUME NEW d \in Data, NEW m
    PROVE  /\ Load(d, m) \in Object
           /\ Load(d, m).data = Settle(d)
           /\ Honest(Load(d, m))
           /\ Load(d, m).timedOut => m \in expired
<1> DEFINE overdue == m \in expired
<1>1. overdue \in BOOLEAN /\ Load(d, m) = UpdateProperties(d, overdue)
  BY DEF Load
<1> HIDE DEF overdue
<1>2. /\ Load(d, m) \in Object /\ Load(d, m).data = Settle(d)
      /\ Honest(Load(d, m)) /\ (Load(d, m).timedOut => overdue)
  BY <1>1, UpdatePropertiesType
<1> QED
  BY <1>2 DEF overdue

LEMMA SaveInMessageDbType ==
    ASSUME NEW s \in Stores, NEW ks, NEW o \in Object
    PROVE  /\ SaveInMessageDb(s, ks, o) \in Stores
           /\ \A k \in Key : /\ SaveInMessageDb(s, ks, o)[k].id = s[k].id
                             /\ SaveInMessageDb(s, ks, o)[k].st = s[k].st
<1>1. o.data \in Data /\ o.timedOut \in BOOLEAN /\ o.columns \in SUBSET Request
  BY DEF Object
<1>2. ASSUME NEW h \in Header
      PROVE  LET g == [h EXCEPT !.copy = o.data,
                                !.late = o.timedOut,
                                !.columns = o.columns,
                                !.synced = TRUE, !.recent = TRUE]
             IN g \in Header /\ g.id = h.id /\ g.st = h.st
  BY <1>1 DEF Header
<1>3. \A k \in Key : s[k] \in Header
  BY DEF Stores
<1> QED
  BY <1>2, <1>3 DEF SaveInMessageDb, Stores

LEMMA OutdateType ==
    ASSUME NEW s \in Stores, NEW rks, NEW spared
    PROVE  /\ Outdate(s, rks, spared) \in Stores
           /\ \A k \in Key : /\ Outdate(s, rks, spared)[k].id = s[k].id
                             /\ Outdate(s, rks, spared)[k].st = s[k].st
<1>1. ASSUME NEW h \in Header
      PROVE  LET g == [h EXCEPT !.synced = FALSE]
             IN g \in Header /\ g.id = h.id /\ g.st = h.st
  BY DEF Header
<1>2. \A k \in Key : s[k] \in Header
  BY DEF Stores
<1> QED
  BY <1>1, <1>2 DEF Outdate, Stores

\* moveNotificationWithSource deletes at most the header it is given.
Outcome(s, out) ==
    /\ out.store \in Stores
    /\ out.copies \in SUBSET Copy
    /\ out.lost \subseteq Notif
    /\ \A k \in Key : /\ out.store[k].id = s[k].id
                      /\ s[k].st # "free" => out.store[k].st # "free"

LEMMA ThreadOutcomesType ==
    ASSUME NEW s \in Stores, NEW k \in Key, s[k].id \in Notif,
           NEW f \in Folder,
           NEW out \in ThreadOutcomes(s, k, f)
    PROVE  Outcome(s, out)
<1>1. Accepted(s[k].id, f) \in Copy
  BY ConstantsAssumption DEF Accepted, Copy
<1>2. MaxAttempts > 1 => Refused(s[k].id, f, 1) \in Copy
  BY ConstantsAssumption DEF Refused, Copy
<1> DEFINE gone == [s EXCEPT ![k].st = "gone", ![k].moveto = NoId]
           kept == [s EXCEPT ![k].moveto = NoId]
<1>3. /\ gone \in Stores
      /\ \A j \in Key : /\ gone[j].id = s[j].id
                        /\ s[j].st # "free" => gone[j].st # "free"
  <2> DEFINE h == [[s[k] EXCEPT !.st = "gone"] EXCEPT !.moveto = NoId]
  <2>1. h \in Header /\ h.id = s[k].id /\ h.st = "gone"
    <3>1. s[k] \in Header
      BY DEF Stores
    <3> QED
      BY <3>1 DEF Header
  <2>2. gone = [s EXCEPT ![k] = h]
    BY DEF Stores
  <2> HIDE DEF h, gone
  <2>3. gone \in Stores /\ gone[k] = h /\ \A j \in Key : j # k => gone[j] = s[j]
    BY <2>1, <2>2 DEF Stores
  <2> QED
    BY <2>1, <2>3
<1>4. /\ kept \in Stores
      /\ \A j \in Key : kept[j].id = s[j].id /\ kept[j].st = s[j].st
  <2> DEFINE h == [s[k] EXCEPT !.moveto = NoId]
  <2>1. h \in Header /\ h.id = s[k].id /\ h.st = s[k].st
    <3>1. s[k] \in Header
      BY DEF Stores
    <3> QED
      BY <3>1 DEF Header
  <2>2. kept = [s EXCEPT ![k] = h]
    BY DEF Stores
  <2> HIDE DEF h, kept
  <2>3. kept \in Stores /\ kept[k] = h /\ \A j \in Key : j # k => kept[j] = s[j]
    BY <2>1, <2>2 DEF Stores
  <2> QED
    BY <2>1, <2>3
<1>5. \/ out = [store |-> gone, copies |-> {Accepted(s[k].id, f)}, lost |-> {}]
      \/ out = [store |-> gone,
                copies |-> IF MaxAttempts > 1 THEN {Refused(s[k].id, f, 1)} ELSE {},
                lost |-> IF MaxAttempts > 1 THEN {} ELSE {s[k].id}]
      \/ out = [store |-> kept, copies |-> {}, lost |-> {}]
  BY DEF ThreadOutcomes
<1> HIDE DEF gone, kept
<1> QED
  BY <1>1, <1>2, <1>3, <1>4, <1>5 DEF Outcome

LEMMA MoveOutcomesType ==
    ASSUME NEW s \in Stores, NEW k \in Key, s[k].id \in Notif,
           NEW sought \in RowKey, NEW failed,
           NEW out \in MoveOutcomes(s, k, sought, failed)
    PROVE  Outcome(s, out)
<1>1. ASSUME NEW x \in RowKey \cup {NoId}
      PROVE  /\ [s EXCEPT ![k].moveto = x] \in Stores
             /\ \A j \in Key : /\ [s EXCEPT ![k].moveto = x][j].id = s[j].id
                               /\ [s EXCEPT ![k].moveto = x][j].st = s[j].st
  <2> DEFINE h == [s[k] EXCEPT !.moveto = x]
             t == [s EXCEPT ![k].moveto = x]
  <2>1. h \in Header /\ h.id = s[k].id /\ h.st = s[k].st
    <3>1. s[k] \in Header
      BY DEF Stores
    <3> QED
      BY <3>1 DEF Header
  <2>2. t = [s EXCEPT ![k] = h]
    BY DEF Stores
  <2> HIDE DEF h, t
  <2>3. t \in Stores /\ t[k] = h /\ \A j \in Key : j # k => t[j] = s[j]
    BY <2>1, <2>2 DEF Stores
  <2>4. t \in Stores /\ \A j \in Key : t[j].id = s[j].id /\ t[j].st = s[j].st
    BY <2>1, <2>3
  <2> QED
    BY <2>4 DEF t
<1>2. Find(s, sought[1]) \subseteq Key
  BY DEF Find, Searchable, Live
<1>3. \A o \in Key : s[o].folder \in Folder
  BY DEF Stores, Header
<1>4. ASSUME NEW t \in Stores,
             \A j \in Key : t[j].id = s[j].id /\ t[j].st = s[j].st,
             out = [store |-> t, copies |-> {}, lost |-> {}]
      PROVE  Outcome(s, out)
  BY <1>4 DEF Outcome
<1>5. ASSUME NEW o \in Find(s, sought[1]), out \in ThreadOutcomes(s, k, s[o].folder)
      PROVE  Outcome(s, out)
  BY <1>2, <1>3, <1>5, ThreadOutcomesType
<1>6. \/ out = [store |-> s, copies |-> {}, lost |-> {}]
      \/ out = [store |-> [s EXCEPT ![k].moveto = sought], copies |-> {}, lost |-> {}]
      \/ out = [store |-> [s EXCEPT ![k].moveto = NoId], copies |-> {}, lost |-> {}]
      \/ \E o \in Find(s, sought[1]) : out \in ThreadOutcomes(s, k, s[o].folder)
  BY DEF MoveOutcomes
<1> QED
  BY <1>1, <1>4, <1>5, <1>6

LEMMA StartCopiesType ==
    ASSUME NEW copies, pending \in [Copy -> Nat], StartCopies(copies)
    PROVE  pending' \in [Copy -> Nat]
BY DEF StartCopies

LEMMA InFlightType == InFlight \subseteq Notif
BY DEF InFlight

\* The two ways saveNotificationData may end.
LEMMA SaveType ==
    ASSUME NEW s \in Stores, NEW ks, NEW rk \in RowKey, NEW o \in Object,
           NEW source \in Msg \cup Notif,
           TypeOK, SaveNotificationData(s, ks, rk, o, source)
    PROVE  /\ store' \in Stores
           /\ db' \in [RowKey -> Data]
           /\ waiting' \subseteq RowKey
           /\ unsaved' \subseteq Msg \cup Notif
           /\ \A k \in Key : store'[k].id = s[k].id /\ store'[k].st = s[k].st
<1>1. SaveInMessageDb(s, ks, o) \in Stores
  BY SaveInMessageDbType
<1>2. \A k \in Key : /\ SaveInMessageDb(s, ks, o)[k].id = s[k].id
                     /\ SaveInMessageDb(s, ks, o)[k].st = s[k].st
  BY SaveInMessageDbType
<1>3. CASE WriteRow(rk, o) /\ (\E spared : store' = Outdate(SaveInMessageDb(s, ks, o), {rk}, spared))
           /\ unsaved' = unsaved \ ({source} \cap Notif)
  <2>1. store' \in Stores
        /\ \A k \in Key : store'[k].id = s[k].id /\ store'[k].st = s[k].st
    BY <1>1, <1>2, <1>3, OutdateType
  <2>2. db' \in [RowKey -> Data] /\ waiting' \subseteq RowKey
    BY <1>3 DEF WriteRow, TypeOK, Object
  <2> QED
    BY <1>3, <2>1, <2>2 DEF TypeOK
<1>4. CASE store' = SaveInMessageDb(s, ks, o) /\ unsaved' = unsaved \cup {source}
           /\ UNCHANGED <<db, waiting>>
  BY <1>1, <1>2, <1>4 DEF TypeOK
<1> QED
  BY <1>3, <1>4 DEF SaveNotificationData

-----------------------------------------------------------------------------
(* Type correctness *)

LEMMA AddType ==
    ASSUME NEW S, NEW bag \in [S -> Nat], NEW x \in S
    PROVE  Add(bag, x) \in [S -> Nat]
BY DEF Add

LEMMA TakeType ==
    ASSUME NEW S, NEW bag \in [S -> Nat], NEW x \in S, bag[x] > 0
    PROVE  /\ Take(bag, x) \in [S -> Nat]
           /\ \A y \in S : Take(bag, x)[y] > 0 => bag[y] > 0
BY DEF Take

LEMMA StreamType ==
    \A k \in Key : /\ <<"check", k>> \in Stream
                   /\ <<"parse", k>> \in Stream
                   /\ <<"move", k>> \in Stream
BY DEF Stream

\* A header that was given out keeps its identity.
HeadersStay ==
    \A k \in Key : store[k].st # "free" =>
        store'[k].id = store[k].id /\ store'[k].st # "free"

NoNewMove ==
    \A k \in Key : streams'[<<"move", k>>] > 0 => streams[<<"move", k>>] > 0

LEMMA MovesStep ==
    ASSUME MovesNotifications, HeadersStay, NoNewMove
    PROVE  MovesNotifications'
BY DEF MovesNotifications, HeadersStay, NoNewMove

LEMMA ItemAddedType ==
    ASSUME NEW s \in Stores, NEW k \in Key, streams \in [Stream -> Nat]
    PROVE  /\ ItemAdded(s, k) \in [Stream -> Nat]
           /\ \A j \in Key : ItemAdded(s, k)[<<"move", j>>] > 0
                              => streams[<<"move", j>>] > 0
<1>1. <<"check", k>> \in Stream
  BY StreamType
<1>2. Add(streams, <<"check", k>>) \in [Stream -> Nat]
  BY <1>1, AddType
<1>3. \A j \in Key : Add(streams, <<"check", k>>)[<<"move", j>>] = streams[<<"move", j>>]
  BY StreamType DEF Add
<1> QED
  BY <1>2, <1>3 DEF ItemAdded

\* A new header takes a free key, and a read of its header lines begins.
LEMMA NewHeaderType ==
    ASSUME TypeOK, NEW k \in Key, IsNew(k),
           NEW id \in Msg \cup Notif, NEW f \in Folder, NEW p \in Key \cup {NoKey},
           store' = [store EXCEPT ![k] = FreshHeader(id, f, p)],
           streams' = ItemAdded(store', k)
    PROVE  /\ store' \in Stores
           /\ streams' \in [Stream -> Nat]
           /\ HeadersStay
           /\ NoNewMove
<1>1. FreshHeader(id, f, p) \in Header
  BY FreshHeaderType
<1>2. store' \in Stores
  BY <1>1 DEF TypeOK, Stores
<1>3. HeadersStay
  BY DEF HeadersStay, IsNew, TypeOK
<1>4. streams \in [Stream -> Nat]
  BY DEF TypeOK
<1> QED
  BY <1>2, <1>3, <1>4, ItemAddedType DEF NoNewMove

LEMMA TypeInit == Init => TypeInv
<1> SUFFICES ASSUME Init PROVE TypeInv
  OBVIOUS
<1>1. NoHeader \in Header
  <2>1. FreshHeader(NoId, Inbox, NoKey) \in Header
    BY FreshHeaderType, ConstantsAssumption
  <2> QED
    BY <2>1 DEF NoHeader, Header
<1>2. MovesNotifications
  <2>1. streams = [x \in Stream |-> 0]
    BY DEF Init
  <2>2. \A k \in Key : streams[<<"move", k>>] = 0
    BY <2>1, StreamType
  <2> QED
    BY <2>2 DEF MovesNotifications
<1>3. TypeOK
  BY <1>1, EmptyDataType DEF Init, TypeOK
<1> QED
  BY <1>2, <1>3 DEF TypeInv

\* Every action keeps the types; actions are taken in the order of Next.
LEMMA TypeDeliver ==
    ASSUME TypeInv, NEW n \in Notif, Deliver(n)
    PROVE  TypeInv'
<1>1. PICK k \in Key : /\ IsNew(k)
                       /\ store' = [store EXCEPT ![k] = FreshHeader(n, Inbox, NoKey)]
                       /\ streams' = ItemAdded(store', k)
  BY DEF Deliver
<1>2. Inbox \in Folder
  BY ConstantsAssumption
<1>3. /\ store' \in Stores /\ streams' \in [Stream -> Nat]
      /\ HeadersStay /\ NoNewMove
  BY <1>1, <1>2, NewHeaderType DEF TypeInv
<1> QED
  BY <1>3, MovesStep DEF TypeInv, TypeOK, Deliver, history, Stores

LEMMA TypeFileSent ==
    ASSUME TypeInv, NEW m \in Msg, NEW f \in Folder, FileSent(m, f)
    PROVE  TypeInv'
<1>1. PICK k \in Key : /\ IsNew(k)
                       /\ store' = [store EXCEPT ![k] = FreshHeader(m, f, NoKey)]
                       /\ streams' = ItemAdded(store', k)
  BY DEF FileSent
<1>2. /\ store' \in Stores /\ streams' \in [Stream -> Nat]
      /\ HeadersStay /\ NoNewMove
  BY <1>1, NewHeaderType DEF TypeInv
<1> QED
  BY <1>2, MovesStep DEF TypeInv, TypeOK, FileSent, history, Stores

\* Steps of the reads that leave the headers alone.
LEMMA TypeStreams ==
    ASSUME TypeInv, streams' \in [Stream -> Nat], NoNewMove, UNCHANGED store,
           UNCHANGED <<pending, db, waiting, expired, history>>
    PROVE  TypeInv'
<1>1. HeadersStay
  BY DEF HeadersStay
<1> QED
  BY <1>1, MovesStep DEF TypeInv, TypeOK, history

LEMMA TypeHeaderChecked ==
    ASSUME TypeInv, NEW k \in Key, HeaderChecked(k)
    PROVE  TypeInv'
<1> DEFINE taken == Take(streams, <<"check", k>>)
<1>1. streams \in [Stream -> Nat] /\ streams[<<"check", k>>] > 0
  BY DEF TypeInv, TypeOK, HeaderChecked
<1>2. taken \in [Stream -> Nat] /\ \A x \in Stream : taken[x] > 0 => streams[x] > 0
  BY <1>1, StreamType, TakeType
<1> HIDE DEF taken
<1>3. /\ Add(taken, <<"parse", k>>) \in [Stream -> Nat]
      /\ \A j \in Key : Add(taken, <<"parse", k>>)[<<"move", j>>] = taken[<<"move", j>>]
  <2>1. Add(taken, <<"parse", k>>) \in [Stream -> Nat]
    BY <1>2, StreamType, AddType
  <2>2. ASSUME NEW j \in Key
        PROVE  Add(taken, <<"parse", k>>)[<<"move", j>>] = taken[<<"move", j>>]
    BY <1>2, StreamType DEF Add
  <2> QED
    BY <2>1, <2>2
<1>4. streams' = Add(taken, <<"parse", k>>) \/ streams' = taken
  BY DEF HeaderChecked, taken
<1>5. streams' \in [Stream -> Nat] /\ NoNewMove
  BY <1>2, <1>3, <1>4, StreamType DEF NoNewMove
<1> QED
  BY <1>5, TypeStreams DEF HeaderChecked

\* A read ends: one less of its kind.
LEMMA StreamTaken ==
    ASSUME TypeOK, NEW x \in Stream, streams[x] > 0, streams' = Take(streams, x)
    PROVE  streams' \in [Stream -> Nat] /\ NoNewMove
<1>1. streams \in [Stream -> Nat]
  BY DEF TypeOK
<1> QED
  BY <1>1, TakeType, StreamType DEF NoNewMove

LEMMA TypeStreamFailed ==
    ASSUME TypeInv, NEW x \in Stream, StreamFailed(x)
    PROVE  TypeInv'
BY StreamTaken, TypeStreams DEF StreamFailed, TypeInv

LEMMA TypeParseRepeated ==
    ASSUME TypeInv, NEW k \in Key, ParseRepeated(k)
    PROVE  TypeInv'
BY StreamTaken, StreamType, TypeStreams DEF ParseRepeated, TypeInv

\* Steps of the headers that leave the reads alone, or only end some.
LEMMA TypeStores ==
    ASSUME TypeInv, store' \in Stores, HeadersStay,
           streams' \in [Stream -> Nat], NoNewMove,
           pending' \in [Copy -> Nat], db' \in [RowKey -> Data],
           waiting' \subseteq RowKey, expired' \subseteq Msg,
           processed' \subseteq Notif, unsaved' \subseteq Msg \cup Notif,
           lostMail' \subseteq Notif
    PROVE  TypeInv'
BY MovesStep DEF TypeInv, TypeOK, Stores

LEMMA SeenType ==
    ASSUME TypeOK, NEW k \in Key, NEW x \in {"", "yes", "request"}
    PROVE  /\ [store EXCEPT ![k].seen = x] \in Stores
           /\ \A j \in Key : /\ [store EXCEPT ![k].seen = x][j].id = store[j].id
                             /\ [store EXCEPT ![k].seen = x][j].st = store[j].st
<1> DEFINE h == [store[k] EXCEPT !.seen = x]
           t == [store EXCEPT ![k].seen = x]
<1>1. store[k] \in Header
  BY DEF TypeOK
<1>2. h \in Header /\ h.id = store[k].id /\ h.st = store[k].st
  BY <1>1 DEF Header
<1>3. t = [store EXCEPT ![k] = h]
  BY DEF TypeOK
<1> HIDE DEF h, t
<1>4. t \in Stores /\ t[k] = h /\ \A j \in Key : j # k => t[j] = store[j]
  BY <1>2, <1>3 DEF TypeOK, Stores
<1>5. t \in Stores /\ \A j \in Key : t[j].id = store[j].id /\ t[j].st = store[j].st
  BY <1>2, <1>4
<1> QED
  BY <1>5 DEF t

LEMMA TypeParseIgnored ==
    ASSUME TypeInv, NEW k \in Key, ParseIgnored(k)
    PROVE  TypeInv'
<1>1. store' \in Stores /\ HeadersStay
  BY SeenType DEF ParseIgnored, HeadersStay, TypeInv
<1>2. streams' \in [Stream -> Nat] /\ NoNewMove
  BY StreamTaken, StreamType DEF ParseIgnored, TypeInv
<1> QED
  BY <1>1, <1>2, TypeStores DEF ParseIgnored, TypeInv, TypeOK, history

\* The notifications sent for are headers of notifications.
LEMMA WaitingForType ==
    ASSUME TypeOK, NEW m \in Msg
    PROVE  \A h \in WaitingFor(m) :
             h \in Key /\ store[h].id \in Notif /\ store[h].st = "live"
<1>1. \A e \in Recorded(db[Bare(m)]) : e[1] \in Notif
  BY EntryOwner DEF Recorded
<1> QED
  BY <1>1 DEF WaitingFor, Find, Searchable, Live

LEMMA TypeParseOriginal ==
    ASSUME TypeInv, NEW k \in Key, ParseOriginal(k)
    PROVE  TypeInv'
<1> DEFINE m     == store[k].id
           known == Load([db[Bare(m)] EXCEPT !.dated = TRUE], m)
           ks    == IF known.data.rows = {} THEN {} ELSE {k}
           asked == Load(AddDeliveredTo(known.data, Recipients[m], Requests(m)), m)
<1>1. TypeOK /\ m \in Msg
  BY DEF TypeInv, ParseOriginal
<1>2. Bare(m) \in RowKey
  BY <1>1 DEF Bare, RowKey
<1>3. known \in Object
  <2>1. [db[Bare(m)] EXCEPT !.dated = TRUE] \in Data
    BY <1>1, <1>2 DEF TypeOK, Data
  <2> QED
    BY <2>1, LoadType
<1>4. Recipients[m] \in SUBSET Recip /\ Requests(m) \in SUBSET Request
  BY <1>1, ConstantsAssumption DEF Requests
<1>5. asked \in Object
  <2> DEFINE wanted == Requests(m)
  <2>1. wanted \in SUBSET Request
    BY <1>4
  <2> HIDE DEF wanted, known
  <2>2. known.data \in Data
    BY <1>3 DEF Object
  <2>3. AddDeliveredTo(known.data, Recipients[m], wanted) \in Data
    BY <1>4, <2>1, <2>2, AddDeliveredToType
  <2> QED
    BY <2>3, LoadType DEF wanted
<1>6. \A h \in WaitingFor(m) :
        h \in Key /\ store[h].id \in Notif /\ store[h].st = "live"
  BY <1>1, WaitingForType
<1> HIDE DEF known, asked
<1>7. /\ store' \in Stores /\ HeadersStay
      /\ db' \in [RowKey -> Data] /\ waiting' \subseteq RowKey
      /\ unsaved' \subseteq Msg \cup Notif
  <2>1. CASE SaveNotificationData([store EXCEPT ![k].seen = "request"],
                                  {k}, Bare(m), asked, m)
    <3> DEFINE t == [store EXCEPT ![k].seen = "request"]
    <3>1. t \in Stores /\ \A j \in Key : t[j].id = store[j].id /\ t[j].st = store[j].st
      BY <1>1, SeenType
    <3> HIDE DEF t
    <3>2. SaveNotificationData(t, {k}, Bare(m), asked, m)
      BY <2>1 DEF t
    <3>3. /\ store' \in Stores
          /\ db' \in [RowKey -> Data] /\ waiting' \subseteq RowKey
          /\ unsaved' \subseteq Msg \cup Notif
          /\ \A j \in Key : store'[j].id = t[j].id /\ store'[j].st = t[j].st
      BY <1>1, <1>2, <1>5, <3>1, <3>2, SaveType
    <3> QED
      BY <3>1, <3>3 DEF HeadersStay
  <2>2. CASE /\ store' = SaveInMessageDb([store EXCEPT ![k].seen = "yes"], ks, known)
             /\ UNCHANGED <<db, waiting, unsaved>>
    <3> DEFINE t == [store EXCEPT ![k].seen = "yes"]
    <3>1. t \in Stores /\ \A j \in Key : t[j].id = store[j].id /\ t[j].st = store[j].st
      BY <1>1, SeenType
    <3> HIDE DEF t, ks
    <3>2. store' = SaveInMessageDb(t, ks, known)
      BY <2>2 DEF t
    <3>3. /\ store' \in Stores
          /\ \A j \in Key : store'[j].id = t[j].id /\ store'[j].st = t[j].st
      BY <1>3, <3>1, <3>2, SaveInMessageDbType
    <3> QED
      BY <1>1, <2>2, <3>1, <3>3 DEF HeadersStay, TypeOK
  <2> QED
    BY <2>1, <2>2 DEF ParseOriginal, asked, known, ks
<1>8. /\ streams' \in [Stream -> Nat]
      /\ \A j \in Key : streams'[<<"move", j>>] > 0 =>
            streams[<<"move", j>>] > 0 \/ j \in WaitingFor(m)
  <2>1. /\ streams \in [Stream -> Nat]
        /\ streams[<<"parse", k>>] > 0
        /\ streams' = [s \in Stream |->
                         IF s = <<"parse", k>> THEN streams[s] - 1
                         ELSE IF s[1] = "move" /\ s[2] \in WaitingFor(m)
                              THEN streams[s] + 1
                              ELSE streams[s]]
    BY DEF ParseOriginal, TypeInv, TypeOK
  <2>2. ASSUME NEW j \in Key, streams'[<<"move", j>>] > 0, j \notin WaitingFor(m)
        PROVE  streams[<<"move", j>>] > 0
    BY <2>1, <2>2, StreamType
  <2>3. streams' \in [Stream -> Nat]
    BY <2>1
  <2> QED
    BY <2>2, <2>3
<1>9. MovesNotifications'
  BY <1>6, <1>7, <1>8 DEF MovesNotifications, HeadersStay, TypeInv
<1>10. UNCHANGED <<pending, expired, processed, lostMail>>
  BY DEF ParseOriginal
<1> QED
  BY <1>7, <1>8, <1>9, <1>10 DEF TypeInv, TypeOK, Stores

LEMMA TypeParseReport ==
    ASSUME TypeInv, NEW k \in Key, ParseReport(k)
    PROVE  TypeInv'
<1> DEFINE n     == store[k].id
           read  == [store EXCEPT ![k].seen = "yes"]
           o     == Load(AddReports(db[RowOf(n)], n), Orig[n])
           found == Find(read, Orig[n])
           failed == DSNFailed(n)
<1>1. TypeOK /\ n \in Notif /\ RowOf(n) \in RowKey
  BY RowOfType DEF TypeInv, ParseReport
<1>2. o \in Object
  BY <1>1, AddReportsType, LoadType DEF TypeOK
<1>10. /\ read \in Stores
       /\ \A j \in Key : read[j].id = store[j].id /\ read[j].st = store[j].st
  BY <1>1, SeenType
<1> HIDE DEF read, o, found, failed
<1>3. PICK out \in MoveOutcomes(read, k, RowOf(n), failed) :
        /\ SaveNotificationData(out.store, found, RowOf(n), o, n)
        /\ StartCopies(out.copies)
        /\ lostMail' = lostMail \cup out.lost
  BY DEF ParseReport, read, o, found, failed
<1>4. /\ out.store \in Stores /\ out.copies \in SUBSET Copy /\ out.lost \subseteq Notif
      /\ \A j \in Key : /\ out.store[j].id = store[j].id
                        /\ store[j].st # "free" => out.store[j].st # "free"
  <2>1. Outcome(read, out)
    BY <1>1, <1>3, <1>10, MoveOutcomesType
  <2> QED
    BY <1>10, <2>1 DEF Outcome
<1>5. /\ store' \in Stores
      /\ db' \in [RowKey -> Data] /\ waiting' \subseteq RowKey
      /\ unsaved' \subseteq Msg \cup Notif
      /\ \A j \in Key : store'[j].id = out.store[j].id /\ store'[j].st = out.store[j].st
  BY <1>1, <1>2, <1>3, <1>4, SaveType
<1>6. HeadersStay
  BY <1>4, <1>5 DEF HeadersStay
<1>7. streams' \in [Stream -> Nat] /\ NoNewMove
  BY StreamTaken, StreamType DEF ParseReport, TypeInv
<1>8. pending' \in [Copy -> Nat]
  BY <1>3, StartCopiesType DEF TypeInv, TypeOK
<1>9. /\ lostMail' \subseteq Notif /\ processed' \subseteq Notif /\ expired' \subseteq Msg
  BY <1>1, <1>3, <1>4 DEF ParseReport, TypeOK
<1> QED
  BY <1>5, <1>6, <1>7, <1>8, <1>9, TypeStores

LEMMA TypeMoveNotification ==
    ASSUME TypeInv, NEW k \in Key, MoveNotification(k)
    PROVE  TypeInv'
<1> DEFINE sought == Bare(Orig[store[k].id])
<1>1. TypeOK /\ store[k].id \in Notif
  BY DEF TypeInv, MovesNotifications, MoveNotification
<1>2. sought \in RowKey
  BY <1>1, ConstantsAssumption DEF Bare, RowKey
<1>3. PICK out \in MoveOutcomes(store, k, sought, FALSE) :
        /\ store' = out.store
        /\ StartCopies(out.copies)
        /\ lostMail' = lostMail \cup out.lost
  BY DEF MoveNotification
<1> HIDE DEF sought
<1>4. Outcome(store, out)
  BY <1>1, <1>2, <1>3, MoveOutcomesType DEF TypeOK, Stores
<1>5. store' \in Stores /\ HeadersStay
  BY <1>3, <1>4 DEF Outcome, HeadersStay
<1>6. streams' \in [Stream -> Nat] /\ NoNewMove
  BY <1>1, StreamTaken, StreamType DEF MoveNotification
<1>7. pending' \in [Copy -> Nat]
  BY <1>3, StartCopiesType DEF TypeInv, TypeOK
<1>8. lostMail' \subseteq Notif
  BY <1>1, <1>3, <1>4 DEF Outcome, TypeOK
<1> QED
  BY <1>1, <1>5, <1>6, <1>7, <1>8, TypeStores DEF MoveNotification, TypeOK

LEMMA TypeCopyStopped ==
    ASSUME TypeInv, NEW c \in Copy, CopyStopped(c)
    PROVE  TypeInv'
<1>1. c.id \in Notif /\ c.folder \in Folder
  BY DEF Copy
<1>2. Parents(store, Orig[c.id], c.folder) \subseteq Key \cup {NoKey}
  BY DEF Parents, Live
<1>3. PICK k \in Key, p \in Parents(store, Orig[c.id], c.folder) :
        /\ IsNew(k)
        /\ store' = [store EXCEPT ![k] = FreshHeader(c.id, c.folder, p)]
        /\ streams' = ItemAdded(store', k)
  BY DEF CopyStopped
<1>4. /\ store' \in Stores /\ streams' \in [Stream -> Nat]
      /\ HeadersStay /\ NoNewMove
  BY <1>1, <1>2, <1>3, NewHeaderType DEF TypeInv
<1>5. pending' \in [Copy -> Nat]
  BY TakeType DEF CopyStopped, TypeInv, TypeOK
<1> QED
  BY <1>4, <1>5, TypeStores DEF CopyStopped, TypeInv, TypeOK, history

\* Steps of the copy service that touch no header.
LEMMA TypeCopyFailed ==
    ASSUME TypeInv, NEW c \in Copy, CopyFailed(c) \/ RetryCopy(c)
    PROVE  TypeInv'
<1>1. c.id \in Notif /\ c.folder \in Folder /\ pending[c] > 0 /\ pending \in [Copy -> Nat]
  BY DEF Copy, CopyFailed, RetryCopy, TypeInv, TypeOK
<1>2. Take(pending, c) \in [Copy -> Nat]
  BY <1>1, TakeType
<1>3. Accepted(c.id, c.folder) \in Copy
  BY <1>1, ConstantsAssumption DEF Accepted, Copy
<1>4. c.count + 1 < MaxAttempts => [c EXCEPT !.count = @ + 1] \in Copy
  BY ConstantsAssumption DEF Copy
<1>5. pending' \in [Copy -> Nat]
  BY <1>1, <1>2, <1>3, <1>4, AddType DEF CopyFailed, RetryCopy
<1>6. lostMail' \subseteq Notif
  BY <1>1 DEF CopyFailed, RetryCopy, TypeInv, TypeOK
<1>7. UNCHANGED <<store, streams, db, waiting, expired, processed, unsaved>>
  BY DEF CopyFailed, RetryCopy
<1> QED
  BY <1>5, <1>6, <1>7 DEF TypeInv, TypeOK, MovesNotifications

LEMMA TypeDisplayRow ==
    ASSUME TypeInv, NEW k \in Key, DisplayRow(k)
    PROVE  TypeInv'
<1> DEFINE m == store[k].id
           d == db[Bare(m)]
<1>1. TypeOK
  BY DEF TypeInv
<1>2. streams' \in [Stream -> Nat] /\ NoNewMove
  <2>1. streams \in [Stream -> Nat] /\ <<"parse", k>> \in Stream
    BY <1>1, StreamType DEF TypeOK
  <2>2. Add(streams, <<"parse", k>>) \in [Stream -> Nat]
    BY <2>1, AddType
  <2>3. \A j \in Key : Add(streams, <<"parse", k>>)[<<"move", j>>] = streams[<<"move", j>>]
    BY <2>1, StreamType DEF Add
  <2> QED
    BY <2>1, <2>2, <2>3 DEF DisplayRow, NoNewMove
<1>3. store' \in Stores /\ HeadersStay
  <2>1. CASE UNCHANGED store
    BY <1>1, <2>1 DEF TypeOK, Stores, HeadersStay
  <2>2. CASE store' = [store EXCEPT ![k].recent = TRUE, ![k].synced = TRUE]
    <3> DEFINE h == [[store[k] EXCEPT !.recent = TRUE] EXCEPT !.synced = TRUE]
    <3>1. store[k] \in Header
      BY <1>1 DEF TypeOK
    <3>2. h \in Header /\ h.id = store[k].id /\ h.st = store[k].st
      BY <3>1 DEF Header
    <3>3. store' = [store EXCEPT ![k] = h]
      BY <1>1, <2>2 DEF TypeOK
    <3> HIDE DEF h
    <3>4. store' \in Stores /\ store'[k] = h /\ \A j \in Key : j # k => store'[j] = store[j]
      BY <1>1, <3>2, <3>3 DEF TypeOK, Stores
    <3> QED
      BY <3>2, <3>4 DEF HeadersStay
  <2>3. CASE m \in Msg /\ store' = SaveInMessageDb(store, {k}, Load(d, m))
    <3>1. Bare(m) \in RowKey
      BY <2>3 DEF Bare, RowKey
    <3>2. Load(d, m) \in Object
      BY <1>1, <3>1, LoadType DEF TypeOK
    <3> HIDE DEF d, m
    <3> QED
      BY <1>1, <2>3, <3>2, SaveInMessageDbType DEF TypeOK, Stores, HeadersStay
  <2> QED
    BY <2>1, <2>2, <2>3 DEF DisplayRow, SyncMessageDb
<1> QED
  BY <1>1, <1>2, <1>3, TypeStores DEF DisplayRow, TypeOK, history

LEMMA TypeTime ==
    ASSUME TypeInv, FiveSecondsPass \/ \E m \in Msg : Expire(m)
    PROVE  TypeInv'
<1>1. CASE FiveSecondsPass
  <2>1. store' \in Stores /\ HeadersStay
    <3>1. \A k \in Key : store[k] \in Header
      BY DEF TypeInv, TypeOK
    <3>2. ASSUME NEW h \in Header
          PROVE  /\ [h EXCEPT !.recent = FALSE] \in Header
                 /\ [h EXCEPT !.recent = FALSE].id = h.id
                 /\ [h EXCEPT !.recent = FALSE].st = h.st
      BY DEF Header
    <3> QED
      BY <1>1, <3>1, <3>2 DEF FiveSecondsPass, Stores, HeadersStay
  <2> QED
    BY <1>1, <2>1, TypeStores DEF FiveSecondsPass, TypeInv, TypeOK, history, NoNewMove
<1>2. CASE \E m \in Msg : Expire(m)
  BY <1>2 DEF Expire, TypeInv, TypeOK, MovesNotifications, history
<1> QED
  BY <1>1, <1>2

LEMMA TypeCheckDelays ==
    ASSUME TypeInv, CheckDelays
    PROVE  TypeInv'
<1>1. PICK ok \in SUBSET waiting :
        /\ waiting' = waiting \ {rk \in ok : ~Load(db[rk], rk[1]).checkDelay}
        /\ db' = [rk \in RowKey |-> IF rk \in ok THEN Load(db[rk], rk[1]).data
                                                ELSE db[rk]]
        /\ store' = Outdate(store, ok, {})
  BY DEF CheckDelays
<1>2. store' \in Stores /\ HeadersStay
  BY <1>1, OutdateType DEF TypeInv, TypeOK, Stores, HeadersStay
<1>3. db' \in [RowKey -> Data] /\ waiting' \subseteq RowKey
  <2>1. \A rk \in RowKey : db[rk] \in Data /\ Load(db[rk], rk[1]).data \in Data
    BY LoadType, SettleType DEF TypeInv, TypeOK
  <2> QED
    BY <1>1, <2>1 DEF TypeInv, TypeOK
<1> QED
  BY <1>2, <1>3, TypeStores DEF CheckDelays, TypeInv, TypeOK, history, NoNewMove

LEMMA TypeUserMoves ==
    ASSUME TypeInv, NEW k \in Key, NEW f \in Folder, UserMoves(k, f)
    PROVE  TypeInv'
<1>1. TypeOK /\ store[k].st = "live" /\ store[k] \in Header
  BY DEF TypeInv, TypeOK, UserMoves
<1>2. PICK new \in Key, p \in Key \cup {NoKey} :
        /\ IsNew(new)
        /\ store' = [store EXCEPT ![k].st = "gone",
                                  ![new] = FreshHeader(store[k].id, f, p)]
  BY DEF UserMoves, Parents, Live
<1>3. FreshHeader(store[k].id, f, p) \in Header
  BY <1>1, FreshHeaderType DEF Header
<1>4. store[new].st = "free" /\ new # k
  BY <1>1, <1>2 DEF IsNew
<1>5. store' \in Stores /\ HeadersStay
  <2> DEFINE g == [store[k] EXCEPT !.st = "gone"]
             h == FreshHeader(store[k].id, f, p)
  <2>1. g \in Header /\ g.id = store[k].id /\ g.st = "gone"
    BY <1>1 DEF Header
  <2>2. store' = [[store EXCEPT ![k] = g] EXCEPT ![new] = h]
    BY <1>1, <1>2 DEF TypeOK
  <2> HIDE DEF g, h
  <2>3. /\ store' \in Stores
        /\ store'[k] = g
        /\ \A j \in Key : j # k /\ j # new => store'[j] = store[j]
    BY <1>1, <1>3, <1>4, <2>1, <2>2 DEF TypeOK, Stores, h
  <2> QED
    BY <1>4, <2>1, <2>3 DEF HeadersStay
<1> DEFINE listed == FindIn(store', store[k].id, f)
<1> HIDE DEF listed
<1>6. streams' = [s \in Stream |->
                 IF s[1] = "check" /\ s[2] \in listed /\ store'[s[2]].seen = ""
                 THEN streams[s] + 1 ELSE streams[s]]
  BY DEF UserMoves, listed
<1>7. streams' \in [Stream -> Nat] /\ NoNewMove
  <2>1. streams \in [Stream -> Nat]
    BY <1>1 DEF TypeOK
  <2>2. streams' \in [Stream -> Nat]
    <3> DEFINE more(s) == s[1] = "check" /\ s[2] \in listed /\ store'[s[2]].seen = ""
               grown(s) == IF more(s) THEN streams[s] + 1 ELSE streams[s]
    <3>1. streams' = [s \in Stream |-> grown(s)]
      BY <1>6
    <3> HIDE DEF more
    <3>2. \A s \in Stream : grown(s) \in Nat
      BY <2>1
    <3> HIDE DEF grown
    <3> QED
      BY <3>1, <3>2
  <2>3. \A j \in Key : streams'[<<"move", j>>] = streams[<<"move", j>>]
    BY <1>6, StreamType
  <2> QED
    BY <2>2, <2>3 DEF NoNewMove
<1> QED
  BY <1>1, <1>5, <1>7, TypeStores DEF UserMoves, TypeOK, history

LEMMA TypeUserPurges ==
    ASSUME TypeInv, NEW k \in Key, UserPurges(k)
    PROVE  TypeInv'
<1>1. store[k] \in Header /\ store \in Stores
  BY DEF TypeInv, TypeOK, Stores
<1>2. store' = [store EXCEPT ![k].st = "gone"]
  BY DEF UserPurges
<1>3. store' \in Stores /\ HeadersStay
  BY <1>1, <1>2 DEF Stores, Header, HeadersStay
<1> QED
  BY <1>3, TypeStores DEF UserPurges, TypeInv, TypeOK, history, NoNewMove

LEMMA TypeRebuildIndex ==
    ASSUME TypeInv, NEW f \in Folder, RebuildIndex(f)
    PROVE  TypeInv'
<1>1. \A k \in Key : store[k] \in Header
  BY DEF TypeInv, TypeOK
<1>2. ASSUME NEW h \in Header
      PROVE  LET g == [FreshHeader(h.id, f, NoKey) EXCEPT !.parent = h.parent]
             IN g \in Header /\ g.id = h.id /\ g.st = "live"
  <2>1. FreshHeader(h.id, f, NoKey) \in Header
    BY FreshHeaderType DEF Header
  <2>2. /\ FreshHeader(h.id, f, NoKey).id = h.id
        /\ FreshHeader(h.id, f, NoKey).st = "live"
    BY DEF FreshHeader
  <2> QED
    BY <2>1, <2>2 DEF Header
<1>3. store' \in Stores /\ HeadersStay
  BY <1>1, <1>2 DEF RebuildIndex, Stores, HeadersStay
<1> QED
  BY <1>3, TypeStores DEF RebuildIndex, TypeInv, TypeOK, history, NoNewMove

\* After a crash no read and no copy is under way.
LEMMA ForgetType ==
    ASSUME ForgetVolatile
    PROVE  streams' \in [Stream -> Nat] /\ pending' \in [Copy -> Nat] /\ NoNewMove
<1>1. streams' = [s \in Stream |-> 0] /\ pending' = [c \in Copy |-> 0]
  BY DEF ForgetVolatile
<1>2. \A k \in Key : streams'[<<"move", k>>] = 0
  BY <1>1, StreamType
<1> QED
  BY <1>1, <1>2 DEF NoNewMove

LEMMA TypeCrash ==
    ASSUME TypeInv, Crash
    PROVE  TypeInv'
BY ForgetType, InFlightType, TypeStores
   DEF Crash, TypeInv, TypeOK, Stores, HeadersStay

LEMMA TypeCrashInParse ==
    ASSUME TypeInv, NEW k \in Key, CrashInParse(k)
    PROVE  TypeInv'
<1> DEFINE n == store[k].id
           failed == DSNFailed(n)
<1>1. TypeOK /\ n \in Notif /\ RowOf(n) \in RowKey
  BY RowOfType DEF TypeInv, CrashInParse
<1> HIDE DEF failed
<1> DEFINE unread == [store EXCEPT ![k].seen = ""]
           marked == [store EXCEPT ![k].seen = "yes"]
<1>9. /\ unread \in Stores /\ marked \in Stores
      /\ \A j \in Key : unread[j].id = store[j].id /\ unread[j].st = store[j].st
      /\ \A j \in Key : marked[j].id = store[j].id /\ marked[j].st = store[j].st
  BY <1>1, SeenType
<1>2. PICK read \in {unread, marked} :
        \E out \in MoveOutcomes(read, k, RowOf(n), failed) :
          /\ store' = out.store
          /\ lostMail' = lostMail \cup InFlight \cup out.lost \cup {c.id : c \in out.copies}
  BY DEF CrashInParse, failed
<1> HIDE DEF unread, marked
<1>8. PICK out \in MoveOutcomes(read, k, RowOf(n), failed) :
          /\ store' = out.store
          /\ lostMail' = lostMail \cup InFlight \cup out.lost \cup {c.id : c \in out.copies}
  BY <1>2
<1>3. /\ out.store \in Stores /\ out.copies \in SUBSET Copy /\ out.lost \subseteq Notif
      /\ \A j \in Key : /\ out.store[j].id = store[j].id
                        /\ store[j].st # "free" => out.store[j].st # "free"
  <2>1. Outcome(read, out)
    BY <1>1, <1>2, <1>8, <1>9, MoveOutcomesType
  <2> QED
    BY <1>2, <1>9, <2>1 DEF Outcome
<1>4. store' \in Stores /\ HeadersStay
  BY <1>8, <1>3 DEF HeadersStay
<1>5. lostMail' \subseteq Notif
  <2>1. \A c \in Copy : c.id \in Notif
    BY DEF Copy
  <2> QED
    BY <1>1, <1>8, <1>3, <2>1, InFlightType DEF TypeOK
<1>6. streams' \in [Stream -> Nat] /\ pending' \in [Copy -> Nat] /\ NoNewMove
  BY ForgetType DEF CrashInParse
<1>7. processed' \subseteq Notif /\ unsaved' \subseteq Msg \cup Notif
  BY <1>1 DEF CrashInParse, TypeOK
<1> QED
  BY <1>1, <1>4, <1>5, <1>6, <1>7, TypeStores DEF CrashInParse, TypeOK

LEMMA TypeStep == TypeInv /\ [Next]_vars => TypeInv'
<1> SUFFICES ASSUME TypeInv, [Next]_vars PROVE TypeInv'
  OBVIOUS
<1>1. CASE Next
  BY <1>1, TypeDeliver, TypeFileSent, TypeStreamFailed, TypeCopyStopped, TypeCopyFailed,
     TypeHeaderChecked, TypeParseRepeated, TypeParseIgnored, TypeParseOriginal,
     TypeParseReport, TypeMoveNotification, TypeDisplayRow, TypeUserPurges,
     TypeCrashInParse, TypeUserMoves, TypeRebuildIndex, TypeTime, TypeCheckDelays,
     TypeCrash
     DEF Next
<1>2. CASE UNCHANGED vars
  BY <1>2 DEF vars, history, TypeInv, TypeOK, MovesNotifications
<1> QED
  BY <1>1, <1>2

\* Every variable keeps its type, whatever the constants are.
THEOREM TypeCorrect == Spec => []TypeOK
<1>1. TypeInv => TypeOK
  BY DEF TypeInv
<1> QED
  BY <1>1, TypeInit, TypeStep, PTL DEF Spec

-----------------------------------------------------------------------------
(* The SQLite table *)

\* Only four actions write a row, or count a notification as processed.
LEMMA Writers ==
    ASSUME Next
    PROVE  \/ UNCHANGED <<db, waiting, processed, unsaved>>
           \/ \E k \in Key : ParseOriginal(k) \/ ParseReport(k) \/ CrashInParse(k)
           \/ CheckDelays
BY DEF Next, Deliver, FileSent, StreamFailed, CopyStopped, CopyFailed, RetryCopy,
       HeaderChecked, ParseRepeated, ParseIgnored, MoveNotification, DisplayRow,
       UserPurges, UserMoves, RebuildIndex, Expire, FiveSecondsPass, Crash, history

\* The object o replaces the row rk, and the row is listed as waiting or not.
Written(rk, o) ==
    /\ o \in Object /\ Honest(o)
    /\ o.timedOut => rk[1] \in expired
    /\ db' = [db EXCEPT ![rk] = o.data]
    /\ waiting' = IF o.checkDelay THEN waiting \cup {rk} ELSE waiting \ {rk}

\* What parseMsg makes of the row of a notification.
Reported(n) == Load(AddReports(db[RowOf(n)], n), Orig[n])

LEMMA ReportedKeeps ==
    ASSUME TypeInv, NEW n \in Notif
    PROVE  LET d == db[RowOf(n)] IN
           /\ Reported(n) \in Object /\ Honest(Reported(n))
           /\ Reported(n).timedOut => Orig[n] \in expired
           /\ d.rows \subseteq Reported(n).data.rows
           /\ Reported(n).data.requests = d.requests
           /\ Recorded(Reported(n).data) = Recorded(d) \cup EntriesOf(n)
           /\ \A e \in Recorded(Reported(n).data) : Reported(n).data.count[e] =
                IF e \in Recorded(d) THEN d.count[e] ELSE 1
<1> DEFINE d == db[RowOf(n)]
           a == AddReports(d, n)
<1>1. d \in Data
  BY RowOfType DEF TypeInv, TypeOK
<1>2. /\ a \in Data /\ d.rows \subseteq a.rows /\ a.requests = d.requests
      /\ Recorded(a) = Recorded(d) \cup EntriesOf(n)
      /\ \A e \in Recorded(a) : a.count[e] = IF e \in Recorded(d) THEN d.count[e] ELSE 1
  BY <1>1, AddReportsType, AddReportsRecords
<1>3. Reported(n) = Load(a, Orig[n])
  BY DEF Reported
<1> HIDE DEF a, d
<1>4. /\ Reported(n) \in Object /\ Honest(Reported(n))
      /\ (Reported(n).timedOut => Orig[n] \in expired)
      /\ Reported(n).data = Settle(a)
  BY <1>2, <1>3, LoadType
<1>5. /\ Settle(a).count = a.count /\ Settle(a).rows = a.rows
      /\ Settle(a).requests = a.requests /\ Recorded(Settle(a)) = Recorded(a)
  BY <1>2, SettleType, SettleRecords
<1> QED
  BY <1>2, <1>4, <1>5 DEF d

LEMMA ReportWritten ==
    ASSUME TypeInv, NEW k \in Key, ParseReport(k)
    PROVE  LET n == store[k].id IN
           /\ n \in Notif /\ IsReport(n)
           /\ processed' = processed \cup {n}
           /\ \/ Written(RowOf(n), Reported(n)) /\ unsaved' = unsaved \ {n}
              \/ UNCHANGED <<db, waiting>> /\ unsaved' = unsaved \cup {n}
<1> DEFINE n == store[k].id
           o == Reported(n)
<1>1. n \in Notif /\ IsReport(n) /\ processed' = processed \cup {n}
  BY DEF ParseReport
<1>2. o \in Object /\ Honest(o) /\ (o.timedOut => RowOf(n)[1] \in expired)
  BY <1>1, ReportedKeeps DEF RowOf, Bare
<1>3. \/ WriteRow(RowOf(n), o) /\ unsaved' = unsaved \ ({n} \cap Notif)
      \/ UNCHANGED <<db, waiting>> /\ unsaved' = unsaved \cup {n}
  BY DEF ParseReport, SaveNotificationData, Reported
<1> HIDE DEF o
<1>4. \/ Written(RowOf(n), o) /\ unsaved' = unsaved \ {n}
      \/ UNCHANGED <<db, waiting>> /\ unsaved' = unsaved \cup {n}
  BY <1>1, <1>2, <1>3 DEF WriteRow, Written
<1> QED
  BY <1>1, <1>4 DEF o

\* What parseMsg makes of the row of a sent message.
Asked(m) ==
    Load(AddDeliveredTo(Load([db[Bare(m)] EXCEPT !.dated = TRUE], m).data,
                        Recipients[m], Requests(m)), m)

LEMMA AskedKeeps ==
    ASSUME TypeInv, NEW m \in Msg
    PROVE  LET d == db[Bare(m)] IN
           /\ Asked(m) \in Object /\ Honest(Asked(m))
           /\ Asked(m).timedOut => m \in expired
           /\ Asked(m).data.count = d.count
           /\ d.rows \subseteq Asked(m).data.rows
           /\ \A r \in Recip : d.requests[r] \subseteq Asked(m).data.requests[r]
<1> DEFINE d      == db[Bare(m)]
           dated  == [d EXCEPT !.dated = TRUE]
           known  == Load(dated, m).data
           wanted == Requests(m)
           added  == AddDeliveredTo(known, Recipients[m], wanted)
<1>1. d \in Data
  BY DEF Bare, RowKey, TypeInv, TypeOK
<1>2. /\ dated \in Data /\ dated.count = d.count
      /\ dated.rows = d.rows /\ dated.requests = d.requests
  BY <1>1 DEF Data
<1>3. Recipients[m] \in SUBSET Recip /\ wanted \in SUBSET Request
  BY ConstantsAssumption DEF Requests
<1>4. Asked(m) = Load(added, m)
  BY DEF Asked
<1> HIDE DEF dated, d
<1>5. known = Settle(dated) /\ known \in Data
  BY <1>2, LoadType, SettleType
<1>6. /\ known.count = d.count /\ known.rows = d.rows
      /\ known.requests = d.requests
  BY <1>2, <1>5, SettleType
<1> HIDE DEF known, wanted
<1>7. added \in Data /\ Preserves(known, added)
  BY <1>3, <1>5, AddDeliveredToType
<1> HIDE DEF added
<1>8. /\ Asked(m) \in Object /\ Honest(Asked(m))
      /\ (Asked(m).timedOut => m \in expired)
      /\ Asked(m).data = Settle(added)
  BY <1>4, <1>7, LoadType
<1>9. /\ Settle(added).count = added.count /\ Settle(added).rows = added.rows
      /\ Settle(added).requests = added.requests
  BY <1>7, SettleType
<1> QED
  BY <1>6, <1>7, <1>8, <1>9 DEF d, Preserves

LEMMA OriginalWritten ==
    ASSUME TypeInv, NEW k \in Key, ParseOriginal(k)
    PROVE  /\ processed' = processed
           /\ \/ store[k].id \in Msg /\ Written(Bare(store[k].id), Asked(store[k].id))
                 /\ unsaved' = unsaved
              \/ UNCHANGED <<db, waiting>> /\ unsaved \subseteq unsaved'
<1> DEFINE m == store[k].id
           o == Asked(m)
<1>1. m \in Msg /\ processed' = processed
  BY DEF ParseOriginal
<1>2. o \in Object /\ Honest(o) /\ (o.timedOut => Bare(m)[1] \in expired)
  BY <1>1, AskedKeeps DEF Bare
<1>3. \/ WriteRow(Bare(m), o) /\ unsaved' = unsaved \ ({m} \cap Notif)
      \/ UNCHANGED <<db, waiting>> /\ unsaved \subseteq unsaved'
  BY DEF ParseOriginal, SaveNotificationData, Asked
<1> HIDE DEF o
<1>4. m \notin Notif
  BY <1>1, ConstantsAssumption
<1>5. \/ Written(Bare(m), o) /\ unsaved' = unsaved
      \/ UNCHANGED <<db, waiting>> /\ unsaved \subseteq unsaved'
  BY <1>2, <1>3, <1>4 DEF WriteRow, Written
<1> QED
  BY <1>1, <1>5 DEF o

\* checkDelay writes rows again as they are, but for the timeouts.
LEMMA RowsSettled ==
    ASSUME TypeInv, CheckDelays
    PROVE  \A rk \in RowKey : db'[rk] = db[rk] \/ db'[rk] = Settle(db[rk])
<1>1. \A rk \in RowKey : Load(db[rk], rk[1]).data = Settle(db[rk])
  BY LoadType DEF TypeInv, TypeOK
<1> QED
  BY <1>1 DEF CheckDelays

LEMMA SoundStep == TypeInv /\ LedgerSound /\ [Next]_vars => LedgerSound'
<1> SUFFICES ASSUME TypeInv, LedgerSound, [Next]_vars PROVE LedgerSound'
  OBVIOUS
<1> DEFINE Sound(rk, d, done) ==
        \A e \in Recorded(d) : /\ e[1] \in done
                               /\ Kind[e[1]] \in Wanted \cup {"exim"}
                               /\ RowOf(e[1]) = rk
                               /\ d.count[e] = 1
<1>1. \A rk \in RowKey : db[rk] \in Data /\ Sound(rk, db[rk], processed)
  BY DEF TypeInv, TypeOK, LedgerSound
<1>2. SUFFICES \A rk \in RowKey : Sound(rk, db'[rk], processed')
  BY DEF LedgerSound, Recorded
<1>3. CASE UNCHANGED <<db, processed>>
  BY <1>1, <1>3
<1>4. ASSUME NEW k \in Key, ParseReport(k)
      PROVE  \A rk \in RowKey : Sound(rk, db'[rk], processed')
  <2> DEFINE n == store[k].id
             a == Reported(n)
  <2>1. n \in Notif /\ IsReport(n) /\ processed' = processed \cup {n}
    BY <1>4, ReportWritten
  <2>2. RowOf(n) \in RowKey /\ Kind[n] \in Wanted \cup {"exim"}
    BY <2>1, RowOfType DEF IsReport
  <2>3. CASE UNCHANGED db
    BY <1>1, <2>1, <2>3
  <2>4. CASE Written(RowOf(n), a)
    <3>1. \A e \in EntriesOf(n) : e[1] = n
      BY <2>1, EntryType
    <3>2. /\ Recorded(a.data) = Recorded(db[RowOf(n)]) \cup EntriesOf(n)
          /\ \A e \in Recorded(a.data) : a.data.count[e] =
                IF e \in Recorded(db[RowOf(n)]) THEN db[RowOf(n)].count[e] ELSE 1
      BY <2>1, ReportedKeeps
    <3> HIDE DEF a
    <3>3. Sound(RowOf(n), a.data, processed')
      BY <1>1, <2>1, <2>2, <3>1, <3>2
    <3>4. \A rk \in RowKey : db'[rk] = IF rk = RowOf(n) THEN a.data ELSE db[rk]
      BY <2>2, <2>4 DEF Written, TypeInv, TypeOK
    <3>5. \A rk \in RowKey : Sound(rk, db[rk], processed')
      BY <1>1, <2>1
    <3> HIDE DEF Sound
    <3> QED
      BY <3>3, <3>4, <3>5
  <2> QED
    BY <1>4, <2>3, <2>4, ReportWritten
<1>5. ASSUME NEW k \in Key, ParseOriginal(k)
      PROVE  \A rk \in RowKey : Sound(rk, db'[rk], processed')
  <2> DEFINE m == store[k].id
  <2>1. processed' = processed
    BY <1>5, OriginalWritten
  <2>2. CASE UNCHANGED db
    BY <1>1, <2>1, <2>2
  <2>3. CASE m \in Msg /\ Written(Bare(m), Asked(m))
    <3>1. Bare(m) \in RowKey
      BY <2>3 DEF Bare, RowKey
    <3>2. Recorded(Asked(m).data) = Recorded(db[Bare(m)])
          /\ Asked(m).data.count = db[Bare(m)].count
      BY <2>3, AskedKeeps DEF Recorded
    <3>3. Sound(Bare(m), Asked(m).data, processed')
      BY <1>1, <2>1, <3>1, <3>2
    <3>4. \A rk \in RowKey : db'[rk] = IF rk = Bare(m) THEN Asked(m).data ELSE db[rk]
      BY <2>3, <3>1 DEF Written, TypeInv, TypeOK
    <3> HIDE DEF Sound
    <3> QED
      BY <1>1, <2>1, <3>3, <3>4
  <2> QED
    BY <1>5, <2>2, <2>3, OriginalWritten
<1>6. ASSUME NEW k \in Key, CrashInParse(k)
      PROVE  \A rk \in RowKey : Sound(rk, db'[rk], processed')
  BY <1>1, <1>6 DEF CrashInParse
<1>7. ASSUME CheckDelays
      PROVE  \A rk \in RowKey : Sound(rk, db'[rk], processed')
  <2>1. processed' = processed
    BY <1>7 DEF CheckDelays, history
  <2>2. \A rk \in RowKey : db'[rk] = db[rk] \/ db'[rk] = Settle(db[rk])
    BY <1>7, RowsSettled
  <2>3. \A rk \in RowKey : Sound(rk, Settle(db[rk]), processed)
    BY <1>1, SettleType, SettleRecords
  <2> HIDE DEF Sound
  <2> QED
    BY <1>1, <2>1, <2>2, <2>3
<1> HIDE DEF Sound
<1>8. CASE Next
  BY <1>3, <1>4, <1>5, <1>6, <1>7, <1>8, Writers
<1> QED
  BY <1>3, <1>8 DEF vars, history

\* Every entry of a row is a wanted report of a processed notification, in the
\* row of its own original, and stands there once.
THEOREM LedgerIsSound == Spec => []LedgerSound
<1>1. Init => LedgerSound
  BY EmptyDataType DEF Init, LedgerSound
<1> QED
  BY <1>1, TypeInit, TypeStep, SoundStep, PTL DEF Spec

LEMMA CompleteStep == TypeInv /\ LedgerComplete /\ [Next]_vars => LedgerComplete'
<1> SUFFICES ASSUME TypeInv, LedgerComplete, [Next]_vars PROVE LedgerComplete'
  OBVIOUS
<1> DEFINE Has(n, d) == EntriesOf(n) \subseteq Recorded(d)
<1>1. \A n \in processed : n \in unsaved \/ Has(n, db[RowOf(n)])
  BY DEF LedgerComplete
<1>2. processed \subseteq Notif /\ \A rk \in RowKey : db[rk] \in Data
  BY DEF TypeInv, TypeOK
<1>3. SUFFICES \A n \in processed' : n \in unsaved' \/ Has(n, db'[RowOf(n)])
  BY DEF LedgerComplete, Recorded
<1>4. CASE UNCHANGED db /\ processed' = processed /\ unsaved \subseteq unsaved'
  BY <1>1, <1>4
<1>5. ASSUME NEW k \in Key, ParseReport(k)
      PROVE  \A n \in processed' : n \in unsaved' \/ Has(n, db'[RowOf(n)])
  <2> DEFINE x == store[k].id
             a == Reported(x)
  <2>1. x \in Notif /\ processed' = processed \cup {x} /\ RowOf(x) \in RowKey
    BY <1>5, ReportWritten, RowOfType
  <2>2. CASE UNCHANGED db /\ unsaved' = unsaved \cup {x}
    BY <1>1, <2>1, <2>2
  <2>3. CASE Written(RowOf(x), a) /\ unsaved' = unsaved \ {x}
    <3>2. Recorded(a.data) = Recorded(db[RowOf(x)]) \cup EntriesOf(x)
      BY <2>1, ReportedKeeps
    <3> HIDE DEF a
    <3>3. \A rk \in RowKey : db'[rk] = IF rk = RowOf(x) THEN a.data ELSE db[rk]
      BY <2>1, <2>3 DEF Written, TypeInv, TypeOK
    <3>4. Has(x, db'[RowOf(x)])
      BY <2>1, <3>2, <3>3
    <3>5. ASSUME NEW n \in processed, n # x, n \notin unsaved'
          PROVE  Has(n, db'[RowOf(n)])
      BY <1>1, <1>2, <2>3, <3>2, <3>3, <3>5, RowOfType
    <3> QED
      BY <2>1, <3>4, <3>5
  <2> QED
    BY <1>5, <2>2, <2>3, ReportWritten
<1>6. ASSUME NEW k \in Key, ParseOriginal(k)
      PROVE  \A n \in processed' : n \in unsaved' \/ Has(n, db'[RowOf(n)])
  <2> DEFINE m == store[k].id
  <2>1. processed' = processed
    BY <1>6, OriginalWritten
  <2>2. CASE UNCHANGED db /\ unsaved \subseteq unsaved'
    BY <1>1, <2>1, <2>2
  <2>3. CASE m \in Msg /\ Written(Bare(m), Asked(m)) /\ unsaved' = unsaved
    <3>1. Bare(m) \in RowKey
      BY <2>3 DEF Bare, RowKey
    <3>2. Recorded(Asked(m).data) = Recorded(db[Bare(m)])
      BY <2>3, AskedKeeps DEF Recorded
    <3>3. \A rk \in RowKey : db'[rk] = IF rk = Bare(m) THEN Asked(m).data ELSE db[rk]
      BY <2>3, <3>1 DEF Written, TypeInv, TypeOK
    <3> QED
      BY <1>1, <1>2, <2>1, <2>3, <3>2, <3>3, RowOfType
  <2> QED
    BY <1>6, <2>2, <2>3, OriginalWritten
<1>7. ASSUME NEW k \in Key, CrashInParse(k)
      PROVE  \A n \in processed' : n \in unsaved' \/ Has(n, db'[RowOf(n)])
  BY <1>1, <1>7 DEF CrashInParse
<1>8. ASSUME CheckDelays
      PROVE  \A n \in processed' : n \in unsaved' \/ Has(n, db'[RowOf(n)])
  <2>1. processed' = processed /\ unsaved' = unsaved
    BY <1>8 DEF CheckDelays, history
  <2>2. \A rk \in RowKey : Recorded(db'[rk]) = Recorded(db[rk])
    BY <1>2, <1>8, SettleRecords, RowsSettled
  <2> QED
    BY <1>1, <1>2, <2>1, <2>2, RowOfType
<1> HIDE DEF Has
<1>9. CASE Next
  BY <1>4, <1>5, <1>6, <1>7, <1>8, <1>9, Writers
<1> QED
  BY <1>4, <1>9 DEF vars, history

\* A notification that was processed has all its reports in its row, unless a
\* crash or a failed write cut its processing short.
THEOREM LedgerIsComplete == Spec => []LedgerComplete
<1>1. Init => LedgerComplete
  BY DEF Init, LedgerComplete
<1> QED
  BY <1>1, TypeInit, TypeStep, CompleteStep, PTL DEF Spec

\* How a step changes the table: it records one notification in its row, or
\* it changes no entry at all; and it drops no recipient and no request.
Recording(n) ==
    \A rk \in RowKey : Recorded(db'[rk]) =
        IF rk = RowOf(n) THEN Recorded(db[rk]) \cup EntriesOf(n) ELSE Recorded(db[rk])

SameEntries == \A rk \in RowKey : Recorded(db'[rk]) = Recorded(db[rk])

RowsKept ==
    \A rk \in RowKey :
        /\ db[rk].rows \subseteq db'[rk].rows
        /\ \A r \in Recip : db[rk].requests[r] \subseteq db'[rk].requests[r]

LEMMA TableStep ==
    ASSUME TypeInv, [Next]_vars
    PROVE  RowsKept /\ (SameEntries \/ \E n \in Notif : Recording(n))
<1> DEFINE Goal == RowsKept /\ (SameEntries \/ \E n \in Notif : Recording(n))
<1>1. \A rk \in RowKey : db[rk] \in Data
  BY DEF TypeInv, TypeOK
<1>2. CASE UNCHANGED db
  BY <1>2 DEF RowsKept, SameEntries
<1>3. ASSUME NEW rk \in RowKey, NEW o, Written(rk, o),
             db[rk].rows \subseteq o.data.rows,
             \A r \in Recip : db[rk].requests[r] \subseteq o.data.requests[r]
      PROVE  /\ RowsKept
             /\ \A x \in RowKey : Recorded(db'[x]) =
                    IF x = rk THEN Recorded(o.data) ELSE Recorded(db[x])
  <2>1. \A x \in RowKey : db'[x] = IF x = rk THEN o.data ELSE db[x]
    BY <1>3 DEF Written, TypeInv, TypeOK
  <2>2. RowsKept
    BY <1>3, <2>1 DEF RowsKept
  <2> QED
    BY <2>1, <2>2
<1>4. ASSUME NEW k \in Key, ParseReport(k) PROVE Goal
  <2> DEFINE n == store[k].id
             a == Reported(n)
  <2>1. n \in Notif /\ RowOf(n) \in RowKey
    BY <1>4, ReportWritten, RowOfType
  <2>2. /\ db[RowOf(n)].rows \subseteq a.data.rows
        /\ a.data.requests = db[RowOf(n)].requests
        /\ Recorded(a.data) = Recorded(db[RowOf(n)]) \cup EntriesOf(n)
    BY <2>1, ReportedKeeps
  <2>3. ASSUME Written(RowOf(n), a) PROVE Goal
    <3> HIDE DEF a
    <3>1. /\ RowsKept
          /\ \A x \in RowKey : Recorded(db'[x]) =
                IF x = RowOf(n) THEN Recorded(a.data) ELSE Recorded(db[x])
      BY <1>3, <2>1, <2>2, <2>3
    <3>2. Recording(n)
      BY <2>1, <2>2, <3>1 DEF Recording
    <3> QED
      BY <2>1, <3>1, <3>2
  <2> QED
    BY <1>2, <1>4, <2>3, ReportWritten
<1>5. ASSUME NEW k \in Key, ParseOriginal(k) PROVE Goal
  <2> DEFINE m == store[k].id
  <2>1. ASSUME m \in Msg, Written(Bare(m), Asked(m)) PROVE Goal
    <3>1. Bare(m) \in RowKey
      BY <2>1 DEF Bare, RowKey
    <3>2. /\ db[Bare(m)].rows \subseteq Asked(m).data.rows
          /\ \A r \in Recip :
                db[Bare(m)].requests[r] \subseteq Asked(m).data.requests[r]
          /\ Recorded(Asked(m).data) = Recorded(db[Bare(m)])
      BY <2>1, AskedKeeps DEF Recorded
    <3>3. /\ RowsKept
          /\ \A x \in RowKey : Recorded(db'[x]) =
                IF x = Bare(m) THEN Recorded(Asked(m).data) ELSE Recorded(db[x])
      BY <1>3, <2>1, <3>1, <3>2
    <3> QED
      BY <3>1, <3>2, <3>3 DEF SameEntries
  <2> QED
    BY <1>2, <1>5, <2>1, OriginalWritten
<1>6. ASSUME NEW k \in Key, CrashInParse(k) PROVE Goal
  BY <1>2, <1>6 DEF CrashInParse
<1>7. ASSUME CheckDelays PROVE Goal
  <2>1. \A rk \in RowKey : db'[rk] = db[rk] \/ db'[rk] = Settle(db[rk])
    BY <1>7, RowsSettled
  <2>2. SameEntries
    BY <1>1, <2>1, SettleRecords DEF SameEntries
  <2>3. RowsKept
    BY <1>1, <2>1, SettleType DEF RowsKept
  <2> QED
    BY <2>2, <2>3
<1> HIDE DEF Goal
<1>8. CASE Next
  BY <1>2, <1>4, <1>5, <1>6, <1>7, <1>8, Writers DEF Goal
<1> QED
  BY <1>2, <1>8 DEF vars, Goal

\* No step of the add-on takes a recipient, a request or a report out of a row.
THEOREM RowsNeverForget == Spec => NothingForgotten
<1> DEFINE Kept == \A rk \in RowKey :
                    /\ Recorded(db[rk]) \subseteq Recorded(db'[rk])
                    /\ db[rk].rows \subseteq db'[rk].rows
                    /\ \A r \in Recip : db[rk].requests[r] \subseteq db'[rk].requests[r]
<1>1. TypeInv /\ [Next]_vars => [Kept]_db
  BY TableStep DEF RowsKept, SameEntries, Recording
<1> QED
  BY <1>1, TypeInit, TypeStep, PTL DEF Spec, NothingForgotten

\* The add-on implements ReportLedger: whatever fails or crashes, what it
\* writes to the table is all the reports of a notification, in its own row.
THEOREM TableIsLedger == Spec => ImplementsLedger
<1>1. Init => Ledger!Init
  BY EmptyDataType DEF Init, Ledger!Init
<1>2. TypeInv /\ [Next]_vars => [Ledger!Next]_([rk \in RowKey |-> Recorded(db[rk])])
  <2> SUFFICES ASSUME TypeInv, [Next]_vars
               PROVE  [Ledger!Next]_([rk \in RowKey |-> Recorded(db[rk])])
    OBVIOUS
  <2>1. CASE SameEntries
    BY <2>1 DEF SameEntries
  <2>2. ASSUME NEW n \in Notif, Recording(n)
        PROVE  Ledger!Record(n)
    BY <2>2, RowOfType DEF Recording, Ledger!Record
  <2> QED
    BY <2>1, <2>2, TableStep DEF Ledger!Next
<1> QED
  BY <1>1, <1>2, TypeInit, TypeStep, PTL DEF Spec, ImplementsLedger, Ledger!Spec

\* A row that waits has somebody to wait for.
Waits(d) == d.dated /\ AwaitedDsn(d) # {}

LEMMA TimerStep == TypeInv /\ NoIdleTimer /\ [Next]_vars => NoIdleTimer'
<1> SUFFICES ASSUME TypeInv, NoIdleTimer, [Next]_vars PROVE NoIdleTimer'
  OBVIOUS
<1>1. /\ waiting \subseteq RowKey
      /\ \A rk \in RowKey : db[rk] \in Data
      /\ \A rk \in waiting : Waits(db[rk])
  BY DEF NoIdleTimer, TypeInv, TypeOK, Waits
<1>2. SUFFICES \A rk \in waiting' : Waits(db'[rk])
  BY DEF NoIdleTimer, Waits, AwaitedDsn, Answered, Delivered, Relayed, Failed, With,
         Recorded
<1>3. CASE UNCHANGED <<db, waiting>>
  BY <1>1, <1>3
<1>4. ASSUME NEW rk \in RowKey, NEW o, Written(rk, o)
      PROVE  \A x \in waiting' : Waits(db'[x])
  <2>1. \A x \in RowKey : db'[x] = IF x = rk THEN o.data ELSE db[x]
    BY <1>4 DEF Written, TypeInv, TypeOK
  <2>2. waiting' = IF o.checkDelay THEN waiting \cup {rk} ELSE waiting \ {rk}
    BY <1>4 DEF Written
  <2>3. o.checkDelay => Waits(o.data)
    BY <1>4 DEF Written, Honest, Waits
  <2> QED
    BY <1>1, <2>1, <2>2, <2>3
<1>5. ASSUME NEW k \in Key, ParseReport(k)
      PROVE  \A x \in waiting' : Waits(db'[x])
  BY <1>3, <1>4, <1>5, ReportWritten, RowOfType
<1>6. ASSUME NEW k \in Key, ParseOriginal(k)
      PROVE  \A x \in waiting' : Waits(db'[x])
  BY <1>3, <1>4, <1>6, OriginalWritten DEF Bare, RowKey
<1>7. ASSUME CheckDelays
      PROVE  \A x \in waiting' : Waits(db'[x])
  <2>1. waiting' \subseteq waiting
    BY <1>7 DEF CheckDelays
  <2>2. \A rk \in RowKey : db'[rk] = db[rk] \/ db'[rk] = Settle(db[rk])
    BY <1>7, RowsSettled
  <2>3. \A rk \in RowKey : Waits(db[rk]) => Waits(Settle(db[rk]))
    BY <1>1, SettleType, SettleRecords DEF Waits
  <2> QED
    BY <1>1, <2>1, <2>2, <2>3
<1>8. CASE Next
  BY <1>3, <1>5, <1>6, <1>7, <1>8, Writers DEF CrashInParse
<1> QED
  BY <1>3, <1>8 DEF vars

\* Only rows that still wait for the DSN of somebody are checked.
THEOREM TimersNeeded == Spec => []NoIdleTimer
<1>1. Init => NoIdleTimer
  BY DEF Init, NoIdleTimer
<1> QED
  BY <1>1, TypeInit, TypeStep, TimerStep, PTL DEF Spec

\* The delays that ran out stay so.
LEMMA ExpiredStays == ASSUME Next PROVE expired \subseteq expired'
BY DEF Next, Deliver, FileSent, StreamFailed, CopyStopped, CopyFailed, RetryCopy,
       HeaderChecked, ParseRepeated, ParseIgnored, ParseOriginal, ParseReport,
       MoveNotification, DisplayRow, UserPurges, UserMoves, RebuildIndex, Expire,
       FiveSecondsPass, CheckDelays, Crash, CrashInParse, history

LEMMA WatchStep == TypeInv /\ DelaysAreWatched /\ [Next]_vars => DelaysAreWatched'
<1> SUFFICES ASSUME TypeInv, DelaysAreWatched, [Next]_vars PROVE DelaysAreWatched'
  OBVIOUS
<1> DEFINE Watched(rk) == Waits(db'[rk]) /\ rk[1] \notin expired' => rk \in waiting'
<1>1. \A rk \in RowKey : /\ db[rk] \in Data
                         /\ Waits(db[rk]) /\ rk[1] \notin expired => rk \in waiting
  BY DEF DelaysAreWatched, TypeInv, TypeOK, Waits
<1>2. SUFFICES \A rk \in RowKey : Watched(rk)
  BY DEF DelaysAreWatched, Waits, AwaitedDsn, Answered, Delivered, Relayed, Failed,
         With, Recorded
<1>3. expired \subseteq expired'
  BY ExpiredStays DEF vars
<1>4. CASE UNCHANGED <<db, waiting>>
  BY <1>1, <1>3, <1>4
<1>5. ASSUME NEW rk \in RowKey, NEW o, Written(rk, o)
      PROVE  \A x \in RowKey : Watched(x)
  <2>1. \A x \in RowKey : db'[x] = IF x = rk THEN o.data ELSE db[x]
    BY <1>5 DEF Written, TypeInv, TypeOK
  <2>2. waiting' = IF o.checkDelay THEN waiting \cup {rk} ELSE waiting \ {rk}
    BY <1>5 DEF Written
  <2>3. Waits(o.data) /\ rk[1] \notin expired => o.checkDelay
    BY <1>5 DEF Written, Honest, Waits
  <2> QED
    BY <1>1, <1>3, <2>1, <2>2, <2>3
<1>6. ASSUME NEW k \in Key, ParseReport(k)
      PROVE  \A x \in RowKey : Watched(x)
  BY <1>4, <1>5, <1>6, ReportWritten, RowOfType
<1>7. ASSUME NEW k \in Key, ParseOriginal(k)
      PROVE  \A x \in RowKey : Watched(x)
  BY <1>4, <1>5, <1>7, OriginalWritten DEF Bare, RowKey
<1>8. ASSUME CheckDelays
      PROVE  \A x \in RowKey : Watched(x)
  <2>1. PICK ok \in SUBSET waiting :
          waiting' = waiting \ {rk \in ok : ~Load(db[rk], rk[1]).checkDelay}
    BY <1>8 DEF CheckDelays
  <2>2. ASSUME NEW rk \in RowKey, Waits(db'[rk]), rk[1] \notin expired
        PROVE  rk \in waiting'
    <3>1. db'[rk] = db[rk] \/ db'[rk] = Settle(db[rk])
      BY <1>8, RowsSettled
    <3>2. Waits(Settle(db[rk])) <=> Waits(db[rk])
      BY <1>1, SettleType, SettleRecords DEF Waits
    <3>3. Load(db[rk], rk[1]).checkDelay <=>
            Waits(Settle(db[rk])) /\ ~Load(db[rk], rk[1]).timedOut
      BY <1>1, LoadType DEF Honest, Waits
    <3>4. Load(db[rk], rk[1]).timedOut => rk[1] \in expired
      BY <1>1, LoadType
    <3>5. rk \in waiting
      BY <1>1, <2>2, <3>1, <3>2
    <3> QED
      BY <2>1, <2>2, <3>1, <3>2, <3>3, <3>4, <3>5
  <2> QED
    BY <1>3, <2>2
<1>9. CASE Next
  BY <1>4, <1>6, <1>7, <1>8, <1>9, Writers DEF CrashInParse
<1> QED
  BY <1>4, <1>9 DEF vars

\* As long as the delay of a message runs, the background task watches over it
\* until everybody who was asked for a DSN has answered.
THEOREM DelaysWatched == Spec => []DelaysAreWatched
<1>1. Init => DelaysAreWatched
  BY DEF Init, DelaysAreWatched, EmptyData
<1> QED
  BY <1>1, TypeInit, TypeStep, WatchStep, PTL DEF Spec
=============================================================================
