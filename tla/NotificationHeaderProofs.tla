---------------------- MODULE NotificationHeaderProofs ----------------------
(***************************************************************************)
(* Proofs about the headers of NotificationViewer: where a notification    *)
(* goes, and what the header of a sent message shows.                      *)
(***************************************************************************)
EXTENDS NotificationViewerProofs, FiniteSetTheorems

(***************************************************************************)
(* What a step may do to one header.                                       *)
(***************************************************************************)

\* It stays where it is, ...
SamePlace(k) ==
    /\ store'[k].id = store[k].id /\ store'[k].st = store[k].st
    /\ store'[k].moveto = store[k].moveto

\* ... shows what it showed, and is still known or unknown, or is read now, ...
SameData(k) ==
    /\ store'[k].id = store[k].id /\ store'[k].copy = store[k].copy
    /\ store'[k].columns = store[k].columns
    /\ store'[k].seen \in {store[k].seen, "yes"}

\* ... or has none of our properties.
Blank(k) ==
    /\ store'[k].seen = "" /\ store'[k].copy = EmptyData
    /\ store'[k].moveto = NoId /\ store'[k].st = "live"

\* A key that was free gets a header.
Arrives(k, id) == store[k].st = "free" /\ Blank(k) /\ store'[k].id = id

\* Every other header is as it was.
OthersSame(k) == \A j \in Key : j # k => store'[j] = store[j]

LEMMA Unchanged ==
    ASSUME NEW k \in Key, store'[k] = store[k]
    PROVE  SamePlace(k) /\ SameData(k)
  BY DEF SamePlace, SameData

LEMMA SamePlaceStays ==
    ASSUME \A k \in Key : SamePlace(k)
    PROVE  HeadersStay
  BY DEF SamePlace, HeadersStay

\* One header of a store is replaced.
LEMMA Replaced ==
    ASSUME NEW s \in Stores, NEW k \in Key, NEW h
    PROVE  /\ [s EXCEPT ![k] = h][k] = h
           /\ \A j \in Key : j # k => [s EXCEPT ![k] = h][j] = s[j]
  BY DEF Stores

\* A header is filed under a free key.
LEMMA NewArrives ==
    ASSUME TypeOK, NEW k \in Key, IsNew(k), NEW id, NEW f, NEW p,
           store' = [store EXCEPT ![k] = FreshHeader(id, f, p)]
    PROVE  Arrives(k, id) /\ OthersSame(k)
<1> DEFINE h == FreshHeader(id, f, p)
<1>1. /\ h.id = id /\ h.st = "live" /\ h.seen = "" /\ h.moveto = NoId
      /\ h.copy = EmptyData
  BY DEF FreshHeader
<1> HIDE DEF h
<1>2. store'[k] = h /\ OthersSame(k)
  BY Replaced DEF TypeOK, Stores, OthersSame, h
<1>3. QED
  BY <1>1, <1>2 DEF Arrives, Blank, IsNew

\* moveNotificationWithSource touches one header and nothing that it shows.  A
\* header that goes leaves a copy under way, or a mail that a fault has lost;
\* and none goes that is a failure to be kept.
Moved(s, k, failed, out) ==
    /\ out.store \in Stores
    /\ \A j \in Key : j # k => out.store[j] = s[j]
    /\ out.store[k].id = s[k].id /\ out.store[k].copy = s[k].copy
    /\ out.store[k].columns = s[k].columns /\ out.store[k].seen = s[k].seen
    /\ out.copies \in SUBSET Copy /\ \A c \in out.copies : c.id = s[k].id
    /\ \/ out.store[k].st = s[k].st
       \/ out.copies # {}
       \/ s[k].id \in out.lost
    /\ failed /\ KeepFailed => out.store = s /\ out.copies = {}

LEMMA ThreadMoves ==
    ASSUME NEW s \in Stores, NEW k \in Key, s[k].id \in Notif, NEW f \in Folder,
           NEW out \in ThreadOutcomes(s, k, f), NEW failed, ~ (failed /\ KeepFailed)
    PROVE  Moved(s, k, failed, out)
<1>1. Outcome(s, out)
  BY ThreadOutcomesType
<1> DEFINE gone == [s EXCEPT ![k].st = "gone", ![k].moveto = NoId]
           kept == [s EXCEPT ![k].moveto = NoId]
<1>2. \/ out = [store |-> gone, copies |-> {Accepted(s[k].id, f)}, lost |-> {}]
      \/ out = [store |-> gone,
                copies |-> IF MaxAttempts > 1 THEN {Refused(s[k].id, f, 1)} ELSE {},
                lost |-> IF MaxAttempts > 1 THEN {} ELSE {s[k].id}]
      \/ out = [store |-> kept, copies |-> {}, lost |-> {}]
  BY DEF ThreadOutcomes
<1>3. /\ gone[k].id = s[k].id /\ gone[k].copy = s[k].copy
      /\ gone[k].columns = s[k].columns /\ gone[k].seen = s[k].seen
      /\ \A j \in Key : j # k => gone[j] = s[j]
  <2> DEFINE h == [[s[k] EXCEPT !.st = "gone"] EXCEPT !.moveto = NoId]
  <2>1. /\ h.id = s[k].id /\ h.copy = s[k].copy
        /\ h.columns = s[k].columns /\ h.seen = s[k].seen
    <3>1. s[k] \in Header
      BY DEF Stores
    <3>2. QED
      BY <3>1 DEF Header
  <2>2. gone = [s EXCEPT ![k] = h]
    BY DEF Stores
  <2> HIDE DEF h, gone
  <2>3. QED
    BY <2>1, <2>2, Replaced
<1>4. /\ kept[k].id = s[k].id /\ kept[k].copy = s[k].copy /\ kept[k].st = s[k].st
      /\ kept[k].columns = s[k].columns /\ kept[k].seen = s[k].seen
      /\ \A j \in Key : j # k => kept[j] = s[j]
  BY DEF Stores, Header
<1>5. Accepted(s[k].id, f).id = s[k].id /\ Refused(s[k].id, f, 1).id = s[k].id
  BY DEF Accepted, Refused
<1> HIDE DEF gone, kept
<1>6. CASE out = [store |-> gone, copies |-> {Accepted(s[k].id, f)}, lost |-> {}]
  BY <1>1, <1>3, <1>5, <1>6 DEF Moved, Outcome
<1>7. CASE out = [store |-> gone,
                  copies |-> IF MaxAttempts > 1 THEN {Refused(s[k].id, f, 1)} ELSE {},
                  lost |-> IF MaxAttempts > 1 THEN {} ELSE {s[k].id}]
  BY <1>1, <1>3, <1>5, <1>7 DEF Moved, Outcome
<1>8. CASE out = [store |-> kept, copies |-> {}, lost |-> {}]
  BY <1>1, <1>4, <1>8 DEF Moved, Outcome
<1>9. QED
  BY <1>2, <1>6, <1>7, <1>8

LEMMA OutcomesMove ==
    ASSUME NEW s \in Stores, NEW k \in Key, s[k].id \in Notif,
           NEW sought \in RowKey, NEW failed,
           NEW out \in MoveOutcomes(s, k, sought, failed)
    PROVE  Moved(s, k, failed, out)
<1>1. Outcome(s, out)
  BY MoveOutcomesType
<1>2. CASE out = [store |-> s, copies |-> {}, lost |-> {}]
  BY <1>1, <1>2 DEF Moved, Outcome
<1>3. ASSUME ~ (failed /\ KeepFailed), NEW x \in RowKey \cup {NoId},
             out = [store |-> [s EXCEPT ![k].moveto = x], copies |-> {}, lost |-> {}]
      PROVE  Moved(s, k, failed, out)
  <2> DEFINE t == [s EXCEPT ![k].moveto = x]
  <2>1. /\ t[k].id = s[k].id /\ t[k].copy = s[k].copy /\ t[k].st = s[k].st
        /\ t[k].columns = s[k].columns /\ t[k].seen = s[k].seen
        /\ \A j \in Key : j # k => t[j] = s[j]
    BY DEF Stores, Header
  <2> HIDE DEF t
  <2>2. out.store = t /\ out.copies = {}
    BY <1>3 DEF t
  <2>3. QED
    BY <1>1, <1>3, <2>1, <2>2 DEF Moved, Outcome
<1>4. ASSUME ~ (failed /\ KeepFailed), NEW o \in Find(s, sought[1]),
             out \in ThreadOutcomes(s, k, s[o].folder)
      PROVE  Moved(s, k, failed, out)
  <2>1. s[o].folder \in Folder
    BY DEF Find, Searchable, Live, Stores, Header
  <2>2. QED
    BY <1>4, <2>1, ThreadMoves
<1>5. \/ out = [store |-> s, copies |-> {}, lost |-> {}]
      \/ /\ ~ (failed /\ KeepFailed)
         /\ \/ out = [store |-> [s EXCEPT ![k].moveto = sought], copies |-> {}, lost |-> {}]
            \/ out = [store |-> [s EXCEPT ![k].moveto = NoId], copies |-> {}, lost |-> {}]
            \/ \E o \in Find(s, sought[1]) : out \in ThreadOutcomes(s, k, s[o].folder)
  BY DEF MoveOutcomes
<1>6. QED
  BY <1>2, <1>3, <1>4, <1>5
-----------------------------------------------------------------------------
(***************************************************************************)
(* Where the notifications are.  A failure that is to be kept is never     *)
(* marked for a deferred move, so no move of it is ever read for; and a    *)
(* header goes only when something else has its mail.                      *)
(***************************************************************************)

FreeIsEmpty == \A k \in Key : store[k].st = "free" => store[k].id = NoId

\* The preference, for one notification.
Kept(n) == KeepFailed /\ DSNFailed(n)

PutInv == \A n \in Notif : Kept(n) =>
    /\ n \notin InFlight
    /\ \A k \in Key : store[k].id = n =>
         store[k].moveto = NoId /\ ~ (streams[<<"move", k>>] > 0)

Safe(n) == Live(store, n) # {} \/ n \in InFlight \/ n \in lostMail

PlaceInv == FreeIsEmpty /\ MailKept /\ PutInv

\* What a step does to the place of a header.
Placed(k) ==
    \/ /\ store'[k].id = store[k].id
       /\ store'[k].st = "free" => store[k].st = "free"
       /\ store[k].st = "live" /\ store[k].id \in Notif =>
            store'[k].st = "live" \/ Safe(store[k].id)'
       /\ store'[k].moveto \in {store[k].moveto, NoId} \/ ~ Kept(store[k].id)
    \/ store[k].st = "free" /\ Blank(k)

\* What it does to the copies under way, and to the reads for deferred moves.
FlightKept ==
    /\ \A n \in InFlight : Safe(n)'
    /\ lostMail \subseteq lostMail'
    /\ \A n \in InFlight' : n \in InFlight \/ ~ Kept(n)

MovesKept ==
    \A k \in Key : streams'[<<"move", k>>] > 0 =>
        streams[<<"move", k>>] > 0 \/ (store[k].st # "free" /\ ~ Kept(store[k].id))

LEMMA PlaceKeeps ==
    ASSUME TypeInv, PlaceInv, \A k \in Key : Placed(k), FlightKept, MovesKept
    PROVE  PlaceInv'
<1>1. FreeIsEmpty'
  BY DEF FreeIsEmpty, Placed, Blank, PlaceInv
<1>2. MailKept'
  <2> SUFFICES ASSUME NEW n \in Notif, NEW k \in Key, store'[k].id = n
               PROVE  Safe(n)'
    BY DEF MailKept, Safe
  <2>1. CASE Blank(k)
    BY <2>1 DEF Blank, Safe, Live
  <2>2. CASE store[k].id = n
    <3>1. Safe(n)
      BY <2>2 DEF PlaceInv, MailKept, Safe
    <3>2. CASE n \in InFlight \/ n \in lostMail
      BY <3>2 DEF FlightKept, Safe
    <3>3. CASE Live(store, n) # {}
      <4>1. PICK j \in Key : store[j].st = "live" /\ store[j].id = n
        BY <3>3 DEF Live
      <4>2. store'[j].id = n /\ (store'[j].st = "live" \/ Safe(n)')
        BY <4>1 DEF Placed
      <4>3. QED
        BY <4>2 DEF Safe, Live
    <3>4. QED
      BY <3>1, <3>2, <3>3 DEF Safe
  <2>3. QED
    BY <2>1, <2>2 DEF Placed
<1>3. PutInv'
  <2> SUFFICES ASSUME NEW n \in Notif, Kept(n)
               PROVE  /\ n \notin InFlight'
                      /\ \A k \in Key : store'[k].id = n =>
                           store'[k].moveto = NoId /\ ~ (streams'[<<"move", k>>] > 0)
    BY DEF PutInv, Kept
  <2>1. n \notin InFlight'
    BY DEF PlaceInv, PutInv, FlightKept
  <2>2. ASSUME NEW k \in Key, store'[k].id = n
        PROVE  store'[k].moveto = NoId /\ ~ (streams'[<<"move", k>>] > 0)
    <3>1. CASE store[k].st = "free" /\ Blank(k)
      <4>1. ~ (streams[<<"move", k>>] > 0)
        BY <3>1 DEF TypeInv, MovesNotifications
      <4>2. ~ (streams'[<<"move", k>>] > 0)
        BY <3>1, <4>1 DEF MovesKept
      <4>3. QED
        BY <3>1, <4>2 DEF Blank
    <3>2. CASE store'[k].id = store[k].id /\ store'[k].moveto \in {store[k].moveto, NoId}
      BY <2>2, <3>2 DEF PlaceInv, PutInv, MovesKept
    <3>3. QED
      BY <2>2, <3>1, <3>2 DEF Placed
  <2>3. QED
    BY <2>1, <2>2
<1>4. QED
  BY <1>1, <1>2, <1>3 DEF PlaceInv
-----------------------------------------------------------------------------
(* The copies under way *)

LEMMA FlightSame == UNCHANGED <<pending, lostMail>> => FlightKept
  BY DEF FlightKept, InFlight, CopiesOf, Safe

\* A move that begins is under way at once.
LEMMA FlightStarts ==
    ASSUME TypeOK, NEW copies \in SUBSET Copy, StartCopies(copies)
    PROVE  \A n \in Notif : n \in InFlight' <=> n \in InFlight \/ \E c \in copies : c.id = n
<1>1. \A c \in Copy : pending'[c] > 0 <=> pending[c] > 0 \/ c \in copies
  BY DEF StartCopies, TypeOK
<1>2. QED
  BY <1>1 DEF InFlight, CopiesOf

\* A copy is no longer under way, and another of the same mail may be.
LEMMA FlightTaken ==
    ASSUME TypeOK, NEW c \in Copy, pending[c] > 0,
           \/ pending' = Take(pending, c)
           \/ \E x \in Copy : x.id = c.id /\ pending' = Add(Take(pending, c), x)
    PROVE  /\ InFlight' \subseteq InFlight
           /\ InFlight \subseteq InFlight' \cup {c.id}
<1>1. Take(pending, c) \in [Copy -> Nat] /\ pending \in [Copy -> Nat]
  BY TakeType DEF TypeOK
<1>2. c.id \in InFlight
  BY DEF InFlight, CopiesOf, Copy
<1>3. \A y \in Copy : y # c => Take(pending, c)[y] = pending[y]
  BY <1>1 DEF Take
<1>4. CASE pending' = Take(pending, c)
  BY <1>1, <1>2, <1>3, <1>4 DEF InFlight, CopiesOf
<1>5. ASSUME NEW x \in Copy, x.id = c.id, pending' = Add(Take(pending, c), x)
      PROVE  InFlight' \subseteq InFlight /\ InFlight \subseteq InFlight' \cup {c.id}
  <2>1. \A y \in Copy : /\ y # x => pending'[y] = Take(pending, c)[y]
                        /\ pending'[y] >= Take(pending, c)[y]
    <3> DEFINE bag == Take(pending, c)
    <3>1. \A y \in Copy : bag[y] \in Nat
      BY <1>1
    <3>2. \A y \in Copy : pending'[y] = IF y = x THEN bag[y] + 1 ELSE bag[y]
      BY <1>1, <1>5 DEF Add
    <3> HIDE DEF bag
    <3>3. \A y \in Copy : (y # x => pending'[y] = bag[y]) /\ pending'[y] >= bag[y]
      BY <3>1, <3>2
    <3>4. QED
      BY <3>3 DEF bag
  <2>2. \A y \in Copy : y # c /\ pending[y] > 0 => pending'[y] > 0
    <3> DEFINE bag == Take(pending, c)
    <3>1. \A y \in Copy : y # c => bag[y] = pending[y]
      BY <1>3
    <3>2. \A y \in Copy : pending[y] \in Nat /\ bag[y] \in Nat
      BY <1>1
    <3>3. \A y \in Copy : /\ y # x => pending'[y] = bag[y]
                          /\ y = x => pending'[y] = bag[y] + 1
      BY <1>1, <1>5 DEF Add
    <3> HIDE DEF bag
    <3>4. QED
      BY <3>1, <3>2, <3>3
  <2>3. \A y \in Copy : pending'[y] > 0 => pending[y] > 0 \/ y = x \/ y = c
    BY <1>1, <1>3, <2>1
  <2>4. QED
    BY <1>2, <1>5, <2>2, <2>3 DEF InFlight, CopiesOf
<1>6. QED
  BY <1>4, <1>5

-----------------------------------------------------------------------------
(* The headers after a save *)

\* Nothing but what is shown changes, and that of the headers of ks only.
SavedAs(s, ks, o) ==
    \A k \in Key :
        /\ store'[k].id = s[k].id /\ store'[k].st = s[k].st
        /\ store'[k].moveto = s[k].moveto /\ store'[k].seen = s[k].seen
        /\ store'[k].folder = s[k].folder
        /\ store'[k].copy = IF k \in ks THEN o.data ELSE s[k].copy
        /\ store'[k].columns = IF k \in ks THEN o.columns ELSE s[k].columns

LEMMA SaveHeaders ==
    ASSUME NEW s \in Stores, NEW ks, NEW o, store' = SaveInMessageDb(s, ks, o)
    PROVE  SavedAs(s, ks, o)
<1>1. \A k \in Key : s[k] \in Header
  BY DEF Stores
<1>2. ASSUME NEW h \in Header
      PROVE  LET g == [h EXCEPT !.copy = o.data,
                                !.late = o.timedOut,
                                !.columns = o.columns,
                                !.synced = TRUE, !.recent = TRUE]
             IN /\ g.id = h.id /\ g.st = h.st /\ g.moveto = h.moveto /\ g.seen = h.seen
                /\ g.folder = h.folder /\ g.copy = o.data /\ g.columns = o.columns
  BY DEF Header
<1>3. QED
  BY <1>1, <1>2 DEF SaveInMessageDb, SavedAs

LEMMA OutdateHeaders ==
    ASSUME NEW s \in Stores, NEW rks, NEW spared, NEW k \in Key
    PROVE  LET g == Outdate(s, rks, spared)[k] IN
           /\ g.id = s[k].id /\ g.st = s[k].st /\ g.moveto = s[k].moveto
           /\ g.folder = s[k].folder
           /\ g.seen = s[k].seen /\ g.copy = s[k].copy /\ g.columns = s[k].columns
<1>1. s[k] \in Header
  BY DEF Stores
<1>2. ASSUME NEW h \in Header
      PROVE  LET g == [h EXCEPT !.synced = FALSE]
             IN /\ g.id = h.id /\ g.st = h.st /\ g.moveto = h.moveto /\ g.seen = h.seen
                /\ g.folder = h.folder /\ g.copy = h.copy /\ g.columns = h.columns
  BY DEF Header
<1>3. QED
  BY <1>1, <1>2 DEF Outdate

LEMMA Saves ==
    ASSUME NEW s \in Stores, NEW ks, NEW rk, NEW o \in Object, NEW source,
           SaveNotificationData(s, ks, rk, o, source)
    PROVE  SavedAs(s, ks, o)
<1> DEFINE saved == SaveInMessageDb(s, ks, o)
<1>1. saved \in Stores
  BY SaveInMessageDbType
<1>2. CASE store' = saved
  BY <1>2, SaveHeaders
<1>3. ASSUME NEW spared, store' = Outdate(saved, {rk}, spared)
      PROVE  SavedAs(s, ks, o)
  <2>1. ASSUME NEW k \in Key
        PROVE  /\ saved[k].id = s[k].id /\ saved[k].st = s[k].st
               /\ saved[k].moveto = s[k].moveto /\ saved[k].seen = s[k].seen
               /\ saved[k].folder = s[k].folder
               /\ saved[k].copy = IF k \in ks THEN o.data ELSE s[k].copy
               /\ saved[k].columns = IF k \in ks THEN o.columns ELSE s[k].columns
    <3>1. s[k] \in Header
      BY DEF Stores
    <3>2. QED
      BY <3>1 DEF SaveInMessageDb, Header
  <2> HIDE DEF saved
  <2>2. QED
    BY <1>1, <1>3, <2>1, OutdateHeaders DEF SavedAs
<1>4. QED
  BY <1>2, <1>3 DEF SaveNotificationData
-----------------------------------------------------------------------------
(***************************************************************************)
(* The actions that draw nothing from a row: they keep PlaceInv, and a     *)
(* header keeps what it shows or becomes blank.                            *)
(***************************************************************************)
Quiet == \A k \in Key : SameData(k) \/ Blank(k)

LEMMA SamePlacePlaced ==
    ASSUME NEW k \in Key, SamePlace(k)
    PROVE  Placed(k)
  BY DEF SamePlace, Placed

LEMMA MovesSame == NoNewMove => MovesKept
  BY DEF NoNewMove, MovesKept

\* Steps that touch no header.
LEMMA PlaceSame ==
    ASSUME TypeInv, PlaceInv, UNCHANGED store, FlightKept, NoNewMove
    PROVE  PlaceInv' /\ Quiet
<1>1. \A k \in Key : Placed(k) /\ SameData(k)
  BY Unchanged, SamePlacePlaced
<1>2. QED
  BY <1>1, PlaceKeeps, MovesSame DEF Quiet

\* Steps that file a header.
LEMMA PlaceArrives ==
    ASSUME TypeInv, PlaceInv, NEW k \in Key, NEW id, Arrives(k, id), OthersSame(k),
           FlightKept, NoNewMove
    PROVE  PlaceInv' /\ Quiet
<1>1. Placed(k) /\ Blank(k)
  BY DEF Arrives, Placed
<1>2. \A j \in Key : j # k => Placed(j) /\ SameData(j)
  BY Unchanged, SamePlacePlaced DEF OthersSame
<1>3. \A j \in Key : Placed(j)
  BY <1>1, <1>2
<1>4. QED
  BY <1>1, <1>2, <1>3, PlaceKeeps, MovesSame DEF Quiet

\* The read of the header lines that begins with a new header is no move.
LEMMA NewHeaderMoves ==
    ASSUME TypeOK, NEW k \in Key, IsNew(k),
           NEW id \in Msg \cup Notif, NEW f \in Folder, NEW p \in Key \cup {NoKey},
           store' = [store EXCEPT ![k] = FreshHeader(id, f, p)],
           streams' = ItemAdded(store', k)
    PROVE  Arrives(k, id) /\ OthersSame(k) /\ NoNewMove
<1>1. Arrives(k, id) /\ OthersSame(k)
  BY NewArrives
<1>2. NoNewMove
  BY NewHeaderType
<1>3. QED
  BY <1>1, <1>2

LEMMA PlaceDeliver ==
    ASSUME TypeInv, PlaceInv, NEW n \in Notif, Deliver(n)
    PROVE  PlaceInv' /\ Quiet
<1>1. PICK k \in Key : /\ IsNew(k)
                       /\ store' = [store EXCEPT ![k] = FreshHeader(n, Inbox, NoKey)]
                       /\ streams' = ItemAdded(store', k)
  BY DEF Deliver
<1>2. Inbox \in Folder
  BY ConstantsAssumption
<1>3. Arrives(k, n) /\ OthersSame(k) /\ NoNewMove
  BY <1>1, <1>2, NewHeaderMoves DEF TypeInv
<1>4. FlightKept
  BY FlightSame DEF Deliver, history
<1>5. QED
  BY <1>3, <1>4, PlaceArrives

LEMMA PlaceFileSent ==
    ASSUME TypeInv, PlaceInv, NEW m \in Msg, NEW f \in Folder, FileSent(m, f)
    PROVE  PlaceInv' /\ Quiet
<1>1. PICK k \in Key : /\ IsNew(k)
                       /\ store' = [store EXCEPT ![k] = FreshHeader(m, f, NoKey)]
                       /\ streams' = ItemAdded(store', k)
  BY DEF FileSent
<1>2. Arrives(k, m) /\ OthersSame(k) /\ NoNewMove
  BY <1>1, NewHeaderMoves DEF TypeInv
<1>3. FlightKept
  BY FlightSame DEF FileSent, history
<1>4. QED
  BY <1>2, <1>3, PlaceArrives

\* The copy has become a message: what was under way is in a folder.
LEMMA PlaceCopyStopped ==
    ASSUME TypeInv, PlaceInv, NEW c \in Copy, CopyStopped(c)
    PROVE  PlaceInv' /\ Quiet
<1>1. c.id \in Notif /\ c.folder \in Folder
  BY DEF Copy
<1>2. Parents(store, Orig[c.id], c.folder) \subseteq Key \cup {NoKey}
  BY DEF Parents, Live
<1>3. PICK k \in Key, p \in Parents(store, Orig[c.id], c.folder) :
        /\ IsNew(k)
        /\ store' = [store EXCEPT ![k] = FreshHeader(c.id, c.folder, p)]
        /\ streams' = ItemAdded(store', k)
  BY DEF CopyStopped
<1>4. Arrives(k, c.id) /\ OthersSame(k) /\ NoNewMove
  BY <1>1, <1>2, <1>3, NewHeaderMoves DEF TypeInv
<1>5. Safe(c.id)'
  BY <1>4 DEF Arrives, Blank, Safe, Live
<1>6. InFlight' \subseteq InFlight /\ InFlight \subseteq InFlight' \cup {c.id}
  BY FlightTaken DEF CopyStopped, TypeInv
<1>7. FlightKept
  <2>1. lostMail' = lostMail
    BY DEF CopyStopped, history
  <2>2. \A n \in InFlight : Safe(n)'
    BY <1>5, <1>6 DEF Safe
  <2>3. QED
    BY <1>6, <2>1, <2>2 DEF FlightKept
<1>8. QED
  BY <1>4, <1>7, PlaceArrives

\* A copy that fails for good is lost, a copy that is refused is tried again.
LEMMA PlaceCopyFailed ==
    ASSUME TypeInv, PlaceInv, NEW c \in Copy, CopyFailed(c) \/ RetryCopy(c)
    PROVE  PlaceInv' /\ Quiet
<1>1. UNCHANGED <<store, streams>> /\ pending[c] > 0
  BY DEF CopyFailed, RetryCopy
<1>2. /\ Accepted(c.id, c.folder) \in Copy /\ Accepted(c.id, c.folder).id = c.id
      /\ c.count + 1 < MaxAttempts =>
            /\ [c EXCEPT !.count = @ + 1] \in Copy
            /\ [c EXCEPT !.count = @ + 1].id = c.id
  BY ConstantsAssumption DEF Accepted, Copy
<1>3. \/ pending' = Take(pending, c) /\ lostMail' = lostMail \cup {c.id}
      \/ /\ lostMail' = lostMail
         /\ \E x \in Copy : x.id = c.id /\ pending' = Add(Take(pending, c), x)
  BY <1>2 DEF CopyFailed, RetryCopy
<1>4. InFlight' \subseteq InFlight /\ InFlight \subseteq InFlight' \cup {c.id}
  BY <1>1, <1>3, FlightTaken DEF TypeInv
<1>5. FlightKept
  <2>1. CASE lostMail' = lostMail \cup {c.id}
    BY <1>4, <2>1 DEF FlightKept, Safe
  <2>2. ASSUME lostMail' = lostMail, NEW x \in Copy, x.id = c.id,
               pending' = Add(Take(pending, c), x)
        PROVE  FlightKept
    <3>1. x \in Copy /\ pending'[x] > 0
      <4> DEFINE bag == Take(pending, c)
      <4>1. bag \in [Copy -> Nat]
        BY <1>1, TakeType DEF TypeInv, TypeOK
      <4>2. pending' = Add(bag, x)
        BY <2>2
      <4> HIDE DEF bag
      <4>3. QED
        BY <4>1, <4>2 DEF Add
    <3>2. c.id \in Notif
      BY DEF Copy
    <3>3. c.id \in InFlight'
      BY <2>2, <3>1, <3>2 DEF InFlight, CopiesOf
    <3>4. QED
      BY <1>4, <2>2, <3>3 DEF FlightKept, Safe
  <2>3. QED
    BY <1>3, <2>1, <2>2
<1>6. QED
  BY <1>1, <1>5, PlaceSame DEF NoNewMove

\* Reads that begin or end, and delays that run out.
LEMMA PlaceHeaderChecked ==
    ASSUME TypeInv, PlaceInv, NEW k \in Key, HeaderChecked(k)
    PROVE  PlaceInv' /\ Quiet
<1> DEFINE taken == Take(streams, <<"check", k>>)
<1>1. streams \in [Stream -> Nat] /\ streams[<<"check", k>>] > 0
  BY DEF TypeInv, TypeOK, HeaderChecked
<1>2. taken \in [Stream -> Nat] /\ \A x \in Stream : taken[x] > 0 => streams[x] > 0
  BY <1>1, StreamType, TakeType
<1>3. streams' = Add(taken, <<"parse", k>>) \/ streams' = taken
  BY DEF HeaderChecked
<1> HIDE DEF taken
<1>4. \A j \in Key : Add(taken, <<"parse", k>>)[<<"move", j>>] = taken[<<"move", j>>]
  BY <1>2, StreamType DEF Add
<1>5. NoNewMove
  BY <1>2, <1>3, <1>4, StreamType DEF NoNewMove
<1>6. QED
  BY <1>5, PlaceSame, FlightSame DEF HeaderChecked, history

LEMMA PlaceStreamTaken ==
    ASSUME TypeInv, PlaceInv, NEW x \in Stream, streams[x] > 0,
           streams' = Take(streams, x), UNCHANGED <<store, pending, lostMail>>
    PROVE  PlaceInv' /\ Quiet
  BY StreamTaken, PlaceSame, FlightSame DEF TypeInv

LEMMA PlaceStreams ==
    ASSUME TypeInv, PlaceInv,
           \/ \E x \in Stream : StreamFailed(x)
           \/ \E k \in Key : ParseRepeated(k)
           \/ \E m \in Msg : Expire(m)
    PROVE  PlaceInv' /\ Quiet
<1>1. CASE \E x \in Stream : StreamFailed(x)
  BY <1>1, PlaceStreamTaken DEF StreamFailed, history
<1>2. CASE \E k \in Key : ParseRepeated(k)
  BY <1>2, PlaceStreamTaken, StreamType DEF ParseRepeated, history
<1>3. CASE \E m \in Msg : Expire(m)
  BY <1>3, PlaceSame, FlightSame DEF Expire, history, NoNewMove
<1>4. QED
  BY <1>1, <1>2, <1>3

\* The flags of a header that say whether and when it was read.
LEMMA SeenHeader ==
    ASSUME TypeOK, NEW k \in Key, NEW x
    PROVE  LET t == [store EXCEPT ![k].seen = x] IN
           /\ \A j \in Key : j # k => t[j] = store[j]
           /\ t[k].seen = x /\ t[k].id = store[k].id /\ t[k].st = store[k].st
           /\ t[k].moveto = store[k].moveto /\ t[k].folder = store[k].folder
           /\ t[k].copy = store[k].copy /\ t[k].columns = store[k].columns
  BY DEF TypeOK, Header

LEMMA PlaceParseIgnored ==
    ASSUME TypeInv, PlaceInv, NEW k \in Key, ParseIgnored(k)
    PROVE  PlaceInv' /\ Quiet
<1>1. store' = [store EXCEPT ![k].seen = "yes"]
  BY DEF ParseIgnored
<1>2. \A j \in Key : SamePlace(j) /\ SameData(j)
  BY <1>1, SeenHeader DEF SamePlace, SameData, TypeInv
<1>3. NoNewMove
  BY StreamTaken, StreamType DEF ParseIgnored, TypeInv
<1>4. FlightKept
  BY FlightSame DEF ParseIgnored, history
<1>5. QED
  BY <1>2, <1>3, <1>4, PlaceKeeps, SamePlacePlaced, MovesSame DEF Quiet

LEMMA PlaceFiveSeconds ==
    ASSUME TypeInv, PlaceInv, FiveSecondsPass
    PROVE  PlaceInv' /\ Quiet
<1>1. \A k \in Key : SamePlace(k) /\ SameData(k)
  <2> TAKE k \in Key
  <2> DEFINE h == store[k]
             g == store'[k]
  <2>1. h \in Header /\ g = [h EXCEPT !.recent = FALSE]
    BY DEF FiveSecondsPass, TypeInv, TypeOK
  <2> HIDE DEF h, g
  <2>2. /\ g.id = h.id /\ g.st = h.st /\ g.moveto = h.moveto /\ g.seen = h.seen
        /\ g.copy = h.copy /\ g.columns = h.columns
    BY <2>1 DEF Header
  <2>3. QED
    BY <2>2 DEF SamePlace, SameData, g, h
<1>2. FlightKept /\ NoNewMove
  BY FlightSame DEF FiveSecondsPass, history, NoNewMove
<1>3. QED
  BY <1>1, <1>2, PlaceKeeps, SamePlacePlaced, MovesSame DEF Quiet

LEMMA PlaceCheckDelays ==
    ASSUME TypeInv, PlaceInv, CheckDelays
    PROVE  PlaceInv' /\ Quiet
<1>1. PICK ok \in SUBSET waiting : store' = Outdate(store, ok, {})
  BY DEF CheckDelays
<1>2. \A k \in Key : SamePlace(k) /\ SameData(k)
  BY <1>1, OutdateHeaders DEF SamePlace, SameData, TypeInv, TypeOK, Stores
<1>3. FlightKept /\ NoNewMove
  BY FlightSame DEF CheckDelays, history, NoNewMove
<1>4. QED
  BY <1>2, <1>3, PlaceKeeps, SamePlacePlaced, MovesSame DEF Quiet

\* The user: the message is in the other folder, or deleted on purpose.
LEMMA PlaceUserMoves ==
    ASSUME TypeInv, PlaceInv, NEW k \in Key, NEW f \in Folder, UserMoves(k, f)
    PROVE  PlaceInv' /\ Quiet
<1>1. TypeOK /\ store[k].st = "live" /\ store[k] \in Header
  BY DEF TypeInv, TypeOK, UserMoves
<1>2. PICK new \in Key, p \in Key \cup {NoKey} :
        /\ IsNew(new)
        /\ store' = [store EXCEPT ![k].st = "gone",
                                  ![new] = FreshHeader(store[k].id, f, p)]
  BY DEF UserMoves, Parents, Live
<1>3. store[new].st = "free" /\ new # k
  BY <1>1, <1>2 DEF IsNew
<1> DEFINE g == [store[k] EXCEPT !.st = "gone"]
           h == FreshHeader(store[k].id, f, p)
<1>4. /\ g.id = store[k].id /\ g.st = "gone" /\ g.moveto = store[k].moveto
      /\ g.seen = store[k].seen /\ g.copy = store[k].copy
      /\ g.columns = store[k].columns
  BY <1>1 DEF Header
<1>5. /\ h.id = store[k].id /\ h.st = "live" /\ h.seen = "" /\ h.moveto = NoId
      /\ h.copy = EmptyData
  BY DEF FreshHeader
<1>6. store' = [[store EXCEPT ![k] = g] EXCEPT ![new] = h]
  BY <1>1, <1>2 DEF TypeOK
<1> HIDE DEF g, h
<1>7. /\ store'[k] = g /\ store'[new] = h
      /\ \A j \in Key : j # k /\ j # new => store'[j] = store[j]
  BY <1>1, <1>3, <1>6 DEF TypeOK
<1>8. Safe(store[k].id)'
  <2>1. store'[new].st = "live" /\ store'[new].id = store'[k].id
    BY <1>4, <1>5, <1>7
  <2>2. Live(store', store'[k].id) # {}
    BY <2>1 DEF Live
  <2>3. QED
    BY <2>2 DEF Safe, Live
<1>9. Placed(new) /\ Blank(new)
  BY <1>3, <1>5, <1>7 DEF Placed, Blank
<1>10. Placed(k) /\ SameData(k)
  BY <1>1, <1>4, <1>7, <1>8 DEF Placed, SameData
<1>11. \A j \in Key : j # k /\ j # new => Placed(j) /\ SameData(j)
  BY <1>7, Unchanged, SamePlacePlaced
<1>12. NoNewMove
  <2> DEFINE listed == FindIn(store', store[k].id, f)
  <2> HIDE DEF listed
  <2>1. streams' = [s \in Stream |->
                 IF s[1] = "check" /\ s[2] \in listed /\ store'[s[2]].seen = ""
                 THEN streams[s] + 1 ELSE streams[s]]
    BY DEF UserMoves, listed
  <2>2. \A j \in Key : streams'[<<"move", j>>] = streams[<<"move", j>>]
    BY <2>1, StreamType
  <2>3. QED
    BY <2>2 DEF NoNewMove
<1>13. FlightKept
  BY FlightSame DEF UserMoves, history
<1>14. \A j \in Key : Placed(j) /\ (SameData(j) \/ Blank(j))
  BY <1>9, <1>10, <1>11
<1>15. QED
  BY <1>12, <1>13, <1>14, PlaceKeeps, MovesSame DEF Quiet

LEMMA PlaceUserPurges ==
    ASSUME TypeInv, PlaceInv, NEW k \in Key, UserPurges(k)
    PROVE  PlaceInv' /\ Quiet
<1>1. TypeOK /\ store[k] \in Header /\ store[k].st = "live"
  BY DEF TypeInv, TypeOK, UserPurges
<1> DEFINE g == [store[k] EXCEPT !.st = "gone"]
<1>2. /\ g.id = store[k].id /\ g.st = "gone" /\ g.moveto = store[k].moveto
      /\ g.seen = store[k].seen /\ g.copy = store[k].copy
      /\ g.columns = store[k].columns
  BY <1>1 DEF Header
<1>3. store' = [store EXCEPT ![k] = g]
  BY <1>1 DEF UserPurges, TypeOK
<1> HIDE DEF g
<1>4. store'[k] = g /\ \A j \in Key : j # k => store'[j] = store[j]
  BY <1>1, <1>3 DEF TypeOK
<1>5. store[k].id \in Notif => Safe(store[k].id)'
  BY <1>2, <1>4 DEF UserPurges, Safe
<1>6. \A j \in Key : Placed(j) /\ SameData(j)
  BY <1>1, <1>2, <1>4, <1>5, Unchanged, SamePlacePlaced DEF Placed, SameData
<1>7. FlightKept /\ NoNewMove
  BY DEF UserPurges, FlightKept, InFlight, CopiesOf, Safe, NoNewMove
<1>8. QED
  BY <1>6, <1>7, PlaceKeeps, MovesSame DEF Quiet

LEMMA PlaceRebuildIndex ==
    ASSUME TypeInv, PlaceInv, NEW f \in Folder, RebuildIndex(f)
    PROVE  PlaceInv' /\ Quiet
<1>1. ASSUME NEW k \in Key PROVE Placed(k) /\ (SameData(k) \/ Blank(k))
  <2>1. CASE store'[k] = store[k]
    BY <2>1, Unchanged, SamePlacePlaced
  <2>2. CASE /\ store[k].st = "live"
             /\ store'[k] = [FreshHeader(store[k].id, f, NoKey)
                                EXCEPT !.parent = store[k].parent]
    <3>1. /\ store'[k].id = store[k].id /\ store'[k].st = "live" /\ store'[k].seen = ""
          /\ store'[k].moveto = NoId /\ store'[k].copy = EmptyData
      BY <2>2 DEF FreshHeader
    <3>2. QED
      BY <2>2, <3>1 DEF Placed, Blank
  <2>3. QED
    BY <2>1, <2>2 DEF RebuildIndex
<1>2. FlightKept /\ NoNewMove
  BY FlightSame DEF RebuildIndex, history, NoNewMove
<1>3. QED
  BY <1>1, <1>2, PlaceKeeps, MovesSame DEF Quiet

-----------------------------------------------------------------------------
(***************************************************************************)
(* Moves and crashes.  A move that begins takes the header away and starts *)
(* a copy in one step; one that a crash cuts short has lost the mail.      *)
(***************************************************************************)
LEMMA PlaceMoveNotification ==
    ASSUME TypeInv, PlaceInv, NEW k \in Key, MoveNotification(k)
    PROVE  PlaceInv' /\ Quiet
<1> DEFINE n == store[k].id
           sought == Bare(Orig[n])
<1>1. TypeOK /\ n \in Notif /\ streams[<<"move", k>>] > 0
  BY DEF TypeInv, MovesNotifications, MoveNotification
<1>2. sought \in RowKey
  BY <1>1, ConstantsAssumption DEF Bare, RowKey
<1>3. PICK out \in MoveOutcomes(store, k, sought, FALSE) :
        /\ store' = out.store
        /\ StartCopies(out.copies)
        /\ lostMail' = lostMail \cup out.lost
  BY DEF MoveNotification
<1> HIDE DEF sought
<1>4. Moved(store, k, FALSE, out)
  BY <1>1, <1>2, <1>3, OutcomesMove DEF TypeOK, Stores
<1>5. ~ Kept(n)
  BY <1>1 DEF PlaceInv, PutInv
<1>6. \A x \in Notif : x \in InFlight' <=> x \in InFlight \/ \E c \in out.copies : c.id = x
  BY <1>1, <1>3, <1>4, FlightStarts DEF Moved
<1>7. out.store[k].st = store[k].st \/ n \in InFlight' \/ n \in lostMail'
  BY <1>1, <1>3, <1>4, <1>6 DEF Moved
<1>8. /\ store'[k].id = n /\ store'[k].copy = store[k].copy
      /\ store'[k].columns = store[k].columns /\ store'[k].seen = store[k].seen
  BY <1>3, <1>4 DEF Moved
<1>9. SameData(k)
  BY <1>8 DEF SameData
<1>10. Placed(k)
  <2>1. store[k].st # "free"
    BY <1>1 DEF TypeInv, MovesNotifications
  <2>2. store'[k].st # "free"
    <3>1. Outcome(store, out)
      BY <1>1, <1>2, <1>3, MoveOutcomesType DEF TypeOK, Stores
    <3>2. QED
      BY <1>3, <2>1, <3>1 DEF Outcome
  <2>3. store'[k].st = store[k].st \/ Safe(n)'
    BY <1>3, <1>7, <1>8 DEF Safe
  <2>4. QED
    BY <1>5, <1>8, <2>2, <2>3 DEF Placed
<1>11. \A j \in Key : Placed(j) /\ SameData(j)
  <2>1. \A j \in Key : j # k => store'[j] = store[j]
    BY <1>3, <1>4 DEF Moved
  <2>2. QED
    BY <1>9, <1>10, <2>1, Unchanged, SamePlacePlaced
<1>12. FlightKept
  <2>1. \A x \in InFlight' : x \in InFlight \/ x = n
    BY <1>4, <1>6, InFlightType DEF Moved, InFlight
  <2>2. \A x \in InFlight : Safe(x)'
    BY <1>6, InFlightType DEF Safe
  <2>3. QED
    BY <1>3, <1>5, <2>1, <2>2 DEF FlightKept
<1>13. NoNewMove
  BY <1>1, StreamTaken, StreamType DEF MoveNotification
<1>14. QED
  BY <1>11, <1>12, <1>13, PlaceKeeps, MovesSame DEF Quiet

\* What was under way when Thunderbird died is lost.
LEMMA FlightForgotten ==
    ASSUME ForgetVolatile, lostMail \cup InFlight \subseteq lostMail'
    PROVE  FlightKept /\ NoNewMove
<1>1. \A c \in Copy : ~ (pending'[c] > 0)
  BY DEF ForgetVolatile
<1>2. InFlight' = {}
  BY <1>1 DEF InFlight, CopiesOf
<1>3. QED
  BY <1>2, ForgetType DEF FlightKept, Safe

LEMMA PlaceCrash ==
    ASSUME TypeInv, PlaceInv, Crash
    PROVE  PlaceInv' /\ Quiet
  BY FlightForgotten, PlaceSame DEF Crash

LEMMA PlaceCrashInParse ==
    ASSUME TypeInv, PlaceInv, NEW k \in Key, CrashInParse(k)
    PROVE  PlaceInv' /\ Quiet
<1> DEFINE n == store[k].id
           failed == DSNFailed(n)
<1>1. TypeOK /\ n \in Notif /\ RowOf(n) \in RowKey /\ store[k].seen = ""
  BY RowOfType DEF TypeInv, CrashInParse
<1>2. PICK seen \in {"", "yes"} :
        \E out \in MoveOutcomes([store EXCEPT ![k].seen = seen], k, RowOf(n), failed) :
          /\ store' = out.store
          /\ lostMail' = lostMail \cup InFlight \cup out.lost \cup {c.id : c \in out.copies}
  BY DEF CrashInParse
<1> DEFINE read == [store EXCEPT ![k].seen = seen]
<1>3. /\ read \in Stores
      /\ \A j \in Key : j # k => read[j] = store[j]
      /\ read[k].seen = seen /\ read[k].id = n /\ read[k].st = store[k].st
      /\ read[k].moveto = store[k].moveto
      /\ read[k].copy = store[k].copy /\ read[k].columns = store[k].columns
  <2> HIDE DEF failed
  <2>1. read \in Stores
    BY <1>1, SeenType
  <2>2. QED
    BY <1>1, <2>1, SeenHeader
<1> HIDE DEF failed, read
<1>4. PICK out \in MoveOutcomes(read, k, RowOf(n), failed) :
          /\ store' = out.store
          /\ lostMail' = lostMail \cup InFlight \cup out.lost \cup {c.id : c \in out.copies}
  BY <1>2 DEF read
<1>5. Moved(read, k, failed, out) /\ Outcome(read, out)
  BY <1>1, <1>3, <1>4, OutcomesMove, MoveOutcomesType
<1>6. /\ store'[k].id = n /\ store'[k].copy = store[k].copy
      /\ store'[k].columns = store[k].columns /\ store'[k].seen \in {"", "yes"}
      /\ store'[k].st = store[k].st \/ n \in lostMail'
  BY <1>3, <1>4, <1>5 DEF Moved
<1>7. store[k].st = "live" /\ store'[k].st # "free"
  BY <1>3, <1>4, <1>5 DEF Outcome, CrashInParse
<1>8. store'[k].moveto = store[k].moveto \/ ~ Kept(n)
  BY <1>3, <1>4, <1>5 DEF Moved, Kept, failed
<1>9. Placed(k) /\ SameData(k)
  BY <1>1, <1>6, <1>7, <1>8 DEF Placed, SameData, Safe
<1>10. \A j \in Key : Placed(j) /\ SameData(j)
  <2>1. \A j \in Key : j # k => store'[j] = store[j]
    BY <1>3, <1>4, <1>5 DEF Moved
  <2>2. QED
    BY <1>9, <2>1, Unchanged, SamePlacePlaced
<1>11. FlightKept /\ NoNewMove
  BY <1>4, FlightForgotten DEF CrashInParse
<1>12. QED
  BY <1>10, <1>11, PlaceKeeps, MovesSame DEF Quiet

-----------------------------------------------------------------------------
(***************************************************************************)
(* The actions that draw what a header shows from a row.                   *)
(***************************************************************************)

\* The header of k shows the object o.
Draws(k, o) ==
    /\ store'[k].id = store[k].id
    /\ store'[k].copy = o.data /\ store'[k].columns = o.columns

\* A report is drawn into the headers of its original that were found, ...
ReportDrawn(n) ==
    \A k \in Key : \/ SameData(k)
                   \/ /\ store[k].id = Orig[n] /\ Draws(k, Reported(n))
                      /\ store'[k].seen \in {store[k].seen, "yes"}

LEMMA PlaceParseReport ==
    ASSUME TypeInv, PlaceInv, NEW k \in Key, ParseReport(k)
    PROVE  PlaceInv' /\ ReportDrawn(store[k].id)
<1> DEFINE n     == store[k].id
           read  == [store EXCEPT ![k].seen = "yes"]
           o     == Reported(n)
           found == Find(read, Orig[n])
           failed == DSNFailed(n)
<1>1. /\ TypeOK /\ n \in Notif /\ RowOf(n) \in RowKey /\ store[k].seen = ""
      /\ streams[<<"parse", k>>] > 0
  BY RowOfType DEF TypeInv, ParseReport
<1>2. o \in Object
  BY <1>1, ReportedKeeps
<1>3. /\ read \in Stores
      /\ \A j \in Key : j # k => read[j] = store[j]
      /\ read[k].seen = "yes" /\ read[k].id = n /\ read[k].st = store[k].st
      /\ read[k].moveto = store[k].moveto
      /\ read[k].copy = store[k].copy /\ read[k].columns = store[k].columns
  <2> HIDE DEF o, found, failed
  <2>1. read \in Stores
    BY <1>1, SeenType
  <2>2. QED
    BY <1>1, <2>1 DEF TypeOK, Header
<1>4. \A j \in found : store[j].id = Orig[n]
  BY <1>3 DEF Find, Searchable, Live
<1>5. PICK out \in MoveOutcomes(read, k, RowOf(n), failed) :
        /\ SaveNotificationData(out.store, found, RowOf(n), o, n)
        /\ StartCopies(out.copies)
        /\ lostMail' = lostMail \cup out.lost
  BY DEF ParseReport, Reported
<1> HIDE DEF read, o, found, failed
<1>6. Moved(read, k, failed, out) /\ Outcome(read, out)
  BY <1>1, <1>3, <1>5, OutcomesMove, MoveOutcomesType
<1>7. SavedAs(out.store, found, o)
  BY <1>2, <1>5, <1>6, Saves DEF Moved
<1>8. \A j \in Key : j # k => SamePlace(j) /\ store'[j].seen = store[j].seen
                            /\ out.store[j] = store[j]
  BY <1>3, <1>6, <1>7 DEF Moved, SavedAs, SamePlace
<1>9. /\ store'[k].id = n /\ store'[k].seen = "yes"
      /\ out.store[k].copy = store[k].copy /\ out.store[k].columns = store[k].columns
      /\ store'[k].moveto = store[k].moveto \/ ~ Kept(n)
  <2>1. /\ out.store[k].id = n /\ out.store[k].seen = "yes"
        /\ out.store[k].copy = store[k].copy /\ out.store[k].columns = store[k].columns
        /\ out.store[k].moveto = store[k].moveto \/ ~ (failed /\ KeepFailed)
    BY <1>3, <1>6 DEF Moved
  <2>2. QED
    BY <1>7, <2>1 DEF SavedAs, Kept, failed
<1>10. ReportDrawn(n)
  <2>1. ASSUME NEW j \in Key, j \in found
        PROVE  store[j].id = Orig[n] /\ Draws(j, o) /\ store'[j].seen \in {store[j].seen, "yes"}
    BY <1>4, <1>7, <1>8, <1>9, <2>1 DEF SavedAs, Draws, SamePlace
  <2>2. ASSUME NEW j \in Key, j \notin found
        PROVE  SameData(j)
    BY <1>7, <1>8, <1>9, <2>2 DEF SavedAs, SameData, SamePlace
  <2>3. QED
    BY <2>1, <2>2 DEF ReportDrawn, o
<1>11. \A x \in Notif : x \in InFlight' <=> x \in InFlight \/ \E c \in out.copies : c.id = x
  BY <1>1, <1>5, <1>6, FlightStarts DEF Moved
<1>12. store'[k].st = store[k].st \/ Safe(n)'
  <2>1. store'[k].st = out.store[k].st
    BY <1>7 DEF SavedAs
  <2>2. out.store[k].st = store[k].st \/ n \in InFlight' \/ n \in lostMail'
    <3>1. \/ out.store[k].st = read[k].st
          \/ out.copies # {} /\ \A c \in out.copies : c.id = n
          \/ n \in out.lost
      BY <1>3, <1>6 DEF Moved
    <3>2. QED
      BY <1>1, <1>3, <1>5, <1>11, <3>1
  <2>3. QED
    BY <1>9, <2>1, <2>2 DEF Safe
<1>13. store'[k].st = "free" => store[k].st = "free"
  BY <1>3, <1>6, <1>7 DEF Outcome, SavedAs
<1>14. Placed(k)
  BY <1>9, <1>12, <1>13 DEF Placed
<1>15. FlightKept
  <2>1. \A c \in out.copies : c.id = n /\ ~ Kept(n)
    BY <1>3, <1>6 DEF Moved, Kept, failed
  <2>2. \A x \in InFlight' : x \in InFlight \/ ~ Kept(x)
    BY <1>11, <2>1, InFlightType DEF InFlight
  <2>3. \A x \in InFlight : Safe(x)'
    BY <1>11, InFlightType DEF Safe
  <2>4. QED
    BY <1>5, <2>2, <2>3 DEF FlightKept
<1>16. NoNewMove
  BY <1>1, StreamTaken, StreamType DEF ParseReport
<1>17. \A j \in Key : Placed(j)
  BY <1>8, <1>14, SamePlacePlaced
<1>18. QED
  BY <1>10, <1>15, <1>16, <1>17, PlaceKeeps, MovesSame

\* ... the row of a message into a header of it that is displayed ...
RowDrawn(k) ==
    /\ store[k].id \in Msg /\ Draws(k, Load(db[Bare(store[k].id)], store[k].id))
    /\ store'[k].seen = store[k].seen

LEMMA PlaceDisplayRow ==
    ASSUME TypeInv, PlaceInv, NEW k \in Key, DisplayRow(k)
    PROVE  /\ PlaceInv'
           /\ SameData(k) \/ RowDrawn(k)
           /\ \A j \in Key : j # k => SameData(j)
<1> DEFINE m == store[k].id
           d == db[Bare(m)]
<1>1. TypeOK /\ store[k] \in Header
  BY DEF TypeInv, TypeOK
<1>2. /\ \A j \in Key : SamePlace(j)
      /\ SameData(k) \/ RowDrawn(k)
      /\ \A j \in Key : j # k => SameData(j)
  <2>1. CASE UNCHANGED store
    BY <2>1, Unchanged
  <2>2. CASE store' = [store EXCEPT ![k].recent = TRUE, ![k].synced = TRUE]
    <3> DEFINE h == [[store[k] EXCEPT !.recent = TRUE] EXCEPT !.synced = TRUE]
    <3>1. /\ h.id = store[k].id /\ h.st = store[k].st /\ h.moveto = store[k].moveto
          /\ h.seen = store[k].seen /\ h.copy = store[k].copy
          /\ h.columns = store[k].columns
      BY <1>1 DEF Header
    <3>2. store' = [store EXCEPT ![k] = h]
      BY <1>1, <2>2 DEF TypeOK
    <3> HIDE DEF h
    <3>3. store'[k] = h /\ \A j \in Key : j # k => store'[j] = store[j]
      BY <1>1, <3>2 DEF TypeOK
    <3>4. QED
      BY <3>1, <3>3, Unchanged DEF SamePlace, SameData
  <2>3. CASE m \in Msg /\ store' = SaveInMessageDb(store, {k}, Load(d, m))
    <3> DEFINE o == Load(d, m)
    <3> HIDE DEF o
    <3>1. store' = SaveInMessageDb(store, {k}, o)
      BY <2>3 DEF o
    <3>2. SavedAs(store, {k}, o)
      BY <1>1, <3>1, SaveHeaders DEF TypeOK, Stores
    <3>3. /\ \A j \in Key : SamePlace(j)
          /\ \A j \in Key : j # k => SameData(j)
          /\ Draws(k, o) /\ store'[k].seen = store[k].seen
      BY <3>2 DEF SavedAs, SamePlace, SameData, Draws
    <3>4. QED
      BY <2>3, <3>3 DEF RowDrawn, o
  <2>4. QED
    BY <2>1, <2>2, <2>3 DEF DisplayRow, SyncMessageDb
<1>3. NoNewMove
  <2>1. streams \in [Stream -> Nat] /\ <<"parse", k>> \in Stream
    BY <1>1, StreamType DEF TypeOK
  <2>2. \A j \in Key : Add(streams, <<"parse", k>>)[<<"move", j>>] = streams[<<"move", j>>]
    BY <2>1, StreamType DEF Add
  <2>3. QED
    BY <2>1, <2>2 DEF DisplayRow, NoNewMove
<1>4. FlightKept
  BY FlightSame DEF DisplayRow, history
<1>5. QED
  BY <1>2, <1>3, <1>4, PlaceKeeps, SamePlacePlaced, MovesSame

\* ... and the row of a message into its header when it is parsed: a message
\* that asks for notifications is registered, and its row is written too.
Known(m) == Load([db[Bare(m)] EXCEPT !.dated = TRUE], m)

OriginalDrawn(k) ==
    LET m == store[k].id IN
    /\ m \in Msg
    /\ \/ /\ Draws(k, Asked(m)) /\ store'[k].seen = "request"
          /\ m \in unsaved' \/ db'[Bare(m)] = Asked(m).data
       \/ Draws(k, Known(m)) /\ store'[k].seen = "yes"
       \/ SameData(k)

LEMMA KnownType ==
    ASSUME TypeInv, NEW m \in Msg
    PROVE  /\ Known(m) \in Object
           /\ Known(m).data.rows = db[Bare(m)].rows
           /\ Known(m).data.count = db[Bare(m)].count
<1> DEFINE d     == db[Bare(m)]
           dated == [d EXCEPT !.dated = TRUE]
<1>1. d \in Data
  BY DEF Bare, RowKey, TypeInv, TypeOK
<1>2. /\ dated \in Data /\ dated.count = d.count /\ dated.rows = d.rows
      /\ Known(m) = Load(dated, m)
  BY <1>1 DEF Data, Known
<1> HIDE DEF d, dated
<1>3. Known(m) \in Object /\ Known(m).data = Settle(dated)
  BY <1>2, LoadType
<1>4. QED
  BY <1>2, <1>3, SettleType DEF d

\* The header of k is marked and then saved with the object o, or only marked.
LEMMA MarkedAndSaved ==
    ASSUME TypeOK, NEW k \in Key, NEW mark, NEW ks \in SUBSET {k}, NEW o,
           SavedAs([store EXCEPT ![k].seen = mark], ks, o)
    PROVE  /\ \A j \in Key : SamePlace(j)
           /\ \A j \in Key : j # k => SameData(j)
           /\ store'[k].seen = mark
           /\ k \in ks => Draws(k, o)
           /\ k \notin ks => /\ store'[k].id = store[k].id /\ store'[k].copy = store[k].copy
                             /\ store'[k].columns = store[k].columns
<1> DEFINE t == [store EXCEPT ![k].seen = mark]
<1>1. /\ \A j \in Key : j # k => t[j] = store[j]
      /\ t[k].seen = mark /\ t[k].id = store[k].id /\ t[k].st = store[k].st
      /\ t[k].moveto = store[k].moveto /\ t[k].folder = store[k].folder
      /\ t[k].copy = store[k].copy /\ t[k].columns = store[k].columns
  BY SeenHeader
<1> HIDE DEF t
<1>2. SavedAs(t, ks, o)
  BY DEF t
<1>3. QED
  BY <1>1, <1>2 DEF SavedAs, SamePlace, SameData, Draws

\* The notifications it sends for were marked for the move: none is kept.
LEMMA SentForMoves ==
    ASSUME TypeInv, PlaceInv, NEW k \in Key, ParseOriginal(k)
    PROVE  MovesKept
<1> DEFINE m == store[k].id
<1>1. TypeOK /\ m \in Msg
  BY DEF TypeInv, ParseOriginal
<1>2. \A h \in WaitingFor(m) :
        h \in Key /\ store[h].id \in Notif /\ store[h].st = "live"
  BY <1>1, WaitingForType
<1>3. \A h \in WaitingFor(m) : store[h].moveto = Bare(m)
  BY DEF WaitingFor
<1>4. Bare(m) # NoId
  BY DEF Bare, NoId
<1>5. \A h \in WaitingFor(m) : ~ Kept(store[h].id)
  <2>1. ASSUME NEW h \in Key, store[h].id \in Notif, Kept(store[h].id)
        PROVE  store[h].moveto = NoId
    BY <2>1 DEF PlaceInv, PutInv
  <2>2. QED
    BY <1>2, <1>3, <1>4, <2>1
<1>6. /\ streams \in [Stream -> Nat]
      /\ streams' = [s \in Stream |->
                       IF s = <<"parse", k>> THEN streams[s] - 1
                       ELSE IF s[1] = "move" /\ s[2] \in WaitingFor(m)
                            THEN streams[s] + 1
                            ELSE streams[s]]
  BY <1>1 DEF ParseOriginal, TypeOK
<1>7. ASSUME NEW j \in Key, streams'[<<"move", j>>] > 0, j \notin WaitingFor(m)
      PROVE  streams[<<"move", j>>] > 0
  BY <1>6, <1>7, StreamType
<1>8. QED
  BY <1>2, <1>5, <1>7 DEF MovesKept

LEMMA PlaceParseOriginal ==
    ASSUME TypeInv, PlaceInv, NEW k \in Key, ParseOriginal(k)
    PROVE  /\ PlaceInv'
           /\ OriginalDrawn(k)
           /\ \A j \in Key : j # k => SameData(j)
<1> DEFINE m  == store[k].id
           ks == IF Known(m).data.rows = {} THEN {} ELSE {k}
<1>1. TypeOK /\ m \in Msg /\ m \notin Notif /\ store[k].seen = "" /\ Bare(m) \in RowKey
  BY ConstantsAssumption DEF TypeInv, ParseOriginal, Bare, RowKey
<1>2. Known(m) \in Object /\ Asked(m) \in Object
  BY <1>1, KnownType, AskedKeeps
<1> DEFINE Goal == /\ \A j \in Key : SamePlace(j)
                   /\ OriginalDrawn(k)
                   /\ \A j \in Key : j # k => SameData(j)
<1>3. ASSUME SaveNotificationData([store EXCEPT ![k].seen = "request"],
                                  {k}, Bare(m), Asked(m), m)
      PROVE  Goal
  <2> DEFINE t == [store EXCEPT ![k].seen = "request"]
             o == Asked(m)
  <2>1. t \in Stores
    BY <1>1, SeenType
  <2> HIDE DEF t, o
  <2>2. SaveNotificationData(t, {k}, Bare(m), o, m) /\ o \in Object
    BY <1>2, <1>3 DEF t, o
  <2>3. SavedAs(t, {k}, o)
    BY <2>1, <2>2, Saves
  <2>4. m \in unsaved' \/ db'[Bare(m)] = o.data
    <3>1. CASE WriteRow(Bare(m), o)
      BY <1>1, <3>1 DEF WriteRow, TypeOK
    <3>2. QED
      BY <2>2, <3>1 DEF SaveNotificationData
  <2>5. /\ \A j \in Key : SamePlace(j)
        /\ \A j \in Key : j # k => SameData(j)
        /\ store'[k].seen = "request" /\ Draws(k, o)
    <3> DEFINE mark == "request"
    <3> HIDE DEF mark
    <3>1. SavedAs([store EXCEPT ![k].seen = mark], {k}, o)
      BY <2>3 DEF mark, t
    <3>2. QED
      BY <1>1, <3>1, MarkedAndSaved DEF mark
  <2>6. QED
    BY <1>1, <2>4, <2>5 DEF OriginalDrawn, o
<1>4. ASSUME store' = SaveInMessageDb([store EXCEPT ![k].seen = "yes"], ks, Known(m))
      PROVE  Goal
  <2> DEFINE t == [store EXCEPT ![k].seen = "yes"]
             o == Known(m)
  <2>1. t \in Stores
    BY <1>1, SeenType
  <2>2. ks \in SUBSET {k}
    OBVIOUS
  <2> HIDE DEF t, o, ks
  <2>3. SavedAs(t, ks, o)
    BY <1>4, <2>1, SaveHeaders DEF t, o
  <2>4. /\ \A j \in Key : SamePlace(j)
        /\ \A j \in Key : j # k => SameData(j)
        /\ store'[k].seen = "yes"
        /\ k \in ks => Draws(k, o)
        /\ k \notin ks => /\ store'[k].id = store[k].id /\ store'[k].copy = store[k].copy
                          /\ store'[k].columns = store[k].columns
    <3> DEFINE mark == "yes"
    <3> HIDE DEF mark
    <3>1. SavedAs([store EXCEPT ![k].seen = mark], ks, o)
      BY <2>3 DEF mark, t
    <3>2. QED
      BY <1>1, <2>2, <3>1, MarkedAndSaved DEF mark
  <2>5. QED
    BY <1>1, <2>4 DEF OriginalDrawn, SameData, o
<1> HIDE DEF Goal
<1>5. Goal
  BY <1>3, <1>4 DEF ParseOriginal, Asked, Known
<1>6. FlightKept
  BY FlightSame DEF ParseOriginal
<1>7. QED
  BY <1>5, <1>6, PlaceKeeps, SamePlacePlaced, SentForMoves DEF Goal

\* What any step does to the headers.
Drawing ==
    \/ Quiet
    \/ \E k \in Key : ParseReport(k) /\ ReportDrawn(store[k].id)
    \/ \E k \in Key : /\ ParseOriginal(k) /\ OriginalDrawn(k)
                      /\ \A j \in Key : j # k => SameData(j)
    \/ \E k \in Key : /\ DisplayRow(k) /\ RowDrawn(k)
                      /\ \A j \in Key : j # k => SameData(j)

LEMMA PlaceStep ==
    ASSUME TypeInv, PlaceInv, [Next]_vars
    PROVE  PlaceInv' /\ Drawing
<1>1. CASE UNCHANGED vars
  <2>1. FlightKept /\ NoNewMove
    BY <1>1, FlightSame DEF vars, history, NoNewMove
  <2>2. QED
    BY <1>1, <2>1, PlaceSame DEF vars, Drawing
<1>2. ASSUME NEW k \in Key, ParseReport(k)
      PROVE  PlaceInv' /\ Drawing
  BY <1>2, PlaceParseReport DEF Drawing
<1>3. ASSUME NEW k \in Key, ParseOriginal(k)
      PROVE  PlaceInv' /\ Drawing
  BY <1>3, PlaceParseOriginal DEF Drawing
<1>4. ASSUME NEW k \in Key, DisplayRow(k)
      PROVE  PlaceInv' /\ Drawing
  <2>1. /\ PlaceInv'
        /\ SameData(k) \/ RowDrawn(k)
        /\ \A j \in Key : j # k => SameData(j)
    BY <1>4, PlaceDisplayRow
  <2>2. CASE SameData(k)
    BY <2>1, <2>2 DEF Quiet, Drawing
  <2>3. CASE RowDrawn(k)
    BY <1>4, <2>1, <2>3 DEF Drawing
  <2>4. QED
    BY <2>1, <2>2, <2>3
<1>5. CASE \/ \E n \in Notif : Deliver(n)
           \/ \E m \in Msg, f \in Folder : FileSent(m, f)
           \/ \E x \in Stream : StreamFailed(x)
           \/ \E c \in Copy : CopyStopped(c) \/ CopyFailed(c) \/ RetryCopy(c)
           \/ \E m \in Msg : Expire(m)
  BY <1>5, PlaceDeliver, PlaceFileSent, PlaceStreams, PlaceCopyStopped, PlaceCopyFailed
     DEF Drawing
<1>6. CASE \E k \in Key : \/ HeaderChecked(k) \/ ParseRepeated(k) \/ ParseIgnored(k)
                          \/ MoveNotification(k) \/ UserPurges(k) \/ CrashInParse(k)
  BY <1>6, PlaceHeaderChecked, PlaceStreams, PlaceParseIgnored, PlaceMoveNotification,
     PlaceUserPurges, PlaceCrashInParse DEF Drawing
<1>7. CASE \/ \E k \in Key, f \in Folder : UserMoves(k, f)
           \/ \E f \in Folder : RebuildIndex(f)
           \/ FiveSecondsPass \/ CheckDelays \/ Crash
  BY <1>7, PlaceUserMoves, PlaceRebuildIndex, PlaceFiveSeconds, PlaceCheckDelays, PlaceCrash
     DEF Drawing
<1>8. CASE Next
  BY <1>2, <1>3, <1>4, <1>5, <1>6, <1>7, <1>8 DEF Next
<1>9. QED
  BY <1>1, <1>8

LEMMA PlaceInit == Init => PlaceInv
<1> SUFFICES ASSUME Init PROVE PlaceInv
  OBVIOUS
<1>1. NoHeader.id = NoId
  BY DEF NoHeader, FreshHeader
<1>2. \A k \in Key : store[k].id = NoId
  BY <1>1 DEF Init
<1>3. QED
  BY <1>2, ConstantsAssumption DEF PlaceInv, FreeIsEmpty, MailKept, PutInv, Init,
     InFlight, CopiesOf

LEMMA PlaceAlways == Spec => [](TypeInv /\ PlaceInv)
<1>1. TypeInv /\ PlaceInv /\ [Next]_vars => PlaceInv'
  BY PlaceStep
<1>2. QED
  BY <1>1, TypeInit, TypeStep, PlaceInit, PTL DEF Spec

\* A notification that was moved is in a folder, or being copied, or the user
\* or a fault removed it: whatever reads, moves, retries and crashes there are.
THEOREM MailIsKept == Spec => []MailKept
<1>1. TypeInv /\ PlaceInv => MailKept
  BY DEF PlaceInv
<1>2. QED
  BY <1>1, PlaceAlways, PTL

\* With do_not_thread_failed_notification a failure is never copied to the
\* thread of its original, nor marked to be moved there later.
THEOREM FailuresStayPut == Spec => []FailedStaysPut
<1>1. TypeInv /\ PlaceInv => FailedStaysPut
  BY DEF PlaceInv, PutInv, Kept, FailedStaysPut
<1>2. QED
  BY <1>1, PlaceAlways, PTL
-----------------------------------------------------------------------------
(***************************************************************************)
(* What the headers of the sent messages show.  The data of a message are  *)
(* its own, and every report stands in a row of them; the row of a message *)
(* that is registered names all its recipients with all their requests,    *)
(* and no row names another request.                                       *)
(***************************************************************************)
Fits(d, x) == \A e \in Recorded(d) : Orig[e[1]] = x /\ e[2].to \in d.rows

Registered(d, m) ==
    /\ Recipients[m] \subseteq d.rows
    /\ \A r \in Recipients[m] : Requests(m) \subseteq d.requests[r]

AskedOnly(d, m) == \A r \in Recip : d.requests[r] \subseteq Requests(m)

RowFits(rk) == Fits(db[rk], rk[1]) /\ AskedOnly(db[rk], rk[1])

RowsFit == \A rk \in RowKey : RowFits(rk)

\* No bounce was read for m: its report would be in another row.
NoExim(m) == \A n \in processed : Kind[n] = "exim" => Orig[n] # m

\* An entry that a header shows is in the row, if the row could be written.
Backed(k) ==
    \A e \in Recorded(store[k].copy) :
        \/ e[1] \in unsaved
        \/ Kind[e[1]] = "exim"
        \/ e \in Recorded(db[Bare(store[k].id)])

\* A message that was registered shows all its recipients and columns.
Complete(k) ==
    LET h == store[k] IN
    h.seen = "request" =>
        /\ h.id \in Msg
        /\ h.id \notin unsaved =>
              /\ Registered(db[Bare(h.id)], h.id)
              /\ NoExim(h.id) => Recipients[h.id] \subseteq h.copy.rows
                                 /\ h.columns = Requests(h.id)

HeaderFits(k) == Fits(store[k].copy, store[k].id) /\ Backed(k) /\ Complete(k)

ShownInv == RowsFit /\ \A k \in Key : HeaderFits(k)

\* The data a step may put into a row or a header for the message m.
LEMMA SettleFits ==
    ASSUME NEW d \in Data, NEW m
    PROVE  /\ Fits(d, m) => Fits(Settle(d), m)
           /\ AskedOnly(d, m) => AskedOnly(Settle(d), m)
           /\ Registered(d, m) => Registered(Settle(d), m)
  BY SettleType, SettleRecords DEF Fits, AskedOnly, Registered

LEMMA LoadColumns ==
    ASSUME NEW d \in Data, NEW x, NEW m \in Msg, Registered(d, m), AskedOnly(d, m)
    PROVE  Load(d, x).columns = Requests(m)
<1>1. Load(d, x).columns = UNION {d.requests[r] : r \in d.rows}
  BY DEF Load, UpdateProperties
<1>2. PICK r \in Recipients[m] : TRUE
  BY ConstantsAssumption
<1>3. r \in d.rows /\ Requests(m) \subseteq d.requests[r]
  BY DEF Registered
<1>4. d.rows \subseteq Recip
  BY DEF Data
<1>5. QED
  BY <1>1, <1>3, <1>4 DEF AskedOnly

LEMMA ReportedFits ==
    ASSUME TypeInv, NEW n \in Notif, RowFits(RowOf(n))
    PROVE  /\ Fits(Reported(n).data, Orig[n])
           /\ AskedOnly(Reported(n).data, Orig[n])
           /\ Registered(db[RowOf(n)], Orig[n]) =>
                /\ Registered(Reported(n).data, Orig[n])
                /\ Reported(n).columns = Requests(Orig[n])
<1> DEFINE d == db[RowOf(n)]
           a == AddReports(d, n)
           m == Orig[n]
<1>1. d \in Data /\ RowOf(n)[1] = m /\ m \in Msg
  BY RowOfType, ConstantsAssumption DEF TypeInv, TypeOK, RowOf, Bare
<1>2. Fits(d, m) /\ AskedOnly(d, m)
  BY <1>1 DEF RowFits
<1>3. /\ a \in Data /\ a.rows = d.rows \cup {r.to : r \in Reports[n]}
      /\ a.requests = d.requests /\ Recorded(a) = Recorded(d) \cup EntriesOf(n)
  <2>1. a.rows = d.rows \cup {r.to : r \in Reports[n]}
    BY <1>1 DEF AddReports, Data
  <2>2. QED
    BY <1>1, <2>1, AddReportsType, AddReportsRecords
<1>4. \A e \in EntriesOf(n) : e[1] = n /\ e[2] \in Reports[n]
  BY EntryType
<1>5. Reported(n) = Load(a, m)
  BY DEF Reported
<1> HIDE DEF d, a, m
<1>6. Fits(a, m)
  <2>1. ASSUME NEW e \in Recorded(d)
        PROVE  Orig[e[1]] = m /\ e[2].to \in a.rows
    BY <1>2, <1>3 DEF Fits
  <2>2. ASSUME NEW e \in EntriesOf(n)
        PROVE  Orig[e[1]] = m /\ e[2].to \in a.rows
    BY <1>3, <1>4 DEF m
  <2>3. QED
    BY <1>3, <2>1, <2>2 DEF Fits
<1>7. AskedOnly(a, m) /\ (Registered(d, m) => Registered(a, m))
  BY <1>2, <1>3 DEF AskedOnly, Registered
<1>8. Reported(n).data = Settle(a)
  BY <1>3, <1>5, LoadType
<1>9. Registered(d, m) => Reported(n).columns = Requests(m)
  BY <1>1, <1>3, <1>5, <1>7, LoadColumns
<1>10. QED
  BY <1>3, <1>6, <1>7, <1>8, <1>9, SettleFits DEF d, m

LEMMA KnownFits ==
    ASSUME TypeInv, NEW m \in Msg, RowFits(Bare(m))
    PROVE  /\ Fits(Known(m).data, m)
           /\ Recorded(Known(m).data) = Recorded(db[Bare(m)])
<1>1. Fits(db[Bare(m)], m)
  BY DEF RowFits, Bare
<1>2. QED
  BY <1>1, KnownType DEF Fits, Recorded

LEMMA AskedFits ==
    ASSUME TypeInv, NEW m \in Msg, RowFits(Bare(m))
    PROVE  /\ Fits(Asked(m).data, m)
           /\ AskedOnly(Asked(m).data, m)
           /\ Registered(Asked(m).data, m)
           /\ Asked(m).columns = Requests(m)
           /\ Recorded(Asked(m).data) = Recorded(db[Bare(m)])
<1> DEFINE d      == db[Bare(m)]
           dated  == [d EXCEPT !.dated = TRUE]
           known  == Load(dated, m).data
           wanted == Requests(m)
           added  == AddDeliveredTo(known, Recipients[m], wanted)
<1>1. d \in Data /\ Fits(d, m) /\ AskedOnly(d, m)
  BY DEF Bare, RowKey, TypeInv, TypeOK, RowFits
<1>2. /\ dated \in Data /\ dated.count = d.count
      /\ dated.rows = d.rows /\ dated.requests = d.requests
  BY <1>1 DEF Data
<1>3. Recipients[m] \in SUBSET Recip /\ wanted \in SUBSET Request
  BY ConstantsAssumption DEF Requests
<1>4. Asked(m) = Load(added, m)
  BY DEF Asked
<1> HIDE DEF dated, d
<1>5. known = Settle(dated) /\ known \in Data
  BY <1>2, LoadType, SettleType
<1>6. /\ known.count = d.count /\ known.rows = d.rows
      /\ known.requests = d.requests
  BY <1>2, <1>5, SettleType
<1> HIDE DEF known, wanted
<1>7. /\ added \in Data /\ Recorded(added) = Recorded(d)
      /\ added.rows = d.rows \cup Recipients[m]
      /\ \A r \in Recip : added.requests[r] = IF r \in Recipients[m]
                                              THEN d.requests[r] \cup wanted
                                              ELSE d.requests[r]
  <2>1. added \in Data /\ Preserves(known, added)
    BY <1>3, <1>5, AddDeliveredToType
  <2>2. /\ added.rows = known.rows \cup Recipients[m]
        /\ \A r \in Recip : added.requests[r] = IF r \in Recipients[m]
                                                THEN known.requests[r] \cup wanted
                                                ELSE known.requests[r]
    BY <1>5 DEF AddDeliveredTo, Data
  <2>3. QED
    BY <1>6, <2>1, <2>2 DEF Preserves, Recorded
<1> HIDE DEF added
<1>8. /\ Fits(added, m) /\ AskedOnly(added, m) /\ Registered(added, m)
  BY <1>1, <1>3, <1>7 DEF Fits, AskedOnly, Registered, wanted
<1>9. Asked(m).data = Settle(added) /\ Asked(m).columns = Requests(m)
  BY <1>4, <1>7, <1>8, LoadType, LoadColumns
<1>10. QED
  BY <1>7, <1>8, <1>9, SettleFits, SettleRecords DEF d

LEMMA RowsFitStep ==
    ASSUME TypeInv, RowsFit, [Next]_vars
    PROVE  RowsFit'
<1>1. \A rk \in RowKey : db[rk] \in Data /\ Fits(db[rk], rk[1]) /\ AskedOnly(db[rk], rk[1])
  BY DEF TypeInv, TypeOK, RowsFit, RowFits
<1>2. SUFFICES \A rk \in RowKey : Fits(db'[rk], rk[1]) /\ AskedOnly(db'[rk], rk[1])
  BY DEF RowsFit, RowFits, Fits, AskedOnly, Recorded
<1>3. ASSUME NEW rk \in RowKey, NEW o, Written(rk, o), Fits(o.data, rk[1]),
             AskedOnly(o.data, rk[1])
      PROVE  \A x \in RowKey : Fits(db'[x], x[1]) /\ AskedOnly(db'[x], x[1])
  <2>1. \A x \in RowKey : db'[x] = IF x = rk THEN o.data ELSE db[x]
    BY <1>3 DEF Written, TypeInv, TypeOK
  <2>2. QED
    BY <1>1, <1>3, <2>1
<1>4. ASSUME NEW k \in Key, ParseReport(k)
      PROVE  \A x \in RowKey : Fits(db'[x], x[1]) /\ AskedOnly(db'[x], x[1])
  <2> DEFINE n == store[k].id
  <2>1. n \in Notif /\ RowOf(n) \in RowKey /\ RowOf(n)[1] = Orig[n]
    BY <1>4, ReportWritten, RowOfType DEF RowOf, Bare
  <2>2. Fits(Reported(n).data, Orig[n]) /\ AskedOnly(Reported(n).data, Orig[n])
    BY <2>1, ReportedFits DEF RowsFit
  <2>3. Written(RowOf(n), Reported(n)) \/ UNCHANGED db
    BY <1>4, ReportWritten
  <2>4. QED
    BY <1>1, <1>3, <2>1, <2>2, <2>3
<1>5. ASSUME NEW k \in Key, ParseOriginal(k)
      PROVE  \A x \in RowKey : Fits(db'[x], x[1]) /\ AskedOnly(db'[x], x[1])
  <2> DEFINE m == store[k].id
  <2>1. (m \in Msg /\ Written(Bare(m), Asked(m))) \/ UNCHANGED db
    BY <1>5, OriginalWritten
  <2>2. ASSUME m \in Msg
        PROVE  /\ Bare(m) \in RowKey /\ Bare(m)[1] = m
               /\ Fits(Asked(m).data, m) /\ AskedOnly(Asked(m).data, m)
    <3>1. Bare(m) \in RowKey /\ Bare(m)[1] = m
      BY <2>2 DEF Bare, RowKey
    <3>2. QED
      BY <2>2, <3>1, AskedFits DEF RowsFit
  <2>3. QED
    BY <1>1, <1>3, <2>1, <2>2
<1>6. ASSUME CheckDelays
      PROVE  \A x \in RowKey : Fits(db'[x], x[1]) /\ AskedOnly(db'[x], x[1])
  BY <1>1, <1>6, RowsSettled, SettleFits
<1>7. CASE UNCHANGED db
  BY <1>1, <1>7
<1>8. CASE Next
  BY <1>4, <1>5, <1>6, <1>7, <1>8, Writers DEF CrashInParse
<1>9. QED
  BY <1>7, <1>8 DEF vars

\* What was recorded stays so, and what is missing stays known as missing
\* until it is recorded.
Remembered ==
    /\ \A rk \in RowKey : Recorded(db[rk]) \subseteq Recorded(db'[rk])
    /\ \A rk \in RowKey, m \in Msg : Registered(db[rk], m) => Registered(db'[rk], m)
    /\ processed \subseteq processed'
    /\ \A m \in Msg : m \in unsaved => m \in unsaved'
    /\ \A n \in Notif : n \in unsaved =>
          \/ n \in unsaved'
          \/ Kind[n] = "exim"
          \/ EntriesOf(n) \subseteq Recorded(db'[Bare(Orig[n])])

LEMMA RowRecorded ==
    ASSUME TypeInv, NEW n \in Notif, Written(RowOf(n), Reported(n))
    PROVE  Kind[n] = "exim" \/ EntriesOf(n) \subseteq Recorded(db'[Bare(Orig[n])])
<1>1. Kind[n] # "exim" => RowOf(n) = Bare(Orig[n])
  BY DEF RowOf
<1>2. db'[RowOf(n)] = Reported(n).data
  BY RowOfType DEF Written, TypeInv, TypeOK
<1>3. EntriesOf(n) \subseteq Recorded(Reported(n).data)
  BY ReportedKeeps
<1>4. QED
  BY <1>1, <1>2, <1>3

LEMMA StepRemembers ==
    ASSUME TypeInv, [Next]_vars
    PROVE  Remembered
<1>1. RowsKept /\ \A rk \in RowKey : Recorded(db[rk]) \subseteq Recorded(db'[rk])
  BY TableStep DEF SameEntries, Recording
<1>2. \A rk \in RowKey, m \in Msg : Registered(db[rk], m) => Registered(db'[rk], m)
  <2>1. \A m \in Msg : Recipients[m] \subseteq Recip
    BY ConstantsAssumption
  <2>2. QED
    BY <1>1, <2>1 DEF RowsKept, Registered
<1> DEFINE Missing == /\ processed \subseteq processed'
                      /\ \A m \in Msg : m \in unsaved => m \in unsaved'
                      /\ \A n \in Notif : n \in unsaved =>
                            \/ n \in unsaved'
                            \/ Kind[n] = "exim"
                            \/ EntriesOf(n) \subseteq Recorded(db'[Bare(Orig[n])])
<1>3. ASSUME processed \subseteq processed', unsaved \subseteq unsaved'
      PROVE  Missing
  BY <1>3
<1>4. ASSUME NEW k \in Key, ParseReport(k) PROVE Missing
  <2> DEFINE x == store[k].id
  <2>1. x \in Notif /\ processed' = processed \cup {x}
    BY <1>4, ReportWritten
  <2>2. CASE unsaved' = unsaved \cup {x}
    BY <2>1, <2>2
  <2>3. CASE Written(RowOf(x), Reported(x)) /\ unsaved' = unsaved \ {x}
    <3>1. Kind[x] = "exim" \/ EntriesOf(x) \subseteq Recorded(db'[Bare(Orig[x])])
      BY <2>1, <2>3, RowRecorded
    <3>2. \A m \in Msg : m # x
      BY <2>1, ConstantsAssumption
    <3>3. QED
      BY <2>1, <2>3, <3>1, <3>2
  <2>4. QED
    BY <1>4, <2>2, <2>3, ReportWritten
<1>5. ASSUME NEW k \in Key, ParseOriginal(k) PROVE Missing
  BY <1>3, <1>5, OriginalWritten
<1>6. ASSUME NEW k \in Key, CrashInParse(k) PROVE Missing
  BY <1>3, <1>6 DEF CrashInParse
<1>7. ASSUME CheckDelays PROVE Missing
  BY <1>3, <1>7 DEF CheckDelays, history
<1> HIDE DEF Missing
<1>8. ASSUME UNCHANGED <<processed, unsaved>> PROVE Missing
  BY <1>8 DEF Missing
<1>9. ASSUME Next PROVE Missing
  BY <1>4, <1>5, <1>6, <1>7, <1>8, <1>9, Writers
<1>10. Missing
  BY <1>8, <1>9 DEF vars, history
<1>11. QED
  BY <1>1, <1>2, <1>10 DEF Remembered, Missing

\* A header that is not drawn still fits.
LEMMA SameDataFits ==
    ASSUME TypeInv, Remembered, NEW k \in Key, HeaderFits(k), SameData(k)
    PROVE  HeaderFits(k)'
<1> DEFINE x == store[k].id
<1>1. store'[k].id = x /\ store'[k].copy = store[k].copy
      /\ store'[k].columns = store[k].columns
  BY DEF SameData
<1>2. Fits(store[k].copy, x)'
  BY <1>1 DEF HeaderFits, Fits, Recorded
<1>3. Backed(k)'
  <2> SUFFICES ASSUME NEW e \in Recorded(store[k].copy)
               PROVE  \/ e[1] \in unsaved'
                      \/ Kind[e[1]] = "exim"
                      \/ e \in Recorded(db'[Bare(x)])
    BY <1>1 DEF Backed, Recorded
  <2>1. /\ e[1] \in Notif /\ e \in EntriesOf(e[1])
        /\ Orig[e[1]] = x /\ x \in Msg /\ Bare(x) \in RowKey
    BY EntryOwner, ConstantsAssumption DEF HeaderFits, Fits, Recorded, Bare, RowKey
  <2>2. \/ e[1] \in unsaved
        \/ Kind[e[1]] = "exim"
        \/ e \in Recorded(db[Bare(x)])
    BY DEF HeaderFits, Backed
  <2>3. QED
    BY <2>1, <2>2 DEF Remembered
<1>4. Complete(k)'
  <2> SUFFICES ASSUME store'[k].seen = "request"
               PROVE  /\ x \in Msg
                      /\ x \notin unsaved' =>
                           /\ Registered(db'[Bare(x)], x)
                           /\ NoExim(x)' => Recipients[x] \subseteq store[k].copy.rows
                                            /\ store[k].columns = Requests(x)
    BY <1>1 DEF Complete, Registered, NoExim
  <2>1. store[k].seen = "request"
    BY DEF SameData
  <2>2. x \in Msg
    BY <2>1 DEF HeaderFits, Complete
  <2>3. x \notin unsaved' => x \notin unsaved
    BY <2>2 DEF Remembered
  <2>4. NoExim(x)' => NoExim(x)
    BY <1>1 DEF Remembered, NoExim
  <2>5. Registered(db[Bare(x)], x) => Registered(db'[Bare(x)], x)
    BY <2>2 DEF Remembered, Bare, RowKey
  <2>6. QED
    BY <2>1, <2>2, <2>3, <2>4, <2>5 DEF HeaderFits, Complete
<1>5. QED
  BY <1>2, <1>3, <1>4 DEF HeaderFits

LEMMA BlankFits ==
    ASSUME NEW k \in Key, Blank(k)
    PROVE  HeaderFits(k)'
<1>1. Recorded(EmptyData) = {}
  BY EmptyDataType
<1>2. Recorded(store'[k].copy) = {} /\ store'[k].seen = ""
  BY <1>1 DEF Blank
<1>3. QED
  BY <1>2 DEF HeaderFits, Fits, Backed, Complete, Recorded

\* A header that draws an object for its message fits if the object does.
LEMMA DrawnFits ==
    ASSUME Remembered, NEW k \in Key, NEW m \in Msg, store[k].id = m, NEW o,
           Draws(k, o), Fits(o.data, m),
           \A e \in Recorded(o.data) : \/ e[1] \in unsaved'
                                       \/ Kind[e[1]] = "exim"
                                       \/ e \in Recorded(db'[Bare(m)]),
           store'[k].seen = "request" /\ m \notin unsaved' =>
               /\ Registered(db'[Bare(m)], m)
               /\ (\A n \in processed' : Kind[n] = "exim" => Orig[n] # m) =>
                     Recipients[m] \subseteq o.data.rows /\ o.columns = Requests(m)
    PROVE  HeaderFits(k)'
<1>1. store'[k].id = m /\ store'[k].copy = o.data /\ store'[k].columns = o.columns
  BY DEF Draws
<1>2. Fits(store[k].copy, store[k].id)'
  BY <1>1 DEF Fits, Recorded
<1>3. Backed(k)'
  BY <1>1 DEF Backed, Recorded
<1>4. Complete(k)'
  BY <1>1 DEF Complete, Registered, NoExim
<1>5. QED
  BY <1>2, <1>3, <1>4 DEF HeaderFits

LEMMA ReportDrawnFits ==
    ASSUME TypeInv, LedgerSound, ShownInv, Remembered,
           NEW k \in Key, ParseReport(k), NEW j \in Key,
           store[j].id = Orig[store[k].id], Draws(j, Reported(store[k].id)),
           store'[j].seen \in {store[j].seen, "yes"}
    PROVE  HeaderFits(j)'
<1> DEFINE n == store[k].id
           m == Orig[n]
           o == Reported(n)
           d == db[RowOf(n)]
<1>1. /\ n \in Notif /\ m \in Msg /\ RowOf(n) \in RowKey /\ n \in processed'
      /\ Bare(m) \in RowKey
  BY ReportWritten, RowOfType, ConstantsAssumption DEF Bare, RowKey
<1>2. /\ Fits(o.data, m)
      /\ Registered(d, m) => Registered(o.data, m) /\ o.columns = Requests(m)
  BY <1>1, ReportedFits DEF ShownInv, RowsFit
<1>3. Recorded(o.data) = Recorded(d) \cup EntriesOf(n)
  BY <1>1, ReportedKeeps
<1>4. Kind[n] # "exim" => RowOf(n) = Bare(m)
  BY DEF RowOf
<1>5. ASSUME NEW e \in Recorded(d)
      PROVE  Kind[e[1]] = "exim" \/ e \in Recorded(db'[Bare(m)])
  <2>1. CASE RowOf(n) = Bare(m)
    BY <1>1, <2>1 DEF Remembered
  <2>2. CASE RowOf(n) = <<m, "bracketed">>
    <3>1. RowOf(e[1]) = <<m, "bracketed">>
      BY <1>1, <2>2 DEF LedgerSound
    <3>2. QED
      BY <3>1 DEF RowOf, Bare
  <2>3. QED
    BY <2>1, <2>2 DEF RowOf
<1>6. ASSUME NEW e \in EntriesOf(n)
      PROVE  e[1] \in unsaved' \/ Kind[e[1]] = "exim" \/ e \in Recorded(db'[Bare(m)])
  <2>1. e[1] = n
    BY <1>1, EntryType
  <2>2. \/ Written(RowOf(n), o)
        \/ n \in unsaved'
    BY ReportWritten
  <2>3. QED
    BY <1>1, <2>1, <2>2, RowRecorded
<1>7. ASSUME store'[j].seen = "request", m \notin unsaved'
      PROVE  /\ Registered(db'[Bare(m)], m)
             /\ (\A x \in processed' : Kind[x] = "exim" => Orig[x] # m) =>
                   Recipients[m] \subseteq o.data.rows /\ o.columns = Requests(m)
  <2>1. store[j].seen = "request" /\ m \notin unsaved
    BY <1>1, <1>7 DEF Remembered
  <2>2. Registered(db[Bare(m)], m)
    BY <2>1 DEF ShownInv, HeaderFits, Complete
  <2>3. Registered(db'[Bare(m)], m)
    BY <1>1, <2>2 DEF Remembered
  <2>4. ASSUME \A x \in processed' : Kind[x] = "exim" => Orig[x] # m
        PROVE  Recipients[m] \subseteq o.data.rows /\ o.columns = Requests(m)
    BY <1>1, <1>2, <1>4, <2>2, <2>4 DEF Registered
  <2>5. QED
    BY <2>3, <2>4
<1> HIDE DEF o
<1>8. \A e \in Recorded(o.data) : \/ e[1] \in unsaved'
                                  \/ Kind[e[1]] = "exim"
                                  \/ e \in Recorded(db'[Bare(m)])
  BY <1>3, <1>5, <1>6
<1>9. Draws(j, o) /\ store[j].id = m
  BY DEF o
<1>10. QED
  BY <1>1, <1>2, <1>7, <1>8, <1>9, DrawnFits

LEMMA OriginalDrawnFits ==
    ASSUME TypeInv, ShownInv, Remembered, NEW k \in Key, OriginalDrawn(k)
    PROVE  HeaderFits(k)'
<1> DEFINE m == store[k].id
<1>1. m \in Msg /\ Bare(m) \in RowKey
  BY DEF OriginalDrawn, Bare, RowKey
<1>2. RowFits(Bare(m))
  BY <1>1 DEF ShownInv, RowsFit
<1>3. Recorded(db[Bare(m)]) \subseteq Recorded(db'[Bare(m)])
  BY <1>1 DEF Remembered
<1>4. CASE /\ Draws(k, Asked(m)) /\ store'[k].seen = "request"
           /\ m \in unsaved' \/ db'[Bare(m)] = Asked(m).data
  <2> DEFINE o == Asked(m)
  <2>1. /\ Fits(o.data, m) /\ Registered(o.data, m) /\ o.columns = Requests(m)
        /\ Recorded(o.data) = Recorded(db[Bare(m)])
    BY <1>1, <1>2, AskedFits
  <2> HIDE DEF o
  <2>2. Draws(k, o) /\ (m \in unsaved' \/ db'[Bare(m)] = o.data)
    BY <1>4 DEF o
  <2>3. \A e \in Recorded(o.data) : e \in Recorded(db'[Bare(m)])
    BY <1>3, <2>1
  <2>4. m \notin unsaved' =>
          /\ Registered(db'[Bare(m)], m)
          /\ Recipients[m] \subseteq o.data.rows /\ o.columns = Requests(m)
    BY <2>1, <2>2 DEF Registered
  <2>5. QED
    BY <1>1, <2>1, <2>2, <2>3, <2>4, DrawnFits
<1>5. CASE Draws(k, Known(m)) /\ store'[k].seen = "yes"
  <2> DEFINE o == Known(m)
  <2>1. Fits(o.data, m) /\ Recorded(o.data) = Recorded(db[Bare(m)])
    BY <1>1, <1>2, KnownFits
  <2> HIDE DEF o
  <2>2. Draws(k, o)
    BY <1>5 DEF o
  <2>3. \A e \in Recorded(o.data) : e \in Recorded(db'[Bare(m)])
    BY <1>3, <2>1
  <2>4. QED
    BY <1>1, <1>5, <2>1, <2>2, <2>3, DrawnFits
<1>6. CASE SameData(k)
  BY <1>6, SameDataFits DEF ShownInv
<1>7. QED
  BY <1>4, <1>5, <1>6 DEF OriginalDrawn

LEMMA RowDrawnFits ==
    ASSUME TypeInv, ShownInv, Remembered, NEW k \in Key, RowDrawn(k)
    PROVE  HeaderFits(k)'
<1> DEFINE m == store[k].id
           d == db[Bare(m)]
           o == Load(d, m)
<1>1. m \in Msg /\ Bare(m) \in RowKey /\ d \in Data
  BY DEF RowDrawn, Bare, RowKey, TypeInv, TypeOK
<1>2. Fits(d, m) /\ AskedOnly(d, m)
  BY <1>1 DEF ShownInv, RowsFit, RowFits, Bare
<1>3. o.data = Settle(d) /\ (Registered(d, m) => o.columns = Requests(m))
  BY <1>1, <1>2, LoadType, LoadColumns
<1>4. Draws(k, o) /\ store'[k].seen = store[k].seen
  BY DEF RowDrawn
<1>5. Recorded(d) \subseteq Recorded(db'[Bare(m)])
  BY <1>1 DEF Remembered
<1>6. store'[k].seen = "request" /\ m \notin unsaved' =>
        Registered(d, m) /\ Registered(db'[Bare(m)], m)
  BY <1>1, <1>4 DEF ShownInv, HeaderFits, Complete, Remembered
<1> HIDE DEF o, d
<1>7. Fits(o.data, m) /\ Recorded(o.data) = Recorded(d) /\ o.data.rows = d.rows
  BY <1>1, <1>2, <1>3, SettleType, SettleRecords, SettleFits
<1>8. \A e \in Recorded(o.data) : e \in Recorded(db'[Bare(m)])
  BY <1>5, <1>7
<1>9. store'[k].seen = "request" /\ m \notin unsaved' =>
          /\ Registered(db'[Bare(m)], m)
          /\ Recipients[m] \subseteq o.data.rows /\ o.columns = Requests(m)
  BY <1>3, <1>6, <1>7 DEF Registered
<1>10. QED
  BY <1>1, <1>4, <1>7, <1>8, <1>9, DrawnFits

LEMMA ShownInit == Init => ShownInv
<1> SUFFICES ASSUME Init PROVE ShownInv
  OBVIOUS
<1>1. Recorded(EmptyData) = {} /\ \A r \in Recip : EmptyData.requests[r] = {}
  BY EmptyDataType DEF EmptyData
<1>2. RowsFit
  BY <1>1 DEF Init, RowsFit, RowFits, Fits, AskedOnly
<1>3. NoHeader.copy = EmptyData /\ NoHeader.seen = ""
  BY DEF NoHeader, FreshHeader
<1>4. \A k \in Key : Recorded(store[k].copy) = {} /\ store[k].seen = ""
  BY <1>1, <1>3 DEF Init
<1>5. QED
  BY <1>2, <1>4 DEF ShownInv, HeaderFits, Fits, Backed, Complete

LEMMA ShownStep ==
    ASSUME TypeInv, PlaceInv, LedgerSound, ShownInv, [Next]_vars
    PROVE  ShownInv'
<1>1. RowsFit'
  BY RowsFitStep DEF ShownInv
<1>2. Remembered
  BY StepRemembers
<1>3. ASSUME NEW k \in Key, SameData(k) \/ Blank(k)
      PROVE  HeaderFits(k)'
  BY <1>2, <1>3, SameDataFits, BlankFits DEF ShownInv
<1>4. ASSUME NEW k \in Key, ParseReport(k), ReportDrawn(store[k].id)
      PROVE  \A j \in Key : HeaderFits(j)'
  BY <1>2, <1>3, <1>4, ReportDrawnFits DEF ReportDrawn
<1>5. ASSUME NEW k \in Key, OriginalDrawn(k) \/ RowDrawn(k),
             \A j \in Key : j # k => SameData(j)
      PROVE  \A j \in Key : HeaderFits(j)'
  BY <1>2, <1>3, <1>5, OriginalDrawnFits, RowDrawnFits
<1>6. \A k \in Key : HeaderFits(k)'
  BY <1>3, <1>4, <1>5, PlaceStep DEF Drawing, Quiet
<1>7. QED
  BY <1>1, <1>6 DEF ShownInv

LEMMA ShownAlways == Spec => [](TypeInv /\ PlaceInv /\ LedgerSound /\ ShownInv)
<1>1. TypeInv /\ PlaceInv /\ LedgerSound /\ ShownInv /\ [Next]_vars => ShownInv'
  BY ShownStep
<1>2. QED
  BY <1>1, PlaceAlways, LedgerIsSound, ShownInit, PTL DEF Spec

\* What a message shows in the message list was recorded for that message: it
\* is in its SQLite row, but for bounces and for rows that were not written.
THEOREM WhatIsShownWasRecorded == Spec => []ShownIsRecorded
<1>1. ShownInv => ShownIsRecorded
  BY DEF ShownInv, HeaderFits, Fits, Backed, ShownIsRecorded
<1>2. QED
  BY <1>1, ShownAlways, PTL

\* A registered message shows the columns of the notifications it asked for.
THEOREM ColumnsAreComplete == Spec => []ColumnsAreShown
<1>1. ShownInv => ColumnsAreShown
  BY DEF ShownInv, HeaderFits, Complete, NoExim, ColumnsAreShown
<1>2. QED
  BY <1>1, ShownAlways, PTL

\* The recipients with a DSN are among the rows; as many of them as there are
\* rows are all of them.
LEMMA GoodDelivered ==
    ASSUME NEW d \in Data, NEW x, Fits(d, x), Status(d) = "good"
    PROVE  Delivered(d) = d.rows
<1>1. Cardinality(d.rows) = Cardinality(Delivered(d))
  BY DEF Status
<1>2. Delivered(d) \subseteq d.rows
  BY DEF Fits, Delivered, With
<1>3. IsFiniteSet(d.rows)
  BY ReportsAssumption, FS_Subset DEF Data
<1>4. QED
  BY <1>1, <1>2, <1>3, FS_Subset

\* A message that is shown as "good" was delivered to all its recipients, also
\* when a notification came before the message was registered.
THEOREM GoodMeansComplete == Spec => []GoodIsComplete
<1>1. ASSUME TypeInv, ShownInv, NEW k \in Key, store[k].seen = "request",
             Status(store[k].copy) = "good", store[k].id \notin unsaved,
             NoExim(store[k].id)
      PROVE  Recipients[store[k].id] \subseteq Delivered(store[k].copy)
  <2>1. store[k].copy \in Data
    BY <1>1 DEF TypeInv, TypeOK, Header
  <2>2. Fits(store[k].copy, store[k].id)
    BY <1>1 DEF ShownInv, HeaderFits
  <2>3. Recipients[store[k].id] \subseteq store[k].copy.rows
    BY <1>1 DEF ShownInv, HeaderFits, Complete
  <2>4. QED
    BY <1>1, <2>1, <2>2, <2>3, GoodDelivered
<1>2. TypeInv /\ ShownInv => GoodIsComplete
  BY <1>1 DEF GoodIsComplete, NoExim
<1>3. QED
  BY <1>2, ShownAlways, PTL

\* A message that no bounce is about keeps every report it shows.
KeptApart ==
    [][\A n \in Notif :
        (\A x \in Notif : Orig[x] = Orig[n] => Kind[x] # "exim") => StaysShown(n)]_
            <<store, unsaved>>

LEMMA StaysStep ==
    ASSUME TypeInv, PlaceInv, LedgerSound, ShownInv, [Next]_vars, NEW n \in Notif,
           \A x \in Notif : Orig[x] = Orig[n] => Kind[x] # "exim"
    PROVE  StaysShown(n)
<1> SUFFICES ASSUME NEW k \in Key, NEW e \in EntriesOf(n), e \in Recorded(store[k].copy),
                    store'[k].seen # "", n \notin unsaved'
             PROVE  e \in Recorded(store'[k].copy)
  BY DEF StaysShown, Recorded
<1> DEFINE m == Orig[n]
<1>1. /\ e[1] = n /\ store[k].id = m /\ m \in Msg /\ Bare(m) \in RowKey
      /\ Kind[n] # "exim" /\ e \in Entry
  <2>1. e[1] = n /\ e \in Entry /\ m \in Msg /\ Bare(m) \in RowKey
    BY EntryType, ConstantsAssumption DEF Bare, RowKey
  <2>2. store[k].id = m
    BY <2>1 DEF ShownInv, HeaderFits, Fits
  <2>3. QED
    BY <2>1, <2>2
<1>2. n \in unsaved \/ e \in Recorded(db[Bare(m)])
  BY <1>1 DEF ShownInv, HeaderFits, Backed
<1>3. CASE SameData(k)
  BY <1>3 DEF SameData, Recorded
<1>4. ASSUME NEW j \in Key, ParseReport(j), ReportDrawn(store[j].id), ~ SameData(k)
      PROVE  e \in Recorded(store'[k].copy)
  <2> DEFINE x == store[j].id
  <2>1. /\ x \in Notif
        /\ Orig[x] = m /\ store'[k].copy = Reported(x).data
    BY <1>1, <1>4, ReportWritten DEF ReportDrawn, Draws
  <2>2. RowOf(x) = Bare(m)
    BY <2>1 DEF RowOf
  <2>3. Recorded(Reported(x).data) = Recorded(db[Bare(m)]) \cup EntriesOf(x)
    BY <2>1, <2>2, ReportedKeeps
  <2>4. n \notin unsaved \/ x = n
    BY <1>4, ReportWritten
  <2>5. QED
    BY <1>2, <2>1, <2>3, <2>4 DEF Recorded
<1>5. ASSUME ParseOriginal(k), OriginalDrawn(k)
      PROVE  e \in Recorded(store'[k].copy)
  <2>1. unsaved \subseteq unsaved'
    BY <1>5, OriginalWritten
  <2>2. RowFits(Bare(m))
    BY <1>1 DEF ShownInv, RowsFit
  <2>3. /\ Recorded(Asked(m).data) = Recorded(db[Bare(m)])
        /\ Recorded(Known(m).data) = Recorded(db[Bare(m)])
    BY <1>1, <2>2, AskedFits, KnownFits
  <2>4. \/ store'[k].copy = Asked(m).data \/ store'[k].copy = Known(m).data
        \/ SameData(k)
    BY <1>1, <1>5 DEF OriginalDrawn, Draws
  <2>5. QED
    BY <1>2, <1>3, <2>1, <2>3, <2>4 DEF Recorded
<1>6. ASSUME DisplayRow(k), RowDrawn(k)
      PROVE  e \in Recorded(store'[k].copy)
  <2> DEFINE d == db[Bare(m)]
  <2>1. unsaved' = unsaved
    BY <1>6 DEF DisplayRow, history
  <2>2. d \in Data /\ store'[k].copy = Load(d, m).data
    BY <1>1, <1>6 DEF RowDrawn, Draws, TypeInv, TypeOK
  <2> HIDE DEF d
  <2>3. store'[k].copy = Settle(d) /\ Recorded(Settle(d)) = Recorded(d)
    BY <2>2, LoadType, SettleRecords
  <2>4. e \in Recorded(d)
    BY <1>2, <2>1 DEF d
  <2>5. QED
    BY <2>3, <2>4 DEF Recorded
<1>7. ~ Blank(k)
  BY DEF Blank
<1>8. QED
  BY <1>3, <1>4, <1>5, <1>6, <1>7, PlaceStep DEF Drawing, Quiet

\* Saving what was read from SQLite never covers what a header already shows,
\* as long as no bounce is about the same message; the property says so of all
\* the messages when there are no bounces.
THEOREM ReportsAreKept ==
    /\ Spec => KeptApart
    /\ (\A n \in Notif : Kind[n] # "exim") => (Spec => ReportsStayShown)
<1> DEFINE Inv == TypeInv /\ PlaceInv /\ LedgerSound /\ ShownInv
           Stay == \A n \in Notif :
                     (\A x \in Notif : Orig[x] = Orig[n] => Kind[x] # "exim") => StaysShown(n)
<1>1. Inv /\ [Next]_vars => Stay
  BY StaysStep
<1>2. Inv /\ [Next]_vars => [Stay]_<<store, unsaved>>
  BY <1>1
<1>3. Spec => KeptApart
  BY <1>2, ShownAlways, PTL DEF Spec, KeptApart
<1>4. ASSUME \A n \in Notif : Kind[n] # "exim"
      PROVE  Spec => ReportsStayShown
  <2>1. Inv /\ [Next]_vars => [\A n \in Notif : Kind[n] # "exim" => StaysShown(n)]_
                                  <<store, unsaved>>
    BY <1>1, <1>4
  <2>2. QED
    BY <2>1, ShownAlways, PTL DEF Spec, ReportsStayShown
<1>5. QED
  BY <1>3, <1>4
-----------------------------------------------------------------------------
(***************************************************************************)
(* One notification stays one message.  Four things of the environment can *)
(* bring a second one, and the theorem leaves them out: the user who moves *)
(* it while it is read, an index that forgets that it was read, an         *)
(* original in two folders that sends for it twice, and a second arrival.  *)
(***************************************************************************)
Orderly == Env \cap {"user", "rebuild", "bcc", "dup"} = {}

\* Where findMsgDb would look for message m there is one.
Filed(m) == \E k \in Key : /\ store[k].st = "live" /\ store[k].id = m
                           /\ store[k].folder # Trash

\* There is, or was, a header of x; and one that was parsed.
Came(x) == \E k \in Key : store[k].id = x

Opened(x) == \E k \in Key : store[k].id = x /\ store[k].seen # ""

\* The row of its original names n.
Noted(n) == \E e \in Recorded(db[Bare(Orig[n])]) : e[1] = n

OneMail(n) ==
    /\ \A j, k \in Live(store, n) : j = k
    /\ \A c, d \in CopiesOf(n) : c = d /\ pending[c] = 1
    /\ Live(store, n) = {} \/ CopiesOf(n) = {}
    /\ CopiesOf(n) # {} => Came(n) /\ Filed(Orig[n])
    /\ n \in processed => Came(n)

\* A sent message has one header, which stays.
SentStays(k) == store[k].id \in Msg =>
    /\ store[k].st = "live" /\ store[k].folder = Sent
    /\ \A j \in Key : store[j].id = store[k].id => j = k

\* A header that is gone is not parsed, and is sent for once, by an original
\* that was not parsed before.
ReadOnce(k) ==
    /\ streams[<<"check", k>>] > 0 \/ streams[<<"parse", k>>] > 0 =>
         store[k].st = "live" \/ store[k].seen # ""
    /\ streams[<<"move", k>>] > 0 =>
         /\ streams[<<"move", k>>] = 1
         /\ store[k].st = "live" /\ store[k].seen # ""
         /\ \A n \in Notif : store[k].id = n => Opened(Orig[n])

\* What a row names and what has not been parsed is not marked for a move: it
\* was, or will be, where its original is.
Unmarked(k) == \A n \in Notif :
    store[k].st = "live" /\ store[k].id = n /\ store[k].seen = "" /\ Noted(n)
        => store[k].moveto = NoId /\ Filed(Orig[n])

SingleInv ==
    /\ \A n \in Notif : OneMail(n)
    /\ \A k \in Key : SentStays(k) /\ ReadOnce(k) /\ Unmarked(k)
-----------------------------------------------------------------------------
(* What a step may do to the parts of the invariant. *)

\* A header keeps its place, and is not forgotten.
Stays(k) ==
    /\ store'[k].id = store[k].id /\ store'[k].st = store[k].st
    /\ store'[k].folder = store[k].folder /\ store'[k].moveto = store[k].moveto
    /\ store[k].seen # "" => store'[k].seen # ""

\* Copies end, or one takes the place of another of the same mail.
FlightFits ==
    \/ \A c \in Copy : pending'[c] \in {0, pending[c]}
    \/ \E c, x \in Copy :
         /\ x.id = c.id /\ pending[c] > 0 /\ pending'[c] = 0 /\ pending'[x] = 1
         /\ \A d \in Copy \ {c, x} : pending'[d] = pending[d]

\* A read begins only for a header that is there.
ReadFits(k) ==
    /\ streams'[<<"check", k>>] > 0 \/ streams'[<<"parse", k>>] > 0 =>
         \/ streams[<<"check", k>>] > 0 \/ streams[<<"parse", k>>] > 0
         \/ store'[k].st = "live"
    /\ streams'[<<"move", k>>] > 0 =>
         \/ streams'[<<"move", k>>] = streams[<<"move", k>>]
         \/ /\ streams'[<<"move", k>>] = 1
            /\ store'[k].st = "live" /\ store'[k].seen # ""
            /\ \A n \in Notif : store'[k].id = n => Opened(Orig[n])'

LEMMA FewerCopies ==
    ASSUME TypeOK, \A n \in Notif : OneMail(n), FlightFits, NEW n \in Notif
    PROVE  /\ \A c, d \in CopiesOf(n)' : c = d /\ pending'[c] = 1
           /\ CopiesOf(n)' # {} => CopiesOf(n) # {}
<1>1. pending \in [Copy -> Nat]
  BY DEF TypeOK
<1>2. \A c, d \in CopiesOf(n) : c = d /\ pending[c] = 1
  BY DEF OneMail
<1>3. CASE \A c \in Copy : pending'[c] \in {0, pending[c]}
  <2>1. \A c \in CopiesOf(n)' : c \in CopiesOf(n) /\ pending'[c] = pending[c]
    BY <1>1, <1>3 DEF CopiesOf
  <2>2. QED
    BY <1>2, <2>1
<1>4. ASSUME NEW c \in Copy, NEW x \in Copy,
             x.id = c.id, pending[c] > 0, pending'[c] = 0, pending'[x] = 1,
             \A d \in Copy \ {c, x} : pending'[d] = pending[d]
      PROVE  /\ \A d, e \in CopiesOf(n)' : d = e /\ pending'[d] = 1
             /\ CopiesOf(n)' # {} => CopiesOf(n) # {}
  <2>1. CASE c.id = n
    <3>1. \A d \in CopiesOf(n) : d = c
      BY <1>2, <1>4, <2>1 DEF CopiesOf
    <3>2. \A d \in CopiesOf(n)' : d = x
      BY <1>1, <1>4, <3>1 DEF CopiesOf
    <3>3. QED
      BY <1>4, <2>1, <3>2 DEF CopiesOf
  <2>2. CASE c.id # n
    <3>1. \A d \in CopiesOf(n)' : d \in CopiesOf(n) /\ pending'[d] = pending[d]
      BY <1>4, <2>2 DEF CopiesOf
    <3>2. QED
      BY <1>2, <3>1
  <2>3. QED
    BY <2>1, <2>2
<1>5. QED
  BY <1>3, <1>4 DEF FlightFits
-----------------------------------------------------------------------------
(* Steps that leave the headers where they are. *)

NothingNoted == processed' = processed /\ \A n \in Notif : Noted(n)' => Noted(n)

LEMMA OpenedStays ==
    ASSUME NEW x, Opened(x),
           \A k \in Key : store[k].seen # "" =>
               store'[k].id = store[k].id /\ store'[k].seen # ""
    PROVE  Opened(x)'
  BY DEF Opened

LEMMA SingleStays ==
    ASSUME TypeInv, SingleInv, \A k \in Key : Stays(k), FlightFits,
           \A k \in Key : ReadFits(k), NothingNoted
    PROVE  SingleInv'
<1>1. \A n \in Notif : OneMail(n)
  BY DEF SingleInv
<1>2. ASSUME NEW n \in Notif
      PROVE  OneMail(n)'
  <2>1. Live(store', n) = Live(store, n)
    BY DEF Live, Stays
  <2>2. Came(n) => Came(n)'
    BY DEF Came, Stays
  <2>3. Filed(Orig[n]) => Filed(Orig[n])'
    BY DEF Filed, Stays
  <2>4. /\ \A c, d \in CopiesOf(n)' : c = d /\ pending'[c] = 1
        /\ CopiesOf(n)' # {} => CopiesOf(n) # {}
    BY <1>1, FewerCopies DEF TypeInv
  <2>5. QED
    BY <1>1, <2>1, <2>2, <2>3, <2>4 DEF OneMail, NothingNoted
<1>3. ASSUME NEW k \in Key
      PROVE  SentStays(k)'
  <2>1. SentStays(k) /\ Stays(k) /\ \A j \in Key : store'[j].id = store[j].id
    BY DEF SingleInv, Stays
  <2>2. QED
    BY <2>1 DEF SentStays, Stays
<1>4. ASSUME NEW k \in Key
      PROVE  ReadOnce(k)'
  <2>1. \A n \in Notif : Opened(Orig[n]) => Opened(Orig[n])'
    BY OpenedStays DEF Stays
  <2>2. ReadOnce(k) /\ ReadFits(k) /\ Stays(k)
    BY DEF SingleInv
  <2>3. QED
    BY <2>1, <2>2 DEF ReadOnce, ReadFits, Stays
<1>5. ASSUME NEW k \in Key
      PROVE  Unmarked(k)'
  <2>1. \A n \in Notif : Filed(Orig[n]) => Filed(Orig[n])'
    BY DEF Filed, Stays
  <2>2. Unmarked(k) /\ Stays(k)
    BY DEF SingleInv
  <2>3. QED
    BY <2>1, <2>2 DEF Unmarked, Stays, NothingNoted
<1>6. QED
  BY <1>2, <1>3, <1>4, <1>5 DEF SingleInv
-----------------------------------------------------------------------------
(* Steps that file a header. *)

LEMMA SingleArrives ==
    ASSUME TypeInv, SingleInv, NEW x \in Key, NEW id \in Msg \cup Notif,
           Arrives(x, id), OthersSame(x),
           id \in Msg => store'[x].folder = Sent /\ ~ Came(id),
           id \in Notif => /\ Live(store, id) = {} /\ CopiesOf(id)' = {}
                           /\ Noted(id) => Filed(Orig[id]),
           FreeIsEmpty, FlightFits, \A k \in Key : ReadFits(k), NothingNoted
    PROVE  SingleInv'
<1>0. /\ store[x].id = NoId /\ NoId \notin Msg \cup Notif /\ Msg \cap Notif = {}
      /\ store[x].st = "free" /\ store'[x].id = id /\ Blank(x)
  BY ConstantsAssumption DEF FreeIsEmpty, Arrives
<1>1. \A n \in Notif : OneMail(n)
  BY DEF SingleInv
<1>2. \A k \in Key : k # x => store'[k] = store[k]
  BY DEF OthersSame
<1>3. \A y \in Msg \cup Notif : /\ Came(y) => Came(y)'
                                /\ Filed(y) => Filed(y)'
                                /\ Opened(y) => Opened(y)'
  <2> SUFFICES ASSUME NEW y \in Msg \cup Notif
               PROVE  /\ Came(y) => Came(y)'
                      /\ Filed(y) => Filed(y)'
                      /\ Opened(y) => Opened(y)'
    OBVIOUS
  <2>1. \A k \in Key : store[k].id = y => store'[k] = store[k]
    BY <1>0, <1>2
  <2>2. Came(y) => Came(y)'
    BY <2>1 DEF Came
  <2>3. Filed(y) => Filed(y)'
    BY <2>1 DEF Filed
  <2>4. Opened(y) => Opened(y)'
    BY <2>1 DEF Opened
  <2>5. QED
    BY <2>2, <2>3, <2>4
<1>4. ASSUME NEW n \in Notif
      PROVE  OneMail(n)'
  <2>1. /\ \A c, d \in CopiesOf(n)' : c = d /\ pending'[c] = 1
        /\ CopiesOf(n)' # {} => CopiesOf(n) # {}
    BY <1>1, FewerCopies DEF TypeInv
  <2>2. Orig[n] \in Msg
    BY ConstantsAssumption
  <2>3. CASE n = id
    <3>1. Live(store', n) = {x}
      <4>1. \A k \in Key : k # x => ~ (store'[k].st = "live" /\ store'[k].id = n)
        BY <1>2, <2>3 DEF Live
      <4>2. store'[x].st = "live" /\ store'[x].id = n
        BY <1>0, <2>3 DEF Blank
      <4>3. QED
        BY <4>1, <4>2 DEF Live
    <3>2. Came(n)'
      BY <1>0, <2>3 DEF Came
    <3>3. QED
      BY <2>1, <2>3, <3>1, <3>2 DEF OneMail
  <2>4. CASE n # id
    <3>1. Live(store', n) = Live(store, n)
      BY <1>0, <1>2, <2>4 DEF Live
    <3>2. QED
      BY <1>1, <1>3, <2>1, <2>2, <3>1 DEF OneMail, NothingNoted
  <2>5. QED
    BY <2>3, <2>4
<1>5. ASSUME NEW k \in Key
      PROVE  SentStays(k)'
  <2>1. CASE k = x
    BY <1>0, <1>2, <2>1 DEF SentStays, Blank, Came
  <2>2. CASE k # x
    <3>1. store'[k] = store[k] /\ SentStays(k)
      BY <1>2, <2>2 DEF SingleInv
    <3>2. QED
      BY <1>0, <1>2, <2>2, <3>1 DEF SentStays, Came
  <2>3. QED
    BY <2>1, <2>2
<1>6. ASSUME NEW k \in Key
      PROVE  ReadOnce(k)'
  <2>1. ReadOnce(k) /\ ReadFits(k)
    BY DEF SingleInv
  <2>2. CASE k = x
    <3>1. store'[k].st = "live" /\ ~ (streams[<<"move", k>>] > 0)
      BY <1>0, <2>2 DEF Blank, TypeInv, MovesNotifications
    <3>2. streams[<<"move", k>>] \in Nat
      BY StreamType DEF TypeInv, TypeOK
    <3>3. QED
      BY <2>1, <3>1, <3>2 DEF ReadOnce, ReadFits
  <2>3. CASE k # x
    <3>1. store'[k] = store[k]
      BY <1>2, <2>3
    <3>2. \A n \in Notif : Opened(Orig[n]) => Opened(Orig[n])'
      BY <1>3, ConstantsAssumption
    <3>3. QED
      BY <2>1, <3>1, <3>2 DEF ReadOnce, ReadFits
  <2>4. QED
    BY <2>2, <2>3
<1>7. ASSUME NEW k \in Key
      PROVE  Unmarked(k)'
  <2>1. \A n \in Notif : Orig[n] \in Msg /\ (Filed(Orig[n]) => Filed(Orig[n])')
    BY <1>3, ConstantsAssumption
  <2>2. CASE k = x
    BY <1>0, <2>1, <2>2 DEF Unmarked, Blank, NothingNoted
  <2>3. CASE k # x
    <3>1. store'[k] = store[k] /\ Unmarked(k)
      BY <1>2, <2>3 DEF SingleInv
    <3>2. QED
      BY <2>1, <3>1 DEF Unmarked, NothingNoted
  <2>4. QED
    BY <2>2, <2>3
<1>8. QED
  BY <1>4, <1>5, <1>6, <1>7 DEF SingleInv
-----------------------------------------------------------------------------
(* Steps that move the notification of header k, or try to. *)

HeaderMoves(k, n) ==
    /\ store[k].id = n /\ store[k].st = "live"
    /\ store'[k].id = n /\ (store[k].seen # "" => store'[k].seen # "")
    /\ \A j \in Key : j # k => Stays(j)

\* It stays where it is, or goes and leaves at most one copy.
MailMoves(k, n) ==
    /\ \/ store'[k].st = "live" /\ CopiesOf(n)' = {}
       \/ /\ store'[k].st = "gone" /\ Filed(Orig[n])
          /\ \A c, d \in CopiesOf(n)' : c = d /\ pending'[c] = 1
    /\ \A c \in Copy : c.id # n => pending'[c] \in {0, pending[c]}

ReadsMove(k) ==
    /\ \A j \in Key : j # k => ReadFits(j)
    /\ streams'[<<"check", k>>] > 0 \/ streams'[<<"parse", k>>] > 0 =>
           store'[k].st = "live" \/ store'[k].seen # ""
    /\ streams'[<<"move", k>>] > 0 =>
           streams'[<<"move", k>>] = streams[<<"move", k>>] /\ store'[k].st = "live"

LEMMA SingleMoves ==
    ASSUME TypeInv, SingleInv, NEW k \in Key, NEW n \in Notif,
           HeaderMoves(k, n), MailMoves(k, n), ReadsMove(k),
           Unmarked(k)', \A x \in Notif : x # n /\ Noted(x)' => Noted(x),
           processed' \subseteq processed \cup {n}
    PROVE  SingleInv'
<1>1. \A x \in Notif : OneMail(x)
  BY DEF SingleInv
<1>2. n \notin Msg /\ \A x \in Notif : Orig[x] \in Msg
  BY ConstantsAssumption
<1>3. \A y \in Msg \cup Notif : Came(y) => Came(y)'
  BY DEF Came, Stays, HeaderMoves
<1>4. \A y \in Msg : Filed(y) => Filed(y)'
  <2> SUFFICES ASSUME NEW y \in Msg, Filed(y) PROVE Filed(y)'
    OBVIOUS
  <2>1. PICK j \in Key : store[j].st = "live" /\ store[j].id = y /\ store[j].folder # Trash
    BY DEF Filed
  <2>2. Stays(j)
    BY <1>2, <2>1 DEF HeaderMoves
  <2>3. QED
    BY <2>1, <2>2 DEF Filed, Stays
<1>5. \A y \in Msg : Opened(y) => Opened(y)'
  BY <1>2 DEF Opened, Stays, HeaderMoves
<1>6. ASSUME NEW x \in Notif
      PROVE  OneMail(x)'
  <2>1. CASE x = n
    <3>1. \A j \in Live(store, n) : j = k
      BY <1>1 DEF OneMail, Live, HeaderMoves
    <3>2. \A j \in Live(store', n) : j = k
      BY <3>1 DEF Live, Stays, HeaderMoves
    <3>3. store'[k].st = "gone" => Live(store', n) = {}
      BY <3>2 DEF Live
    <3>4. Came(n)'
      BY DEF Came, HeaderMoves
    <3>5. Filed(Orig[n]) => Filed(Orig[n])'
      BY <1>2, <1>4
    <3>6. QED
      BY <2>1, <3>2, <3>3, <3>4, <3>5 DEF OneMail, MailMoves
  <2>2. CASE x # n
    <3>1. Live(store', x) = Live(store, x)
      BY <2>2 DEF Live, Stays, HeaderMoves
    <3>2. \A c \in CopiesOf(x)' : c \in CopiesOf(x) /\ pending'[c] = pending[c]
      BY <2>2 DEF CopiesOf, MailMoves, TypeInv, TypeOK
    <3>3. /\ \A c, d \in CopiesOf(x)' : c = d /\ pending'[c] = 1
          /\ CopiesOf(x)' # {} => CopiesOf(x) # {}
      BY <1>1, <3>2 DEF OneMail
    <3>4. Filed(Orig[x]) => Filed(Orig[x])'
      BY <1>2, <1>4
    <3>5. QED
      BY <1>1, <1>3, <2>2, <3>1, <3>3, <3>4 DEF OneMail
  <2>3. QED
    BY <2>1, <2>2
<1>7. ASSUME NEW j \in Key
      PROVE  SentStays(j)'
  <2>1. SentStays(j) /\ \A i \in Key : store'[i].id = store[i].id
    BY DEF SingleInv, Stays, HeaderMoves
  <2>2. QED
    BY <1>2, <2>1 DEF SentStays, Stays, HeaderMoves
<1>8. ASSUME NEW j \in Key
      PROVE  ReadOnce(j)'
  <2>1. ReadOnce(j)
    BY DEF SingleInv
  <2>2. \A x \in Notif : Opened(Orig[x]) => Opened(Orig[x])'
    BY <1>2, <1>5
  <2>3. CASE j = k
    BY <2>1, <2>2, <2>3 DEF ReadOnce, ReadsMove, HeaderMoves
  <2>4. CASE j # k
    BY <2>1, <2>2, <2>4 DEF ReadOnce, ReadFits, Stays, ReadsMove, HeaderMoves
  <2>5. QED
    BY <2>3, <2>4
<1>9. ASSUME NEW j \in Key, j # k
      PROVE  Unmarked(j)'
  <2>1. Unmarked(j) /\ Stays(j)
    BY <1>9 DEF SingleInv, HeaderMoves
  <2>2. \A x \in Notif : Filed(Orig[x]) => Filed(Orig[x])'
    BY <1>2, <1>4
  <2>3. store[j].st = "live" => store[j].id # n
    BY <1>1, <1>9 DEF OneMail, Live, HeaderMoves
  <2>4. QED
    BY <2>1, <2>2, <2>3 DEF Unmarked, Stays
<1>10. QED
  BY <1>6, <1>7, <1>8, <1>9 DEF SingleInv

\* What moveNotificationWithSource makes of the header and of the copies.
MovesOnce(s, k, sought, out) ==
    /\ \A j \in Key : j # k => out.store[j] = s[j]
    /\ out.store[k].id = s[k].id /\ out.store[k].seen = s[k].seen
    /\ \/ /\ out.store[k].st = s[k].st /\ out.copies = {}
          /\ \/ out.store[k].moveto \in {s[k].moveto, NoId}
             \/ Find(s, sought[1]) = {}
       \/ /\ out.store[k].st = "gone" /\ Find(s, sought[1]) # {}
          /\ \A c, d \in out.copies : c = d /\ c.id = s[k].id

LEMMA ThreadsOnce ==
    ASSUME NEW s \in Stores, NEW k \in Key, s[k].id \in Notif, NEW sought \in RowKey,
           NEW f \in Folder, NEW out \in ThreadOutcomes(s, k, f),
           Find(s, sought[1]) # {}
    PROVE  MovesOnce(s, k, sought, out)
<1> DEFINE gone == [s EXCEPT ![k].st = "gone", ![k].moveto = NoId]
           kept == [s EXCEPT ![k].moveto = NoId]
           n    == s[k].id
<1>1. \/ out = [store |-> gone, copies |-> {Accepted(n, f)}, lost |-> {}]
      \/ out = [store |-> gone,
                copies |-> IF MaxAttempts > 1 THEN {Refused(n, f, 1)} ELSE {},
                lost |-> IF MaxAttempts > 1 THEN {} ELSE {n}]
      \/ out = [store |-> kept, copies |-> {}, lost |-> {}]
  BY DEF ThreadOutcomes
<1>2. /\ gone[k].id = n /\ gone[k].seen = s[k].seen /\ gone[k].st = "gone"
      /\ \A j \in Key : j # k => gone[j] = s[j]
  <2> DEFINE h == [[s[k] EXCEPT !.st = "gone"] EXCEPT !.moveto = NoId]
  <2>1. h.id = n /\ h.seen = s[k].seen /\ h.st = "gone"
    <3>1. s[k] \in Header
      BY DEF Stores
    <3>2. QED
      BY <3>1 DEF Header
  <2>2. gone = [s EXCEPT ![k] = h]
    BY DEF Stores
  <2> HIDE DEF h, gone
  <2>3. QED
    BY <2>1, <2>2, Replaced
<1>3. /\ kept[k].id = n /\ kept[k].st = s[k].st /\ kept[k].seen = s[k].seen
      /\ kept[k].moveto = NoId
      /\ \A j \in Key : j # k => kept[j] = s[j]
  BY DEF Stores, Header
<1>4. Accepted(n, f).id = n /\ Refused(n, f, 1).id = n
  BY DEF Accepted, Refused
<1> HIDE DEF gone, kept
<1>5. \/ out.store = gone /\ \A c, d \in out.copies : c = d /\ c.id = n
      \/ out.store = kept /\ out.copies = {}
  BY <1>1, <1>4
<1>6. QED
  BY <1>2, <1>3, <1>5 DEF MovesOnce

LEMMA OutcomesOnce ==
    ASSUME NEW s \in Stores, NEW k \in Key, s[k].id \in Notif, NEW sought \in RowKey,
           NEW failed, NEW out \in MoveOutcomes(s, k, sought, failed)
    PROVE  MovesOnce(s, k, sought, out)
<1>1. CASE out = [store |-> s, copies |-> {}, lost |-> {}]
  BY <1>1 DEF MovesOnce
<1>2. ASSUME NEW x \in RowKey \cup {NoId}, x = NoId \/ Find(s, sought[1]) = {},
             out = [store |-> [s EXCEPT ![k].moveto = x], copies |-> {}, lost |-> {}]
      PROVE  MovesOnce(s, k, sought, out)
  <2> DEFINE t == [s EXCEPT ![k].moveto = x]
  <2>1. /\ t[k].id = s[k].id /\ t[k].st = s[k].st /\ t[k].seen = s[k].seen
        /\ t[k].moveto = x /\ \A j \in Key : j # k => t[j] = s[j]
    BY DEF Stores, Header
  <2> HIDE DEF t
  <2>2. out.store = t /\ out.copies = {}
    BY <1>2 DEF t
  <2>3. QED
    BY <1>2, <2>1, <2>2 DEF MovesOnce
<1>3. ASSUME NEW o \in Find(s, sought[1]), out \in ThreadOutcomes(s, k, s[o].folder)
      PROVE  MovesOnce(s, k, sought, out)
  <2>1. s[o].folder \in Folder
    BY DEF Find, Searchable, Live, Stores, Header
  <2>2. QED
    BY <1>3, <2>1, ThreadsOnce
<1>4. \/ out = [store |-> s, copies |-> {}, lost |-> {}]
      \/ /\ Find(s, sought[1]) = {}
         /\ out = [store |-> [s EXCEPT ![k].moveto = sought], copies |-> {}, lost |-> {}]
      \/ out = [store |-> [s EXCEPT ![k].moveto = NoId], copies |-> {}, lost |-> {}]
      \/ \E o \in Find(s, sought[1]) : out \in ThreadOutcomes(s, k, s[o].folder)
  BY DEF MoveOutcomes
<1>5. QED
  BY <1>1, <1>2, <1>3, <1>4

\* The only header of a sent message is found, wherever it is looked for.
LEMMA FiledIsFound ==
    ASSUME TypeInv, SingleInv, NEW m \in Msg, NEW s \in Stores,
           \A j \in Key : store[j].id = m => s[j] = store[j],
           \A j \in Key : s[j].id = store[j].id
    PROVE  Filed(m) <=> Find(s, m) # {}
<1>1. ASSUME Filed(m) PROVE Find(s, m) # {}
  <2>1. PICK k \in Key : store[k].st = "live" /\ store[k].id = m /\ store[k].folder # Trash
    BY <1>1 DEF Filed
  <2>2. \A j \in Key : store[j].id = m => j = k
    BY <2>1 DEF SingleInv, SentStays
  <2>3. s[k] = store[k] /\ \A j \in Searchable(s, m) : j = k
    BY <2>1, <2>2 DEF Searchable, Live
  <2>4. k \in Nat
    BY ConstantsAssumption
  <2>5. Before(s, k, k)
    BY <2>4 DEF Before
  <2>6. k \in Find(s, m)
    BY <2>1, <2>3, <2>5 DEF Find, Searchable, Live
  <2>7. QED
    BY <2>6
<1>2. ASSUME Find(s, m) # {} PROVE Filed(m)
  BY <1>2 DEF Find, Searchable, Live, Filed
<1>3. QED
  BY <1>1, <1>2
-----------------------------------------------------------------------------
(* The reads and the copies of each action. *)

LEMMA ReadsSame == UNCHANGED streams => \A k \in Key : ReadFits(k)
  BY DEF ReadFits

LEMMA ReadTaken ==
    ASSUME TypeInv, SingleInv, NEW x \in Stream, streams[x] > 0, streams' = Take(streams, x)
    PROVE  /\ \A k \in Key : ReadFits(k)
           /\ \A k \in Key : x = <<"move", k>> => streams'[x] = 0
<1>1. streams \in [Stream -> Nat]
  BY DEF TypeInv, TypeOK
<1>2. /\ \A y \in Stream : y # x => streams'[y] = streams[y]
      /\ streams'[x] = streams[x] - 1
  BY <1>1 DEF Take
<1>3. ASSUME NEW k \in Key, x = <<"move", k>>
      PROVE  streams'[x] = 0
  <2>1. streams[x] = 1
    BY <1>3 DEF SingleInv, ReadOnce
  <2>2. QED
    BY <1>2, <2>1
<1>4. ASSUME NEW k \in Key
      PROVE  ReadFits(k)
  <2>1. \A y \in Stream : streams'[y] > 0 => streams[y] > 0
    BY <1>1, <1>2
  <2>2. streams'[<<"move", k>>] > 0 => streams'[<<"move", k>>] = streams[<<"move", k>>]
    <3>1. CASE x = <<"move", k>>
      BY <1>3, <3>1
    <3>2. CASE x # <<"move", k>>
      BY <1>2, <3>2, StreamType
    <3>3. QED
      BY <3>1, <3>2
  <2>3. QED
    BY <2>1, <2>2, StreamType DEF ReadFits
<1>5. QED
  BY <1>3, <1>4

LEMMA FlightStays == UNCHANGED pending => FlightFits
  BY DEF FlightFits

\* Only the copy that ends goes, for there is no other of that mail.
LEMMA FlightEnds ==
    ASSUME TypeInv, SingleInv, NEW c \in Copy, pending[c] > 0, pending' = Take(pending, c)
    PROVE  FlightFits /\ CopiesOf(c.id)' = {}
<1>1. pending \in [Copy -> Nat] /\ c.id \in Notif
  BY DEF TypeInv, TypeOK, Copy
<1>2. \A d \in CopiesOf(c.id) : d = c /\ pending[d] = 1
  BY <1>1 DEF SingleInv, OneMail, CopiesOf
<1>3. pending[c] = 1
  BY <1>2 DEF CopiesOf
<1>4. pending'[c] = 0 /\ \A d \in Copy : d # c => pending'[d] = pending[d]
  BY <1>1, <1>3 DEF Take
<1>5. QED
  BY <1>2, <1>4 DEF FlightFits, CopiesOf

LEMMA FlightGoesOn ==
    ASSUME TypeInv, SingleInv, NEW c \in Copy, NEW x \in Copy, pending[c] > 0,
           x.id = c.id, x # c, pending' = Add(Take(pending, c), x)
    PROVE  FlightFits
<1>1. pending \in [Copy -> Nat] /\ c.id \in Notif
  BY DEF TypeInv, TypeOK, Copy
<1>2. \A d \in CopiesOf(c.id) : d = c /\ pending[d] = 1
  BY <1>1 DEF SingleInv, OneMail, CopiesOf
<1>3. pending[c] = 1 /\ pending[x] = 0
  BY <1>1, <1>2 DEF CopiesOf
<1> DEFINE bag == Take(pending, c)
<1>4. /\ bag \in [Copy -> Nat] /\ bag[c] = 0
      /\ \A d \in Copy : d # c => bag[d] = pending[d]
  BY <1>1, <1>3 DEF Take
<1> HIDE DEF bag
<1>5. /\ pending'[c] = 0 /\ pending'[x] = 1
      /\ \A d \in Copy \ {c, x} : pending'[d] = pending[d]
  <2>1. pending' = Add(bag, x)
    BY DEF bag
  <2>2. QED
    BY <1>3, <1>4, <2>1 DEF Add
<1>6. QED
  BY <1>5 DEF FlightFits

\* Nobody is named in a row whose notification was not processed.
LEMMA NotedCame ==
    ASSUME SingleInv, LedgerSound, NEW n \in Notif, Noted(n)
    PROVE  Came(n)
<1>1. PICK e \in Recorded(db[Bare(Orig[n])]) : e[1] = n
  BY DEF Noted
<1>2. Bare(Orig[n]) \in RowKey
  BY ConstantsAssumption DEF Bare, RowKey
<1>3. n \in processed
  BY <1>1, <1>2 DEF LedgerSound
<1>4. QED
  BY <1>3 DEF SingleInv, OneMail

LEMMA SameNothing == UNCHANGED <<db, processed>> => NothingNoted
  BY DEF NothingNoted, Noted

LEMMA EntriesNothing == SameEntries /\ UNCHANGED processed => NothingNoted
<1>1. \A n \in Notif : Bare(Orig[n]) \in RowKey
  BY ConstantsAssumption DEF Bare, RowKey
<1>2. QED
  BY <1>1 DEF NothingNoted, Noted, SameEntries, Recorded

LEMMA ReadAdded ==
    ASSUME TypeInv, NEW x \in Key, store'[x].st = "live",
           streams' = ItemAdded(store', x)
    PROVE  \A k \in Key : ReadFits(k)
<1>1. streams \in [Stream -> Nat]
  BY DEF TypeInv, TypeOK
<1>2. /\ \A k \in Key : k # x => streams'[<<"check", k>>] = streams[<<"check", k>>]
      /\ \A k \in Key : streams'[<<"parse", k>>] = streams[<<"parse", k>>]
      /\ \A k \in Key : streams'[<<"move", k>>] = streams[<<"move", k>>]
  BY <1>1, StreamType DEF ItemAdded, Add
<1>3. QED
  BY <1>2 DEF ReadFits
-----------------------------------------------------------------------------
(* Arrivals *)

LEMMA SingleDeliver ==
    ASSUME Orderly, TypeInv, PlaceInv, LedgerSound, SingleInv, NEW n \in Notif, Deliver(n)
    PROVE  SingleInv'
<1>1. PICK k \in Key : /\ IsNew(k)
                       /\ store' = [store EXCEPT ![k] = FreshHeader(n, Inbox, NoKey)]
                       /\ streams' = ItemAdded(store', k)
  BY DEF Deliver
<1>2. Arrives(k, n) /\ OthersSame(k)
  BY <1>1, NewArrives DEF TypeInv
<1>3. ~ Came(n)
  BY DEF Deliver, Orderly, Came
<1>4. Live(store, n) = {}
  BY <1>3 DEF Came, Live
<1>5. CopiesOf(n)' = {}
  <2>1. CopiesOf(n) = {}
    BY <1>3 DEF SingleInv, OneMail
  <2>2. QED
    BY <2>1 DEF Deliver, CopiesOf
<1>6. ~ Noted(n) /\ n \notin Msg
  BY <1>3, NotedCame, ConstantsAssumption
<1>7. FlightFits /\ NothingNoted
  BY FlightStays, SameNothing DEF Deliver, history
<1>8. \A j \in Key : ReadFits(j)
  BY <1>1, <1>2, ReadAdded DEF Arrives, Blank
<1>9. QED
  BY <1>2, <1>4, <1>5, <1>6, <1>7, <1>8, SingleArrives DEF PlaceInv

LEMMA SingleFileSent ==
    ASSUME Orderly, TypeInv, PlaceInv, SingleInv, NEW m \in Msg, NEW f \in Folder,
           FileSent(m, f)
    PROVE  SingleInv'
<1>1. f = Sent
  BY DEF FileSent, Orderly
<1>2. PICK k \in Key : /\ IsNew(k)
                       /\ store' = [store EXCEPT ![k] = FreshHeader(m, f, NoKey)]
                       /\ streams' = ItemAdded(store', k)
  BY DEF FileSent
<1>3. Arrives(k, m) /\ OthersSame(k)
  BY <1>2, NewArrives DEF TypeInv
<1>4. store'[k].folder = Sent
  <2> DEFINE h == FreshHeader(m, f, NoKey)
  <2>1. h.folder = Sent
    BY <1>1 DEF FreshHeader
  <2> HIDE DEF h
  <2>2. store'[k] = h
    BY <1>2 DEF TypeInv, TypeOK, h
  <2>3. QED
    BY <2>1, <2>2
<1>5. ~ Came(m)
  BY <1>1 DEF FileSent, Came, SingleInv, SentStays
<1>6. m \notin Notif
  BY ConstantsAssumption
<1>7. FlightFits /\ NothingNoted
  BY FlightStays, SameNothing DEF FileSent, history
<1>8. \A j \in Key : ReadFits(j)
  BY <1>2, <1>3, ReadAdded DEF Arrives, Blank
<1>9. QED
  BY <1>3, <1>4, <1>5, <1>6, <1>7, <1>8, SingleArrives DEF PlaceInv

LEMMA SingleCopyStopped ==
    ASSUME TypeInv, PlaceInv, SingleInv, NEW c \in Copy, CopyStopped(c)
    PROVE  SingleInv'
<1> DEFINE n == c.id
<1>1. n \in Notif /\ c.folder \in Folder /\ pending[c] > 0 /\ pending' = Take(pending, c)
  BY DEF Copy, CopyStopped
<1>2. PICK k \in Key, p \in Parents(store, Orig[n], c.folder) :
        /\ IsNew(k)
        /\ store' = [store EXCEPT ![k] = FreshHeader(n, c.folder, p)]
        /\ streams' = ItemAdded(store', k)
  BY DEF CopyStopped
<1>3. Arrives(k, n) /\ OthersSame(k)
  BY <1>2, NewArrives DEF TypeInv
<1>4. Live(store, n) = {} /\ Filed(Orig[n])
  BY <1>1 DEF SingleInv, OneMail, CopiesOf
<1>5. FlightFits /\ CopiesOf(n)' = {}
  BY <1>1, FlightEnds
<1>6. n \notin Msg
  BY <1>1, ConstantsAssumption
<1>7. NothingNoted
  BY SameNothing DEF CopyStopped, history
<1>8. \A j \in Key : ReadFits(j)
  BY <1>2, <1>3, ReadAdded DEF Arrives, Blank
<1> HIDE DEF n
<1>9. QED
  BY <1>1, <1>3, <1>4, <1>5, <1>6, <1>7, <1>8, SingleArrives DEF PlaceInv
-----------------------------------------------------------------------------
(* Reads, copies that end, time *)

\* A header that is not touched stays.
LEMMA SameStays == ASSUME NEW k \in Key, store'[k] = store[k] PROVE Stays(k)
  BY DEF Stays

LEMMA SingleCopyFailed ==
    ASSUME TypeInv, SingleInv, NEW c \in Copy, CopyFailed(c) \/ RetryCopy(c)
    PROVE  SingleInv'
<1>1. /\ UNCHANGED <<store, streams, db, processed>> /\ pending[c] > 0
      /\ \/ pending' = Take(pending, c)
         \/ /\ c.stage = "retry"
            /\ pending' = Add(Take(pending, c), Accepted(c.id, c.folder))
         \/ /\ c.count + 1 < MaxAttempts
            /\ pending' = Add(Take(pending, c), [c EXCEPT !.count = @ + 1])
  BY DEF CopyFailed, RetryCopy
<1>2. /\ Accepted(c.id, c.folder) \in Copy /\ Accepted(c.id, c.folder).id = c.id
      /\ Accepted(c.id, c.folder).stage = "copying"
      /\ c.count + 1 < MaxAttempts =>
            /\ [c EXCEPT !.count = @ + 1] \in Copy
            /\ [c EXCEPT !.count = @ + 1].id = c.id
            /\ [c EXCEPT !.count = @ + 1].count # c.count
  BY ConstantsAssumption DEF Accepted, Copy
<1>3. FlightFits
  BY <1>1, <1>2, FlightEnds, FlightGoesOn
<1>4. QED
  BY <1>1, <1>3, SingleStays, SameStays, ReadsSame, SameNothing

LEMMA SingleHeaderChecked ==
    ASSUME TypeInv, SingleInv, NEW k \in Key, HeaderChecked(k)
    PROVE  SingleInv'
<1> DEFINE taken == Take(streams, <<"check", k>>)
<1>1. streams \in [Stream -> Nat] /\ streams[<<"check", k>>] > 0
  BY DEF TypeInv, TypeOK, HeaderChecked
<1>2. /\ taken \in [Stream -> Nat] /\ taken[<<"check", k>>] = streams[<<"check", k>>] - 1
      /\ \A x \in Stream : x # <<"check", k>> => taken[x] = streams[x]
  BY <1>1, StreamType, TakeType DEF Take
<1>3. streams' = Add(taken, <<"parse", k>>) \/ streams' = taken
  BY DEF HeaderChecked
<1> HIDE DEF taken
<1>4. /\ \A x \in Stream : x # <<"check", k>> /\ x # <<"parse", k>> => streams'[x] = streams[x]
      /\ streams'[<<"check", k>>] = streams[<<"check", k>>] - 1
  BY <1>2, <1>3, StreamType DEF Add
<1>5. \A j \in Key : ReadFits(j)
  BY <1>1, <1>4, StreamType DEF ReadFits
<1>6. QED
  BY <1>5, SingleStays, SameStays, FlightStays, SameNothing DEF HeaderChecked, history

LEMMA SingleStreams ==
    ASSUME TypeInv, SingleInv,
           \/ \E x \in Stream : StreamFailed(x)
           \/ \E k \in Key : ParseRepeated(k)
    PROVE  SingleInv'
<1>1. /\ UNCHANGED <<store, pending, db, processed>>
      /\ \E x \in Stream : streams[x] > 0 /\ streams' = Take(streams, x)
  BY StreamType DEF StreamFailed, ParseRepeated, history
<1>2. QED
  BY <1>1, ReadTaken, SingleStays, SameStays, FlightStays, SameNothing

LEMMA SingleExpire ==
    ASSUME TypeInv, SingleInv, UNCHANGED <<store, streams, pending, db, processed>>
    PROVE  SingleInv'
  BY SingleStays, SameStays, ReadsSame, FlightStays, SameNothing

LEMMA SingleParseIgnored ==
    ASSUME TypeInv, SingleInv, NEW k \in Key, ParseIgnored(k)
    PROVE  SingleInv'
<1>1. store' = [store EXCEPT ![k].seen = "yes"]
  BY DEF ParseIgnored
<1>2. \A j \in Key : Stays(j)
  <2>1. /\ \A j \in Key : j # k => store'[j] = store[j]
        /\ store'[k].seen = "yes" /\ store'[k].id = store[k].id
        /\ store'[k].st = store[k].st /\ store'[k].moveto = store[k].moveto
        /\ store'[k].folder = store[k].folder
    BY <1>1, SeenHeader DEF TypeInv
  <2>2. QED
    BY <2>1, SameStays DEF Stays
<1>3. \A j \in Key : ReadFits(j)
  BY ReadTaken, StreamType DEF ParseIgnored
<1>4. QED
  BY <1>2, <1>3, SingleStays, FlightStays, SameNothing DEF ParseIgnored, history

LEMMA SingleFiveSeconds ==
    ASSUME TypeInv, SingleInv, FiveSecondsPass
    PROVE  SingleInv'
<1>1. ASSUME NEW k \in Key PROVE Stays(k)
  <2> DEFINE h == store[k]
             g == store'[k]
  <2>1. h \in Header /\ g = [h EXCEPT !.recent = FALSE]
    BY DEF FiveSecondsPass, TypeInv, TypeOK
  <2>2. /\ g.id = h.id /\ g.st = h.st /\ g.moveto = h.moveto /\ g.seen = h.seen
        /\ g.folder = h.folder
    BY <2>1 DEF Header
  <2>3. QED
    BY <2>2 DEF Stays
<1>2. QED
  BY <1>1, SingleStays, ReadsSame, FlightStays, SameNothing DEF FiveSecondsPass, history

LEMMA SingleCheckDelays ==
    ASSUME TypeInv, SingleInv, CheckDelays
    PROVE  SingleInv'
<1>1. PICK ok \in SUBSET waiting : store' = Outdate(store, ok, {})
  BY DEF CheckDelays
<1>2. \A k \in Key : Stays(k)
  <2>1. store \in Stores
    BY DEF TypeInv, TypeOK, Stores
  <2>2. QED
    <3> SUFFICES ASSUME NEW k \in Key PROVE Stays(k)
      OBVIOUS
    <3>1. /\ store'[k].id = store[k].id /\ store'[k].st = store[k].st
          /\ store'[k].folder = store[k].folder /\ store'[k].moveto = store[k].moveto
          /\ store'[k].seen = store[k].seen
      BY <1>1, <2>1, OutdateHeaders
    <3>2. QED
      BY <3>1 DEF Stays
<1>3. SameEntries
  <2>1. \A rk \in RowKey : db[rk] \in Data
    BY DEF TypeInv, TypeOK
  <2>2. QED
    BY <2>1, RowsSettled, SettleRecords DEF SameEntries
<1>4. QED
  BY <1>2, <1>3, SingleStays, ReadsSame, FlightStays, EntriesNothing DEF CheckDelays, history

LEMMA SingleDisplayRow ==
    ASSUME TypeInv, SingleInv, NEW k \in Key, DisplayRow(k)
    PROVE  SingleInv'
<1> DEFINE m == store[k].id
           d == db[Bare(m)]
<1>1. TypeOK /\ store[k] \in Header
  BY DEF TypeInv, TypeOK
<1>2. ASSUME NEW j \in Key PROVE Stays(j)
  <2>1. CASE UNCHANGED store
    BY <2>1, SameStays
  <2>2. CASE store' = [store EXCEPT ![k].recent = TRUE, ![k].synced = TRUE]
    <3> DEFINE h == [[store[k] EXCEPT !.recent = TRUE] EXCEPT !.synced = TRUE]
    <3>1. /\ h.id = store[k].id /\ h.st = store[k].st /\ h.moveto = store[k].moveto
          /\ h.seen = store[k].seen /\ h.folder = store[k].folder
      BY <1>1 DEF Header
    <3>2. store' = [store EXCEPT ![k] = h]
      BY <1>1, <2>2 DEF TypeOK
    <3> HIDE DEF h
    <3>3. store'[k] = h /\ \A i \in Key : i # k => store'[i] = store[i]
      BY <1>1, <3>2 DEF TypeOK
    <3>4. QED
      BY <3>1, <3>3, SameStays DEF Stays
  <2>3. CASE store' = SaveInMessageDb(store, {k}, Load(d, m))
    <3> DEFINE o == Load(d, m)
    <3> HIDE DEF o
    <3>1. SavedAs(store, {k}, o)
      BY <1>1, <2>3, SaveHeaders DEF TypeOK, Stores, o
    <3>2. QED
      BY <3>1 DEF SavedAs, Stays
  <2>4. QED
    BY <2>1, <2>2, <2>3 DEF DisplayRow, SyncMessageDb
<1>3. ASSUME NEW j \in Key PROVE ReadFits(j)
  <2>1. streams \in [Stream -> Nat] /\ <<"parse", k>> \in Stream
    BY <1>1, StreamType DEF TypeOK
  <2>2. /\ Add(streams, <<"parse", k>>)[<<"move", j>>] = streams[<<"move", j>>]
        /\ Add(streams, <<"parse", k>>)[<<"check", j>>] = streams[<<"check", j>>]
        /\ j # k => Add(streams, <<"parse", k>>)[<<"parse", j>>] = streams[<<"parse", j>>]
    BY <2>1, StreamType DEF Add
  <2>3. store[k].st = "live" /\ store'[k].st = "live"
    BY <1>2 DEF DisplayRow, Stays
  <2>4. UNCHANGED streams \/ streams' = Add(streams, <<"parse", k>>)
    BY DEF DisplayRow
  <2>5. QED
    BY <2>2, <2>3, <2>4 DEF ReadFits
<1>4. QED
  BY <1>2, <1>3, SingleStays, FlightStays, SameNothing DEF DisplayRow, history

LEMMA SingleCrash ==
    ASSUME TypeInv, SingleInv, Crash
    PROVE  SingleInv'
<1>1. \A c \in Copy : pending'[c] = 0
  BY DEF Crash, ForgetVolatile
<1>2. \A x \in Stream : streams'[x] = 0
  BY DEF Crash, ForgetVolatile
<1>3. FlightFits
  BY <1>1 DEF FlightFits
<1>4. \A k \in Key : ReadFits(k)
  <2>1. ASSUME NEW k \in Key
        PROVE  /\ ~ (streams'[<<"check", k>>] > 0) /\ ~ (streams'[<<"parse", k>>] > 0)
               /\ ~ (streams'[<<"move", k>>] > 0)
    BY <1>2, StreamType
  <2>2. QED
    BY <2>1 DEF ReadFits
<1>5. QED
  BY <1>3, <1>4, SingleStays, SameStays, SameNothing DEF Crash
-----------------------------------------------------------------------------
(* An original is parsed, once, and sends for its notifications. *)

LEMMA MarkStays ==
    ASSUME TypeOK, NEW k \in Key, NEW mark, mark # "", NEW ks, NEW o,
           SavedAs([store EXCEPT ![k].seen = mark], ks, o)
    PROVE  /\ \A j \in Key : Stays(j)
           /\ store'[k].seen # "" /\ store'[k].id = store[k].id
<1> DEFINE t == [store EXCEPT ![k].seen = mark]
<1>1. /\ \A j \in Key : j # k => t[j] = store[j]
      /\ t[k].seen = mark /\ t[k].id = store[k].id /\ t[k].st = store[k].st
      /\ t[k].moveto = store[k].moveto /\ t[k].folder = store[k].folder
      /\ t[k].copy = store[k].copy /\ t[k].columns = store[k].columns
  BY SeenHeader
<1> HIDE DEF t
<1>2. SavedAs(t, ks, o)
  BY DEF t
<1>3. store'[k].seen = mark /\ store'[k].id = store[k].id /\ Stays(k)
  BY <1>1, <1>2 DEF SavedAs, Stays
<1>4. ASSUME NEW j \in Key, j # k PROVE Stays(j)
  <2>1. /\ store'[j].id = t[j].id /\ store'[j].st = t[j].st
        /\ store'[j].moveto = t[j].moveto /\ store'[j].seen = t[j].seen
        /\ store'[j].folder = t[j].folder
    BY <1>2 DEF SavedAs
  <2>2. t[j] = store[j]
    BY <1>1, <1>4
  <2>3. QED
    BY <2>1, <2>2 DEF Stays
<1>5. QED
  BY <1>3, <1>4

LEMMA OriginalStays ==
    ASSUME TypeInv, NEW k \in Key, ParseOriginal(k)
    PROVE  /\ \A j \in Key : Stays(j)
           /\ store'[k].seen # "" /\ store'[k].id = store[k].id
<1> DEFINE m  == store[k].id
           ks == IF Known(m).data.rows = {} THEN {} ELSE {k}
           Goal == /\ \A j \in Key : Stays(j)
                   /\ store'[k].seen # "" /\ store'[k].id = store[k].id
<1>1. TypeOK /\ m \in Msg
  BY DEF TypeInv, ParseOriginal
<1>2. Known(m) \in Object /\ Asked(m) \in Object
  BY <1>1, KnownType, AskedKeeps
<1>3. ASSUME NEW mark \in {"yes", "request"}, NEW ids, NEW o,
             SavedAs([store EXCEPT ![k].seen = mark], ids, o)
      PROVE  Goal
  <2>1. mark # ""
    OBVIOUS
  <2>2. QED
    BY <1>1, <1>3, <2>1, MarkStays
<1>4. ASSUME SaveNotificationData([store EXCEPT ![k].seen = "request"],
                                  {k}, Bare(m), Asked(m), m)
      PROVE  Goal
  <2> DEFINE t == [store EXCEPT ![k].seen = "request"]
             o == Asked(m)
  <2>1. t \in Stores
    BY <1>1, SeenType
  <2> HIDE DEF t, o, Goal
  <2>2. SaveNotificationData(t, {k}, Bare(m), o, m) /\ o \in Object
    BY <1>2, <1>4 DEF t, o
  <2>3. SavedAs(t, {k}, o)
    BY <2>1, <2>2, Saves
  <2>4. QED
    BY <1>3, <2>3 DEF t
<1>5. ASSUME store' = SaveInMessageDb([store EXCEPT ![k].seen = "yes"], ks, Known(m))
      PROVE  Goal
  <2> DEFINE t == [store EXCEPT ![k].seen = "yes"]
             o == Known(m)
  <2>1. t \in Stores
    BY <1>1, SeenType
  <2> HIDE DEF t, o, ks, Goal
  <2>2. SavedAs(t, ks, o)
    BY <1>5, <2>1, SaveHeaders DEF t, o
  <2>3. QED
    BY <1>3, <2>2 DEF t
<1> HIDE DEF Goal
<1>6. Goal
  BY <1>4, <1>5 DEF ParseOriginal, Asked, Known
<1>7. QED
  BY <1>6 DEF Goal

LEMMA OriginalEntries ==
    ASSUME TypeInv, NEW k \in Key, ParseOriginal(k)
    PROVE  SameEntries /\ processed' = processed
<1> DEFINE m == store[k].id
<1>1. m \in Msg /\ Bare(m) \in RowKey /\ db \in [RowKey -> Data]
  BY DEF ParseOriginal, Bare, RowKey, TypeInv, TypeOK
<1>2. processed' = processed /\ (UNCHANGED db \/ Written(Bare(m), Asked(m)))
  BY OriginalWritten
<1>3. Asked(m).data.count = db[Bare(m)].count
  BY <1>1, AskedKeeps
<1>4. CASE UNCHANGED db
  BY <1>2, <1>4 DEF SameEntries
<1>5. CASE Written(Bare(m), Asked(m))
  <2>1. \A rk \in RowKey : db'[rk].count = db[rk].count
    BY <1>1, <1>3, <1>5 DEF Written
  <2>2. QED
    BY <1>2, <2>1 DEF SameEntries, Recorded
<1>6. QED
  BY <1>2, <1>4, <1>5

\* What it sends for has been parsed, is about it, and is not sent for yet.
LEMMA SentForOnce ==
    ASSUME TypeInv, LedgerSound, SingleInv, NEW k \in Key, ParseOriginal(k),
           NEW h \in WaitingFor(store[k].id)
    PROVE  /\ h \in Key /\ store[h].id \in Notif /\ store[h].st = "live"
           /\ store[h].seen # "" /\ Orig[store[h].id] = store[k].id
           /\ streams[<<"move", h>>] = 0
<1> DEFINE m == store[k].id
<1>1. m \in Msg /\ Bare(m) \in RowKey /\ store[k].seen = ""
  BY DEF ParseOriginal, Bare, RowKey
<1>2. PICK e \in Recorded(db[Bare(m)]) : h \in Find(store, e[1]) /\ store[h].moveto = Bare(m)
  BY DEF WaitingFor
<1> DEFINE n == e[1]
<1>3. n \in Notif
  BY <1>2, EntryOwner DEF Recorded
<1>4. h \in Key /\ store[h].id = n /\ store[h].st = "live"
  BY <1>2 DEF Find, Searchable, Live
<1>5. Orig[n] = m
  <2>1. RowOf(n) = Bare(m)
    BY <1>1, <1>2 DEF LedgerSound
  <2>2. QED
    BY <2>1 DEF RowOf, Bare
<1>6. Noted(n)
  BY <1>2, <1>5 DEF Noted
<1>7. store[h].seen # ""
  <2>1. Bare(m) # NoId
    BY DEF Bare, NoId
  <2>2. QED
    BY <1>2, <1>3, <1>4, <1>6, <2>1 DEF SingleInv, Unmarked
<1>8. ~ Opened(m)
  BY <1>1 DEF SingleInv, SentStays, Opened
<1>9. ~ (streams[<<"move", h>>] > 0)
  BY <1>3, <1>4, <1>5, <1>8 DEF SingleInv, ReadOnce
<1>10. streams[<<"move", h>>] = 0
  <2>1. streams[<<"move", h>>] \in Nat
    BY <1>4, StreamType DEF TypeInv, TypeOK
  <2>2. QED
    BY <1>9, <2>1
<1>11. store[h].id \in Notif /\ Orig[store[h].id] = store[k].id
  BY <1>3, <1>4, <1>5
<1>12. QED
  BY <1>4, <1>7, <1>10, <1>11

LEMMA SingleParseOriginal ==
    ASSUME TypeInv, LedgerSound, SingleInv, NEW k \in Key, ParseOriginal(k)
    PROVE  SingleInv'
<1> DEFINE m == store[k].id
<1>1. /\ \A j \in Key : Stays(j)
      /\ store'[k].seen # "" /\ store'[k].id = store[k].id
  BY OriginalStays
<1>2. \A h \in WaitingFor(m) :
        /\ h \in Key /\ store[h].id \in Notif /\ store[h].st = "live"
        /\ store[h].seen # "" /\ Orig[store[h].id] = m
        /\ streams[<<"move", h>>] = 0
  BY SentForOnce
<1>3. Opened(m)'
  <2>1. \E j \in Key : store'[j].id = m /\ store'[j].seen # ""
    BY <1>1
  <2>2. QED
    BY <1>1, <2>1 DEF Opened
<1>4. /\ streams \in [Stream -> Nat] /\ streams[<<"parse", k>>] > 0
      /\ streams' = [s \in Stream |->
                       IF s = <<"parse", k>> THEN streams[s] - 1
                       ELSE IF s[1] = "move" /\ s[2] \in WaitingFor(m)
                            THEN streams[s] + 1
                            ELSE streams[s]]
  BY DEF ParseOriginal, TypeInv, TypeOK
<1>5. ASSUME NEW j \in Key
      PROVE  ReadFits(j)
  <2>1. /\ streams'[<<"check", j>>] = streams[<<"check", j>>]
        /\ streams'[<<"parse", j>>] > 0 => streams[<<"parse", j>>] > 0
    BY <1>4, StreamType
  <2>2. j \notin WaitingFor(m) => streams'[<<"move", j>>] = streams[<<"move", j>>]
    BY <1>4, StreamType
  <2>3. j \in WaitingFor(m) => streams'[<<"move", j>>] = 1
    <3>1. <<"move", j>> # <<"parse", k>> /\ <<"move", j>>[1] = "move" /\ <<"move", j>>[2] = j
      OBVIOUS
    <3>2. <<"move", j>> \in Stream
      BY StreamType
    <3>3. j \in WaitingFor(m) => streams'[<<"move", j>>] = streams[<<"move", j>>] + 1
      BY <1>4, <3>1, <3>2
    <3>4. j \in WaitingFor(m) => streams[<<"move", j>>] = 0
      BY <1>2
    <3>5. QED
      BY <3>3, <3>4
  <2>4. j \in WaitingFor(m) =>
          /\ store'[j].st = "live" /\ store'[j].seen # ""
          /\ \A n \in Notif : store'[j].id = n => Opened(Orig[n])'
    <3> SUFFICES ASSUME j \in WaitingFor(m), NEW n \in Notif, store'[j].id = n
                 PROVE  store'[j].st = "live" /\ store'[j].seen # "" /\ Opened(Orig[n])'
      BY <1>1, <1>2 DEF Stays
    <3>1. Stays(j) /\ store[j].st = "live" /\ store[j].seen # "" /\ Orig[store[j].id] = m
      BY <1>1, <1>2
    <3>2. Orig[n] = m
      BY <3>1 DEF Stays
    <3>3. \E i \in Key : store'[i].id = Orig[n] /\ store'[i].seen # ""
      BY <1>1, <3>2
    <3>4. Opened(Orig[n])'
      BY <3>3 DEF Opened
    <3>5. QED
      BY <3>1, <3>4 DEF Stays
  <2>5. QED
    BY <2>1, <2>2, <2>3, <2>4 DEF ReadFits
<1>6. NothingNoted
  BY OriginalEntries, EntriesNothing
<1>7. FlightFits
  BY FlightStays DEF ParseOriginal
<1>8. QED
  BY <1>1, <1>5, <1>6, <1>7, SingleStays
-----------------------------------------------------------------------------
(* A notification is moved, or not. *)

\* The copies that begin are those of a move, and no other is under way.
LEMMA CopiesBegin ==
    ASSUME TypeInv, NEW n \in Notif, NEW copies, copies \subseteq Copy,
           \A c, d \in copies : c = d /\ c.id = n, CopiesOf(n) = {},
           StartCopies(copies)
    PROVE  /\ \A c, d \in CopiesOf(n)' : c = d /\ pending'[c] = 1
           /\ copies = {} => CopiesOf(n)' = {}
           /\ \A c \in Copy : c.id # n => pending'[c] \in {0, pending[c]}
<1>1. pending \in [Copy -> Nat]
  BY DEF TypeInv, TypeOK
<1>2. \A c \in Copy : c.id = n => pending[c] = 0
  BY <1>1 DEF CopiesOf
<1>3. \A c \in Copy : pending'[c] = pending[c] + (IF c \in copies THEN 1 ELSE 0)
  BY DEF StartCopies
<1>4. \A c \in Copy : c \notin copies => pending'[c] = pending[c]
  BY <1>1, <1>3
<1>5. \A c \in copies : pending'[c] = 1
  BY <1>2, <1>3
<1>6. \A c \in CopiesOf(n)' : c \in copies
  BY <1>2, <1>4 DEF CopiesOf
<1>7. \A c \in Copy : c.id # n => pending'[c] = pending[c]
  BY <1>4
<1>8. QED
  BY <1>5, <1>6, <1>7

LEMMA SingleMoveNotification ==
    ASSUME TypeInv, SingleInv, NEW k \in Key, MoveNotification(k)
    PROVE  SingleInv'
<1>1. TypeOK /\ store[k].id \in Notif /\ streams[<<"move", k>>] > 0
  BY DEF TypeInv, MovesNotifications, MoveNotification
<1> SUFFICES ASSUME NEW n \in Notif, store[k].id = n
             PROVE  SingleInv'
  BY <1>1
<1> DEFINE sought == Bare(Orig[n])
<1>2. sought \in RowKey /\ Orig[n] \in Msg /\ sought[1] = Orig[n]
  BY <1>1, ConstantsAssumption DEF Bare, RowKey
<1>3. PICK out \in MoveOutcomes(store, k, sought, FALSE) :
        store' = out.store /\ StartCopies(out.copies)
  BY DEF MoveNotification
<1>4. store \in Stores /\ store[k].st = "live" /\ store[k].seen # ""
  BY <1>1 DEF SingleInv, ReadOnce, TypeOK, Stores
<1> HIDE DEF sought
<1>5. MovesOnce(store, k, sought, out) /\ Outcome(store, out)
  BY <1>1, <1>2, <1>3, <1>4, OutcomesOnce, MoveOutcomesType
<1>6. Filed(Orig[n]) <=> Find(store, Orig[n]) # {}
  BY <1>2, <1>4, FiledIsFound
<1>7. /\ store'[k].id = n /\ store'[k].seen = store[k].seen
      /\ \A j \in Key : j # k => store'[j] = store[j]
  BY <1>3, <1>5 DEF MovesOnce
<1>8. CopiesOf(n) = {}
  <2>1. k \in Live(store, n)
    BY <1>4 DEF Live
  <2>2. QED
    BY <1>1, <2>1 DEF SingleInv, OneMail
<1>9. /\ out.copies \subseteq Copy
      /\ \A c, d \in out.copies : c = d /\ c.id = n
  BY <1>5 DEF MovesOnce, Outcome
<1>10. MailMoves(k, n)
  <2>1. /\ \A c, d \in CopiesOf(n)' : c = d /\ pending'[c] = 1
        /\ out.copies = {} => CopiesOf(n)' = {}
        /\ \A c \in Copy : c.id # n => pending'[c] \in {0, pending[c]}
    BY <1>1, <1>3, <1>8, <1>9, CopiesBegin
  <2>2. \/ store'[k].st = "live" /\ out.copies = {}
        \/ store'[k].st = "gone" /\ Filed(Orig[n])
    BY <1>2, <1>3, <1>4, <1>5, <1>6 DEF MovesOnce
  <2>3. QED
    BY <2>1, <2>2 DEF MailMoves
<1>11. HeaderMoves(k, n)
  BY <1>4, <1>7, SameStays DEF HeaderMoves
<1>12. ReadsMove(k)
  <2>1. /\ \A j \in Key : ReadFits(j)
        /\ streams'[<<"move", k>>] = 0
    BY <1>1, ReadTaken, StreamType DEF MoveNotification
  <2>2. ~ (streams'[<<"move", k>>] > 0)
    BY <2>1
  <2>3. store'[k].seen # ""
    BY <1>4, <1>7
  <2>4. QED
    BY <2>1, <2>2, <2>3 DEF ReadsMove
<1>13. Unmarked(k)'
  BY <1>4, <1>7 DEF Unmarked
<1>14. UNCHANGED <<db, processed>>
  BY DEF MoveNotification
<1>15. \A x \in Notif : Noted(x)' => Noted(x)
  BY <1>14, SameNothing DEF NothingNoted
<1>16. QED
  BY <1>1, <1>10, <1>11, <1>12, <1>13, <1>14, <1>15, SingleMoves

LEMMA Forgotten ==
    ASSUME ForgetVolatile
    PROVE  /\ \A x \in Stream : ~ (streams'[x] > 0)
           /\ \A c \in Copy : pending'[c] = 0
           /\ \A n : CopiesOf(n)' = {}
<1>1. /\ \A x \in Stream : streams'[x] = 0
      /\ \A c \in Copy : pending'[c] = 0
  BY DEF ForgetVolatile
<1>2. \A x \in Stream : ~ (streams'[x] > 0)
  <2> SUFFICES ASSUME NEW x \in Stream PROVE ~ (streams'[x] > 0)
    OBVIOUS
  <2>1. streams'[x] = 0
    BY <1>1
  <2>2. QED
    BY <2>1
<1>3. ASSUME NEW n PROVE CopiesOf(n)' = {}
  <2>1. ASSUME NEW c \in CopiesOf(n)' PROVE FALSE
    <3>1. c \in Copy /\ pending'[c] > 0
      BY DEF CopiesOf
    <3>2. pending'[c] = 0
      BY <1>1, <3>1
    <3>3. QED
      BY <3>1, <3>2
  <2>2. QED
    BY <2>1
<1>4. QED
  BY <1>1, <1>2, <1>3

LEMMA SingleCrashInParse ==
    ASSUME TypeInv, SingleInv, NEW k \in Key, CrashInParse(k)
    PROVE  SingleInv'
<1>1. /\ TypeOK /\ store[k].id \in Notif /\ store[k].st = "live" /\ store[k].seen = ""
      /\ ForgetVolatile
  BY DEF TypeInv, CrashInParse
<1> SUFFICES ASSUME NEW n \in Notif, store[k].id = n
             PROVE  SingleInv'
  BY <1>1
<1> DEFINE failed == DSNFailed(n)
<1>2. /\ RowOf(n) \in RowKey /\ RowOf(n)[1] = Orig[n] /\ Orig[n] \in Msg /\ n \notin Msg
  BY RowOfType, ConstantsAssumption DEF RowOf, Bare
<1>3. PICK seen \in {"", "yes"} :
        \E out \in MoveOutcomes([store EXCEPT ![k].seen = seen], k, RowOf(n), failed) :
          store' = out.store
  BY DEF CrashInParse
<1> DEFINE read == [store EXCEPT ![k].seen = seen]
<1> HIDE DEF failed
<1>4. /\ read \in Stores
      /\ \A j \in Key : j # k => read[j] = store[j]
      /\ read[k].id = n /\ read[k].st = store[k].st /\ read[k].moveto = store[k].moveto
  <2>1. read \in Stores
    BY <1>1, SeenType
  <2>2. QED
    BY <1>1, <2>1, SeenHeader
<1> HIDE DEF read
<1>5. PICK out \in MoveOutcomes(read, k, RowOf(n), failed) : store' = out.store
  BY <1>3 DEF read
<1>6. MovesOnce(read, k, RowOf(n), out)
  BY <1>2, <1>4, <1>5, OutcomesOnce
<1>7. Filed(Orig[n]) <=> Find(read, Orig[n]) # {}
  <2>1. \A j \in Key : store[j].id = Orig[n] => read[j] = store[j]
    BY <1>2, <1>4
  <2>2. \A j \in Key : read[j].id = store[j].id
    BY <1>4
  <2>3. QED
    BY <1>2, <1>4, <2>1, <2>2, FiledIsFound
<1>8. store'[k].id = n /\ \A j \in Key : j # k => store'[j] = store[j]
  BY <1>4, <1>5, <1>6 DEF MovesOnce
<1>9. \/ store'[k].st = "live" /\ (store'[k].moveto \in {store[k].moveto, NoId}
                                      \/ ~ Filed(Orig[n]))
      \/ store'[k].st = "gone" /\ Filed(Orig[n])
  BY <1>1, <1>2, <1>4, <1>5, <1>6, <1>7 DEF MovesOnce
<1>10. MailMoves(k, n)
  <2>1. CopiesOf(n)' = {} /\ \A c \in Copy : pending'[c] = 0
    BY <1>1, Forgotten
  <2>2. QED
    BY <1>9, <2>1 DEF MailMoves
<1>11. HeaderMoves(k, n)
  BY <1>1, <1>8, SameStays DEF HeaderMoves
<1>12. ReadsMove(k)
  <2>1. \A x \in Stream : ~ (streams'[x] > 0)
    BY <1>1, Forgotten
  <2>2. QED
    BY <2>1, StreamType DEF ReadsMove, ReadFits
<1>13. db' = db /\ processed' = processed \cup {n}
  BY DEF CrashInParse
<1>14. \A x \in Notif : Noted(x)' => Noted(x)
  BY <1>13 DEF Noted
<1>15. Filed(Orig[n]) => Filed(Orig[n])'
  BY <1>2, <1>8 DEF Filed
<1>16. Unmarked(k)'
  <2>1. Noted(n) => store[k].moveto = NoId /\ Filed(Orig[n])
    BY <1>1 DEF SingleInv, Unmarked
  <2>2. Noted(n)' /\ store'[k].st = "live" => store'[k].moveto = NoId /\ Filed(Orig[n])'
    BY <1>9, <1>14, <1>15, <2>1
  <2>3. QED
    BY <1>8, <2>2 DEF Unmarked
<1>17. QED
  BY <1>10, <1>11, <1>12, <1>13, <1>14, <1>16, SingleMoves

\* Only the notification that is parsed gets a place in a row.
LEMMA ReportNotes ==
    ASSUME TypeInv, NEW k \in Key, ParseReport(k), NEW x \in Notif,
           x # store[k].id, Noted(x)'
    PROVE  Noted(x)
<1> DEFINE n == store[k].id
           rk == Bare(Orig[x])
<1>1. n \in Notif /\ RowOf(n) \in RowKey /\ rk \in RowKey /\ db \in [RowKey -> Data]
  BY ReportWritten, RowOfType, ConstantsAssumption DEF TypeInv, TypeOK, Bare, RowKey
<1>2. PICK e \in Recorded(db'[rk]) : e[1] = x
  BY DEF Noted
<1>3. UNCHANGED db \/ db' = [db EXCEPT ![RowOf(n)] = Reported(n).data]
  BY ReportWritten DEF Written
<1>4. Recorded(Reported(n).data) = Recorded(db[RowOf(n)]) \cup EntriesOf(n)
  BY <1>1, ReportedKeeps
<1>5. e \notin EntriesOf(n)
  BY <1>2 DEF EntriesOf
<1>6. db'[rk] = db[rk] \/ (rk = RowOf(n) /\ db'[rk] = Reported(n).data)
  BY <1>1, <1>3
<1>7. e \in Recorded(db[rk])
  BY <1>2, <1>4, <1>5, <1>6
<1>8. QED
  BY <1>2, <1>7 DEF Noted

LEMMA SingleParseReport ==
    ASSUME TypeInv, SingleInv, NEW k \in Key, ParseReport(k)
    PROVE  SingleInv'
<1>1. /\ TypeOK /\ store[k].id \in Notif /\ store[k].seen = ""
      /\ streams[<<"parse", k>>] > 0 /\ streams' = Take(streams, <<"parse", k>>)
  BY DEF TypeInv, ParseReport
<1> SUFFICES ASSUME NEW n \in Notif, store[k].id = n
             PROVE  SingleInv'
  BY <1>1
<1> DEFINE failed == DSNFailed(n)
           o == Reported(n)
           read == [store EXCEPT ![k].seen = "yes"]
           found == Find(read, Orig[n])
<1>2. /\ RowOf(n) \in RowKey /\ RowOf(n)[1] = Orig[n] /\ Orig[n] \in Msg /\ n \notin Msg
      /\ o \in Object
  BY RowOfType, ReportedKeeps, ConstantsAssumption DEF RowOf, Bare
<1>3. PICK out \in MoveOutcomes(read, k, RowOf(n), failed) :
        /\ SaveNotificationData(out.store, found, RowOf(n), o, n)
        /\ StartCopies(out.copies)
  BY DEF ParseReport, Reported
<1> HIDE DEF failed, o
<1>4. /\ read \in Stores
      /\ \A j \in Key : j # k => read[j] = store[j]
      /\ read[k].id = n /\ read[k].st = store[k].st /\ read[k].seen = "yes"
  <2> HIDE DEF found
  <2>1. read \in Stores
    BY <1>1, SeenType
  <2>2. QED
    BY <1>1, <2>1 DEF TypeOK, Header
<1> HIDE DEF read, found
<1>5. MovesOnce(read, k, RowOf(n), out) /\ Outcome(read, out)
  BY <1>2, <1>3, <1>4, OutcomesOnce, MoveOutcomesType
<1>6. SavedAs(out.store, found, o)
  <2>1. out.store \in Stores
    BY <1>5 DEF Outcome
  <2>2. QED
    BY <1>2, <1>3, <2>1, Saves
<1>7. Filed(Orig[n]) <=> Find(read, Orig[n]) # {}
  <2>1. \A j \in Key : store[j].id = Orig[n] => read[j] = store[j]
    BY <1>2, <1>4
  <2>2. \A j \in Key : read[j].id = store[j].id
    BY <1>4
  <2>3. QED
    BY <1>2, <1>4, <2>1, <2>2, FiledIsFound
<1>8. store[k].st = "live" /\ ~ (streams[<<"move", k>>] > 0)
  BY <1>1 DEF SingleInv, ReadOnce
<1>9. CopiesOf(n) = {}
  <2>1. k \in Live(store, n)
    BY <1>8 DEF Live
  <2>2. QED
    BY <2>1 DEF SingleInv, OneMail
<1>10. store'[k].id = n /\ store'[k].seen = "yes" /\ store'[k].st = out.store[k].st
  BY <1>4, <1>5, <1>6 DEF MovesOnce, SavedAs
<1>11. HeaderMoves(k, n)
  <2>1. ASSUME NEW j \in Key, j # k PROVE Stays(j)
    <3>1. out.store[j] = store[j]
      BY <1>4, <1>5, <2>1 DEF MovesOnce
    <3>2. QED
      BY <1>6, <3>1 DEF SavedAs, Stays
  <2>2. QED
    BY <1>1, <1>8, <1>10, <2>1 DEF HeaderMoves
<1>12. MailMoves(k, n)
  <2>1. /\ out.copies \subseteq Copy
        /\ \A c, d \in out.copies : c = d /\ c.id = n
    BY <1>4, <1>5 DEF MovesOnce, Outcome
  <2>2. /\ \A c, d \in CopiesOf(n)' : c = d /\ pending'[c] = 1
        /\ out.copies = {} => CopiesOf(n)' = {}
        /\ \A c \in Copy : c.id # n => pending'[c] \in {0, pending[c]}
    BY <1>3, <1>9, <2>1, CopiesBegin
  <2>3. \/ store'[k].st = "live" /\ out.copies = {}
        \/ store'[k].st = "gone" /\ Filed(Orig[n])
    BY <1>2, <1>4, <1>5, <1>7, <1>8, <1>10 DEF MovesOnce
  <2>4. QED
    BY <2>2, <2>3 DEF MailMoves
<1>13. ReadsMove(k)
  <2>1. \A j \in Key : ReadFits(j)
    BY <1>1, ReadTaken, StreamType
  <2>2. ~ (streams'[<<"move", k>>] > 0)
    BY <1>1, <1>8, StreamTaken, StreamType DEF NoNewMove
  <2>3. QED
    BY <1>10, <2>1, <2>2 DEF ReadsMove
<1>14. Unmarked(k)'
  BY <1>10 DEF Unmarked
<1>15. processed' = processed \cup {n}
  BY DEF ParseReport
<1>16. \A x \in Notif : x # n /\ Noted(x)' => Noted(x)
  BY ReportNotes
<1>17. QED
  BY <1>11, <1>12, <1>13, <1>14, <1>15, <1>16, SingleMoves
-----------------------------------------------------------------------------
(* The invariant, and the theorem *)

LEMMA SingleStep ==
    ASSUME Orderly, TypeInv, PlaceInv, LedgerSound, SingleInv, [Next]_vars
    PROVE  SingleInv'
<1>1. CASE UNCHANGED vars
  BY <1>1, SingleExpire DEF vars, history
<1>2. CASE \/ \E n \in Notif : Deliver(n)
           \/ \E m \in Msg, f \in Folder : FileSent(m, f)
           \/ \E x \in Stream : StreamFailed(x)
           \/ \E c \in Copy : CopyStopped(c) \/ CopyFailed(c) \/ RetryCopy(c)
  BY <1>2, SingleDeliver, SingleFileSent, SingleStreams, SingleCopyStopped,
     SingleCopyFailed
<1>3. CASE \E k \in Key : \/ HeaderChecked(k) \/ ParseRepeated(k) \/ ParseIgnored(k)
                          \/ ParseOriginal(k) \/ ParseReport(k) \/ MoveNotification(k)
                          \/ DisplayRow(k) \/ CrashInParse(k)
  BY <1>3, SingleHeaderChecked, SingleStreams, SingleParseIgnored, SingleParseOriginal,
     SingleParseReport, SingleMoveNotification, SingleDisplayRow, SingleCrashInParse
<1>4. CASE \/ \E k \in Key : UserPurges(k)
           \/ \E k \in Key, f \in Folder : UserMoves(k, f)
           \/ \E f \in Folder : RebuildIndex(f)
  BY <1>4 DEF UserPurges, UserMoves, RebuildIndex, Orderly
<1>5. CASE \E m \in Msg : Expire(m)
  BY <1>5, SingleExpire DEF Expire, history
<1>6. CASE FiveSecondsPass \/ CheckDelays \/ Crash
  BY <1>6, SingleFiveSeconds, SingleCheckDelays, SingleCrash
<1>7. QED
  BY <1>1, <1>2, <1>3, <1>4, <1>5, <1>6 DEF Next

LEMMA SingleInit == Init => SingleInv
<1> SUFFICES ASSUME Init PROVE SingleInv
  OBVIOUS
<1>1. NoHeader.id = NoId /\ NoHeader.st = "free"
  BY DEF NoHeader, FreshHeader
<1>2. \A k \in Key : store[k].id \notin Msg \cup Notif /\ store[k].st = "free"
  BY <1>1, ConstantsAssumption DEF Init
<1>3. \A x \in Stream : ~ (streams[x] > 0)
  BY DEF Init
<1>4. ASSUME NEW n \in Notif PROVE OneMail(n)
  <2>1. Live(store, n) = {} /\ n \notin processed
    BY <1>2 DEF Live, Init
  <2>2. CopiesOf(n) = {}
    BY DEF Init, CopiesOf
  <2>3. QED
    BY <2>1, <2>2 DEF OneMail
<1>5. ASSUME NEW k \in Key PROVE SentStays(k) /\ ReadOnce(k) /\ Unmarked(k)
  BY <1>2, <1>3, StreamType DEF SentStays, ReadOnce, Unmarked
<1>6. QED
  BY <1>4, <1>5 DEF SingleInv

LEMMA AtMostOne ==
    ASSUME NEW S, \A x, y \in S : x = y
    PROVE  Cardinality(S) \in {0, 1} /\ (S = {} => Cardinality(S) = 0)
<1>1. CASE S = {}
  BY <1>1, FS_EmptySet
<1>2. CASE S # {}
  <2>1. PICK x : S = {x}
    BY <1>2
  <2>2. QED
    BY <2>1, FS_Singleton
<1>3. QED
  BY <1>1, <1>2

LEMMA SingleIsOne == SingleInv => SingleCopy
<1> SUFFICES ASSUME SingleInv, NEW n \in Notif
             PROVE  /\ Cardinality(Live(store, n)) + Cardinality(CopiesOf(n)) <= 1
                    /\ \A c \in CopiesOf(n) : pending[c] = 1
  BY DEF SingleCopy
<1>1. OneMail(n)
  BY DEF SingleInv
<1>2. /\ Cardinality(Live(store, n)) \in {0, 1}
      /\ Live(store, n) = {} => Cardinality(Live(store, n)) = 0
  BY <1>1, AtMostOne DEF OneMail
<1>3. /\ Cardinality(CopiesOf(n)) \in {0, 1}
      /\ CopiesOf(n) = {} => Cardinality(CopiesOf(n)) = 0
  BY <1>1, AtMostOne DEF OneMail
<1>4. Live(store, n) = {} \/ CopiesOf(n) = {}
  BY <1>1 DEF OneMail
<1>5. Cardinality(Live(store, n)) + Cardinality(CopiesOf(n)) <= 1
  BY <1>2, <1>3, <1>4
<1>6. QED
  BY <1>1, <1>5 DEF OneMail

\* One message that arrives stays one message: it is never in two places, nor
\* in a folder while a copy of it is under way, whatever reads, retries,
\* faults and crashes there are, as long as the user touches no message, no
\* index is rebuilt, no original is in two folders and nothing comes twice.
THEOREM OneMessageStays == Orderly => (Spec => []SingleCopy)
<1> SUFFICES ASSUME Orderly PROVE Spec => []SingleCopy
  OBVIOUS
<1>1. TypeInv /\ PlaceInv /\ LedgerSound /\ SingleInv /\ [Next]_vars => SingleInv'
  BY SingleStep
<1>2. QED
  BY <1>1, PlaceAlways, LedgerIsSound, SingleInit, SingleIsOne, PTL DEF Spec
=============================================================================
