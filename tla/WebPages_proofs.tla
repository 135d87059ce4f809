--------------------------- MODULE WebPages_proofs ---------------------------
(***************************************************************************)
(* Proofs about WebPages, for any slots, bookings and people, and any      *)
(* number of requests under way.                                           *)
(***************************************************************************)
EXTENDS WebPages, TLAPS

-----------------------------------------------------------------------------
(* The inductive invariant. *)

HasBooked(who, s) ==
  \E b \in Booking : S!Exists(b) /\ bookings[b].slot = s /\ bookings[b].client = who

Published(who, s) == slots[s] # NoRow /\ slots[s].master = who

OwnBooking(v, b) ==
  v.role = "client" /\ b \in Booking /\ S!Exists(b) /\ bookings[b].client = v.who

(* What a page says to the visitor it was drawn for.                        *)
PageTrue(v) ==
  v.visitor # NoSession =>
    /\ \A s \in Slot : v.cells[s] = "booked" => HasBooked(v.visitor.who, s)
    /\ \A s \in Slot : v.cells[s] = "row" => Published(v.visitor.who, s)
    /\ v.kind = "checkout" => OwnBooking(v.visitor, v.of)

(* What a piece of a page says to whoever reads it.                         *)
PieceTrue(a, who) ==
  /\ a.kind = "booked" => a.at \in Slot /\ HasBooked(who, a.at)
  /\ a.kind = "row" => a.at \in Slot /\ Published(who, a.at)

(* What a request is about.                                                 *)
Possible(o) ==
  /\ o.op = "book" => o.arg \in Slot
  /\ o.op = "pay" => o.arg \in Booking /\ S!Exists(o.arg)
  /\ o.op = "publish" => o.arg \in S!StartTime

(* A button of the page that is still shown was pressed by whom the page    *)
(* was drawn for, unless it says that it was drawn for somebody else.       *)
AskedAs(o) ==
  page.visitor # NoSession /\ o.session # NoSession => SameVisitor(page.visitor, o.session)

AnswerInv(o) ==
  o.answer # NoAnswer =>
    IF Navigates(o) THEN o.answer \in WholePage /\ PageTrue(o.answer)
    ELSE /\ o.answer \in PieceOfPage
         /\ o.live /\ page.visitor # NoSession => PieceTrue(o.answer, page.visitor.who)

RightCall(o) ==
  /\ Possible(o)
  /\ o.live /\ ~Navigates(o) => AskedAs(o)
  /\ AnswerInv(o)

CallInv == \A k \in Connection, o \in Call \ {Idle} : calls[k] = o => RightCall(o)

LateInv ==
  \A o \in Call \ {Idle} :
    late = o => Possible(o) /\ ~Navigates(o) /\ o.session # NoSession

SessionInv == page.visitor # NoSession /\ session # NoSession => SameVisitor(page.visitor, session)

PageInv == \A v \in WholePage : page = v => PageTrue(v)

IInv == TypeOK /\ CallInv /\ LateInv /\ SessionInv /\ PageInv

-----------------------------------------------------------------------------
(* The bookings, by whatever step of SlotBooking. *)

StoreOK ==
  /\ clock \in S!Time
  /\ slots \in [Slot -> S!SlotRow \cup {NoRow}]
  /\ bookings \in [Booking -> S!BookingRow \cup {NoRow}]

(* Whose booking and whose slot it is never changes.                        *)
StoreGrows ==
  /\ \A b \in Booking : S!Exists(b) =>
       S!Exists(b)' /\ bookings'[b].slot = bookings[b].slot /\ bookings'[b].client = bookings[b].client
  /\ \A s \in Slot : slots[s] # NoRow => slots'[s] = slots[s]

(* The rows that move to another status keep everything else.               *)
LEMMA MovedRows ==
  ASSUME StoreOK, NEW X \in SUBSET Booking, \A b \in X : S!Exists(b),
         NEW target \in BookingStatus
  PROVE  /\ S!Moved(X, target) \in [Booking -> S!BookingRow \cup {NoRow}]
         /\ \A b \in Booking : S!Exists(b) =>
              /\ S!Moved(X, target)[b] # NoRow
              /\ S!Moved(X, target)[b].slot = bookings[b].slot
              /\ S!Moved(X, target)[b].client = bookings[b].client
<1>1. ASSUME NEW b \in X
      PROVE  /\ [bookings[b] EXCEPT !.status = target] \in S!BookingRow
             /\ [bookings[b] EXCEPT !.status = target].slot = bookings[b].slot
             /\ [bookings[b] EXCEPT !.status = target].client = bookings[b].client
  <2>1. bookings[b] \in S!BookingRow
    BY DEF StoreOK, S!Exists
  <2> QED
    BY <2>1 DEF S!BookingRow, S!BookingStatus, BookingStatus
<1> QED
  BY <1>1, WebPagesAssumption DEF S!Moved, StoreOK, S!Exists

LEMMA BookStep ==
  ASSUME StoreOK, NEW s \in Slot, NEW b \in Booking, NEW c \in Person, NEW now \in S!Time,
         S!Book(s, b, c, now)
  PROVE  StoreOK' /\ StoreGrows /\ HasBooked(c, s)'
<1> DEFINE row == [slot |-> s, client |-> c, status |-> "pending", created |-> now]
           moved == S!Moved(S!ActiveOn(s), "expired")
<1>1. /\ bookings' = [moved EXCEPT ![b] = row]
      /\ ~S!Exists(b)
      /\ UNCHANGED <<clock, slots>>
  BY DEF S!Book
<1>2. S!ActiveOn(s) \in SUBSET Booking /\ \A a \in S!ActiveOn(s) : S!Exists(a)
  BY DEF S!ActiveOn
<1>3. row \in S!BookingRow /\ row.slot = s /\ row.client = c
  BY DEF S!BookingRow, S!BookingStatus
<1> HIDE DEF row
<1>4. /\ moved \in [Booking -> S!BookingRow \cup {NoRow}]
      /\ \A a \in Booking : S!Exists(a) =>
           /\ moved[a] # NoRow /\ moved[a].slot = bookings[a].slot
           /\ moved[a].client = bookings[a].client
  BY <1>2, MovedRows DEF BookingStatus
<1> HIDE DEF moved
<1>5. StoreOK'
  BY <1>1, <1>3, <1>4 DEF StoreOK
<1>6. StoreGrows
  BY <1>1, <1>4 DEF StoreGrows, S!Exists
<1>7. HasBooked(c, s)'
  BY <1>1, <1>3, <1>4, WebPagesAssumption DEF HasBooked, S!Exists
<1> QED
  BY <1>5, <1>6, <1>7

LEMMA CreateStep ==
  ASSUME StoreOK, NEW s \in Slot, NEW m \in Person, NEW t \in S!StartTime, S!CreateSlot(s, m, t)
  PROVE  StoreOK' /\ StoreGrows /\ Published(m, s)'
<1>1. /\ slots' = [slots EXCEPT ![s] = [master |-> m, startsAt |-> t]]
      /\ slots[s] = NoRow /\ UNCHANGED <<clock, bookings>>
  BY DEF S!CreateSlot
<1>2. [master |-> m, startsAt |-> t] \in S!SlotRow
  BY DEF S!SlotRow
<1> QED
  BY <1>1, <1>2, WebPagesAssumption DEF StoreOK, StoreGrows, Published, S!Exists

LEMMA OthersStep ==
  ASSUME StoreOK, S!Next
  PROVE  StoreOK' /\ StoreGrows
<1>1. CASE S!Tick
  BY <1>1, WebPagesAssumption DEF S!Tick, S!Time, StoreOK, StoreGrows, S!Exists
<1>2. ASSUME NEW b \in Booking, NEW target \in {"confirmed", "cancelled"}, S!ChangeStatus(b, target)
      PROVE  StoreOK' /\ StoreGrows
  <2>1. bookings' = S!Moved({b}, target) /\ S!Exists(b) /\ UNCHANGED <<clock, slots>>
    BY <1>2 DEF S!ChangeStatus
  <2>2. {b} \in SUBSET Booking /\ target \in BookingStatus
    BY DEF BookingStatus
  <2>3. bookings' \in [Booking -> S!BookingRow \cup {NoRow}]
    BY <2>1, <2>2, MovedRows
  <2>4. \A a \in Booking : S!Exists(a) =>
          /\ bookings'[a] # NoRow /\ bookings'[a].slot = bookings[a].slot
          /\ bookings'[a].client = bookings[a].client
    BY <2>1, <2>2, MovedRows
  <2> QED
    BY <2>1, <2>3, <2>4 DEF StoreOK, StoreGrows, S!Exists
<1> QED
  BY <1>1, <1>2, BookStep, CreateStep DEF S!Next

(* What was true stays true.                                                *)
LEMMA FactsKept ==
  ASSUME StoreGrows, NEW who, NEW s \in Slot
  PROVE  /\ HasBooked(who, s) => HasBooked(who, s)'
         /\ Published(who, s) => Published(who, s)'
  BY DEF StoreGrows, HasBooked, Published

LEMMA PageKept ==
  ASSUME StoreGrows, NEW v, PageTrue(v)
  PROVE  PageTrue(v)'
  BY FactsKept DEF PageTrue, OwnBooking, StoreGrows

LEMMA PossibleKept ==
  ASSUME StoreGrows, NEW o, Possible(o)
  PROVE  Possible(o)'
  BY DEF StoreGrows, Possible

LEMMA PieceKept ==
  ASSUME StoreGrows, NEW a, NEW who, PieceTrue(a, who)
  PROVE  PieceTrue(a, who)'
  BY FactsKept DEF PieceTrue

-----------------------------------------------------------------------------
(* What booking does with a request, and what it answers. *)

(* An answer that is right about request o.                                 *)
RightAnswer(o, a) ==
  IF Navigates(o) THEN a \in WholePage /\ PageTrue(a)
  ELSE a \in PieceOfPage /\ PieceTrue(a, o.session.who)

LEMMA PlainPageFacts ==
  ASSUME NEW kind \in {"none", "login", "problem"}
  PROVE  PlainPage(kind) \in WholePage /\ PageTrue(PlainPage(kind))
  BY DEF PlainPage, Page, WholePage, Blank, Cell, PageTrue

LEMMA WhoseType ==
  ASSUME NEW o \in Call, o.session # NoSession
  PROVE  Whose(o) \in Visitor /\ o.session \in Session /\ o.session.who \in Person
  BY DEF Call, Session, Whose, Visitor

LEMMA ListStep ==
  ASSUME StoreOK, NEW o \in Call, o.session # NoSession, NEW k, MasterSlots(o, k) \/ MySlots(o, k)
  PROVE  StoreOK' /\ StoreGrows /\ \E a : Answer(k, a) /\ RightAnswer(o, a)'
<1>1. UNCHANGED store /\ StoreOK' /\ StoreGrows /\ Navigates(o)
  BY DEF MasterSlots, MySlots, Navigates, store, StoreOK, StoreGrows, S!Exists
<1>2. Whose(o) \in Visitor /\ Whose(o).who = o.session.who
  BY WhoseType DEF Whose
<1>3. CASE MasterSlots(o, k)
  <2> DEFINE cells == [s \in Slot |-> IF ~Listed(s, o.arg) THEN "none"
                                      ELSE IF Available(s) THEN "free" ELSE "taken"]
             a == Page("slots", Whose(o), cells, NoRow)
  <2>1. cells \in [Slot -> {"none", "free", "taken"}]
    OBVIOUS
  <2>2. Answer(k, a)
    BY <1>3 DEF MasterSlots
  <2> HIDE DEF cells
  <2>3. a \in WholePage
    BY <1>2, <2>1 DEF Page, WholePage, Cell
  <2>4. PICK b : b = a
    OBVIOUS
  <2>5. b.cells \in [Slot -> {"none", "free", "taken"}] /\ b.kind = "slots"
    BY <2>1, <2>4 DEF Page
  <2>6. PageTrue(b)'
    BY <2>5 DEF PageTrue
  <2> QED
    BY <1>1, <2>2, <2>3, <2>4, <2>6 DEF RightAnswer
<1>4. CASE MySlots(o, k)
  <2> DEFINE cells == [s \in Slot |-> IF Listed(s, o.session.who) THEN "row" ELSE "none"]
             a == Page("mine", Whose(o), cells, NoRow)
  <2>1. cells \in [Slot -> {"row", "none"}]
    OBVIOUS
  <2>2. \A s \in Slot : cells[s] = "row" => Published(o.session.who, s)
    BY DEF Listed, Published
  <2>3. Answer(k, a)
    BY <1>4 DEF MySlots
  <2> HIDE DEF cells
  <2>4. a \in WholePage
    BY <1>2, <2>1 DEF Page, WholePage, Cell
  <2>5. PICK b : b = a
    OBVIOUS
  <2>6. b.cells = cells /\ b.kind = "mine" /\ b.visitor.who = o.session.who
    BY <1>2, <2>5 DEF Page
  <2>7. PageTrue(b)
    BY <2>1, <2>2, <2>6 DEF PageTrue
  <2>8. PageTrue(b)'
    BY <1>1, <2>7, PageKept
  <2> QED
    BY <1>1, <2>3, <2>4, <2>5, <2>8 DEF RightAnswer
<1> QED
  BY <1>3, <1>4

(* The three requests that act.                                             *)
LEMMA ActStep ==
  ASSUME StoreOK, NEW o \in Call, o.session # NoSession, Possible(o), NEW k,
         Book(o, k) \/ PublishSlot(o, k) \/ Pay(o, k)
  PROVE  StoreOK' /\ StoreGrows /\ \E a : Answer(k, a) /\ RightAnswer(o, a)'
<1>1. o.session.who \in Person /\ Whose(o) \in Visitor
  BY WhoseType
<1>2. CASE Book(o, k)
  <2>1. ~Navigates(o) /\ o.arg \in Slot
    BY <1>2 DEF Book, Navigates, Possible
  <2>2. ASSUME NEW b \in Booking, S!Book(o.arg, b, o.session.who, clock), Answer(k, Piece(o.arg, "booked"))
        PROVE  StoreOK' /\ StoreGrows /\ \E a : Answer(k, a) /\ RightAnswer(o, a)'
    <3>1. clock \in S!Time
      BY DEF StoreOK
    <3>2. StoreOK' /\ StoreGrows /\ HasBooked(o.session.who, o.arg)'
      BY <1>1, <2>1, <2>2, <3>1, BookStep
    <3>3. PICK a : a = Piece(o.arg, "booked")
      OBVIOUS
    <3>4. a \in PieceOfPage /\ a.kind = "booked" /\ a.at = o.arg
      BY <2>1, <3>3 DEF Piece, PieceOfPage
    <3>5. RightAnswer(o, a)'
      BY <2>1, <3>2, <3>4 DEF RightAnswer, PieceTrue
    <3> QED
      BY <2>2, <3>2, <3>3, <3>5
  <2>3. ASSUME UNCHANGED store, Answer(k, Piece(o.arg, "problem"))
        PROVE  StoreOK' /\ StoreGrows /\ \E a : Answer(k, a) /\ RightAnswer(o, a)'
    <3>1. StoreOK' /\ StoreGrows
      BY <2>3 DEF store, StoreOK, StoreGrows, S!Exists
    <3>2. PICK a : a = Piece(o.arg, "problem")
      OBVIOUS
    <3>3. a \in PieceOfPage /\ a.kind = "problem"
      BY <2>1, <3>2 DEF Piece, PieceOfPage
    <3>4. RightAnswer(o, a)'
      BY <2>1, <3>3 DEF RightAnswer, PieceTrue
    <3> QED
      BY <2>3, <3>1, <3>2, <3>4
  <2> QED
    BY <1>2, <2>2, <2>3 DEF Book
<1>3. CASE PublishSlot(o, k)
  <2>1. ~Navigates(o) /\ o.arg \in S!StartTime
    BY <1>3 DEF PublishSlot, Navigates, Possible
  <2>2. ASSUME NEW s \in Slot, S!CreateSlot(s, o.session.who, o.arg), Answer(k, Piece(s, "row"))
        PROVE  StoreOK' /\ StoreGrows /\ \E a : Answer(k, a) /\ RightAnswer(o, a)'
    <3>1. StoreOK' /\ StoreGrows /\ Published(o.session.who, s)'
      BY <1>1, <2>1, <2>2, CreateStep
    <3>2. PICK a : a = Piece(s, "row")
      OBVIOUS
    <3>3. a \in PieceOfPage /\ a.kind = "row" /\ a.at = s
      BY <3>2 DEF Piece, PieceOfPage
    <3>4. RightAnswer(o, a)'
      BY <2>1, <3>1, <3>3 DEF RightAnswer, PieceTrue
    <3> QED
      BY <2>2, <3>1, <3>2, <3>4
  <2>3. ASSUME UNCHANGED store, Answer(k, Piece(NoRow, "problem"))
        PROVE  StoreOK' /\ StoreGrows /\ \E a : Answer(k, a) /\ RightAnswer(o, a)'
    <3>1. StoreOK' /\ StoreGrows
      BY <2>3 DEF store, StoreOK, StoreGrows, S!Exists
    <3>2. PICK a : a = Piece(NoRow, "problem")
      OBVIOUS
    <3>3. a \in PieceOfPage /\ a.kind = "problem"
      BY <3>2 DEF Piece, PieceOfPage
    <3>4. RightAnswer(o, a)'
      BY <2>1, <3>3 DEF RightAnswer, PieceTrue
    <3> QED
      BY <2>3, <3>1, <3>2, <3>4
  <2> QED
    BY <1>3, <2>2, <2>3 DEF PublishSlot
<1>4. CASE Pay(o, k)
  <2>1. /\ Navigates(o) /\ o.arg \in Booking /\ UNCHANGED store
        /\ StoreOK' /\ StoreGrows
    BY <1>4 DEF Pay, Navigates, Possible, store, StoreOK, StoreGrows, S!Exists
  <2>2. CASE Answer(k, PlainPage("problem"))
    <3>1. PICK a : a = PlainPage("problem")
      OBVIOUS
    <3>2. a \in WholePage /\ PageTrue(a)
      BY <3>1, PlainPageFacts
    <3>3. PageTrue(a)'
      BY <2>1, <3>2, PageKept
    <3> QED
      BY <2>1, <2>2, <3>1, <3>2, <3>3 DEF RightAnswer
  <2>3. CASE Payable(o) /\ Answer(k, Page("checkout", Whose(o), Blank, o.arg))
    <3>1. PICK a : a = Page("checkout", Whose(o), Blank, o.arg)
      OBVIOUS
    <3>2. /\ a \in WholePage /\ a.cells = Blank /\ a.of = o.arg
          /\ a.visitor = [who |-> o.session.who, role |-> o.session.role]
      BY <1>1, <2>1, <3>1 DEF Page, WholePage, Blank, Cell, Whose
    <3>3. o.session.role = "client" /\ S!Exists(o.arg) /\ bookings[o.arg].client = o.session.who
      BY <1>4, <2>3 DEF Payable, As, Pay, Possible
    <3>4. PageTrue(a)
      BY <2>1, <3>2, <3>3 DEF PageTrue, Blank, OwnBooking
    <3>5. PageTrue(a)'
      BY <2>1, <3>4, PageKept
    <3> QED
      BY <2>1, <2>3, <3>1, <3>2, <3>5 DEF RightAnswer
  <2> QED
    BY <1>4, <2>2, <2>3 DEF Pay
<1> QED
  BY <1>2, <1>3, <1>4

-----------------------------------------------------------------------------
(* Steps. *)

(* What happens to the page of others leaves a call right: the page stays,  *)
(* or it forgets who it was drawn for.                                      *)
LEMMA CallKept ==
  ASSUME StoreGrows, NEW o, RightCall(o),
         page'.visitor # NoSession => page'.visitor = page.visitor
  PROVE  RightCall(o)'
<1>1. Possible(o)'
  BY PossibleKept DEF RightCall
<1>2. AskedAs(o) => AskedAs(o)'
  BY DEF AskedAs, SameVisitor
<1>3. PICK w : w = page'.visitor.who
  OBVIOUS
<1>4. ASSUME o.answer # NoAnswer, Navigates(o) PROVE o.answer \in WholePage /\ PageTrue(o.answer)'
  BY <1>4, PageKept DEF RightCall, AnswerInv
<1>5. ASSUME o.answer # NoAnswer, ~Navigates(o) PROVE o.answer \in PieceOfPage
  BY <1>5 DEF RightCall, AnswerInv
<1>6. ASSUME o.answer # NoAnswer, ~Navigates(o), o.live, page'.visitor # NoSession
      PROVE  PieceTrue(o.answer, w)'
  <2>1. PieceTrue(o.answer, w)
    BY <1>3, <1>6 DEF RightCall, AnswerInv
  <2> QED
    BY <2>1, PieceKept
<1>7. AnswerInv(o)'
  <2>1. Navigates(o)' <=> Navigates(o)
    BY DEF Navigates
  <2>2. ASSUME o.answer # NoAnswer, ~Navigates(o), o.live, page'.visitor # NoSession
        PROVE  PieceTrue(o.answer, page.visitor.who)'
    BY <1>3, <1>6, <2>2 DEF PieceTrue, HasBooked, Published
  <2> QED
    BY <1>4, <1>5, <2>1, <2>2 DEF AnswerInv
<1> QED
  BY <1>1, <1>2, <1>7 DEF RightCall, Navigates

LEMMA CallsKept ==
  ASSUME CallInv, StoreGrows, UNCHANGED calls,
         page'.visitor # NoSession => page'.visitor = page.visitor
  PROVE  CallInv'
  BY CallKept DEF CallInv

LEMMA LateKept ==
  ASSUME LateInv, StoreGrows, UNCHANGED late
  PROVE  LateInv'
  BY PossibleKept DEF LateInv, Navigates

LEMMA SamePage ==
  ASSUME PageInv, StoreGrows, UNCHANGED page
  PROVE  PageInv'
  BY PageKept DEF PageInv

(* An answer is given: it is right about its own request.                   *)
LEMMA AnswerStep ==
  ASSUME IInv, StoreGrows, UNCHANGED <<session, page>>,
         NEW k \in Connection, NEW o \in Call \ {Idle}, calls[k] = o, o.answer = NoAnswer,
         NEW a, Answer(k, a),
         IF Navigates(o) THEN a \in WholePage /\ PageTrue(a)'
         ELSE /\ a \in PieceOfPage
              /\ \/ a.kind \notin {"booked", "row"}
                 \/ o.session # NoSession /\ PieceTrue(a, o.session.who)'
  PROVE  CallInv' /\ calls' \in [Connection -> Call \cup {Idle}]
<1> TypeOK /\ CallInv
  BY DEF IInv
<1>2. calls' = [calls EXCEPT ![k] = [o EXCEPT !.answer = a, !.session = NoSession]]
  BY DEF Answer, TypeOK
<1>3. PICK n : n = [o EXCEPT !.answer = a, !.session = NoSession]
  OBVIOUS
<1>4. a \in WholePage \cup PieceOfPage
  OBVIOUS
<1>5. /\ n \in Call /\ n.op = o.op /\ n.arg = o.arg /\ n.live = o.live
      /\ n.answer = a /\ n.session = NoSession
  BY <1>3, <1>4, Zenon DEF Call
<1>6. calls' = [calls EXCEPT ![k] = n]
  BY <1>2, <1>3
<1>7. calls' \in [Connection -> Call \cup {Idle}] /\ calls'[k] = n
  BY <1>5, <1>6 DEF TypeOK
<1>8. RightCall(o)
  BY DEF CallInv
<1>9. PICK w : w = page.visitor.who
  OBVIOUS
<1>10. ASSUME ~Navigates(o), o.live, page.visitor # NoSession PROVE PieceTrue(a, w)'
  <2>1. CASE a.kind \notin {"booked", "row"}
    BY <2>1 DEF PieceTrue
  <2>2. CASE o.session # NoSession /\ PieceTrue(a, o.session.who)'
    <3>1. o.session.who = w
      BY <1>8, <1>9, <1>10, <2>2 DEF RightCall, AskedAs, SameVisitor
    <3> QED
      BY <2>2, <3>1
  <2> QED
    BY <1>10, <2>1, <2>2
<1>11. RightCall(n)'
  <2>1. Possible(n)'
    BY <1>5, <1>8, PossibleKept DEF RightCall, Possible
  <2>2. AskedAs(n)'
    BY <1>5 DEF AskedAs
  <2>3. Navigates(n)' <=> Navigates(o)
    BY <1>5 DEF Navigates
  <2>4. AnswerInv(n)'
    BY <1>5, <1>9, <1>10, <2>3 DEF AnswerInv, PieceTrue, HasBooked, Published
  <2> QED
    BY <2>1, <2>2, <2>4 DEF RightCall
<1>12. ASSUME NEW j \in Connection, NEW m \in Call \ {Idle}, calls'[j] = m PROVE RightCall(m)'
  <2>1. CASE j = k
    BY <1>7, <1>11, <1>12, <2>1
  <2>2. CASE j # k
    <3>1. RightCall(m)
      BY <1>6, <1>12, <2>2 DEF CallInv, TypeOK
    <3> QED
      BY <3>1, CallKept
  <2> QED
    BY <2>1, <2>2
<1> QED
  BY <1>7, <1>12 DEF CallInv

CallsOK == calls \in [Connection -> Call \cup {Idle}]

(* A request is sent with the cookies of the moment.                        *)
LEMMA SendStep ==
  ASSUME IInv, NEW op \in {"slots", "mine", "pay", "book", "publish"},
         NEW arg \in Person \cup Booking \cup Slot \cup S!StartTime \cup {NoRow},
         op = "book" => arg \in Slot,
         op = "pay" => arg \in Booking /\ S!Exists(arg),
         op = "publish" => arg \in S!StartTime,
         Send(op, arg)
  PROVE  IInv'
<1> TypeOK
  BY DEF IInv
<1>1. UNCHANGED <<store, page, late>> /\ session' = Cookies
  BY DEF Send
<1>2. PICK n : n = [op |-> op, arg |-> arg, session |-> Cookies, live |-> TRUE, answer |-> NoAnswer]
  OBVIOUS
<1>3. PICK k \in Connection : calls' = [calls EXCEPT ![k] = n]
  BY <1>2 DEF Send
<1>4. session' \in Session \cup {NoSession} /\ (session' # NoSession => session' = session)
  BY <1>1 DEF Cookies, TypeOK
<1>5. /\ n \in Call /\ n.op = op /\ n.arg = arg /\ n.session = session'
      /\ n.answer = NoAnswer
  BY <1>1, <1>2, <1>4 DEF Call
<1>6. StoreGrows
  BY <1>1 DEF store, StoreGrows, S!Exists
<1>7. RightCall(n)'
  <2>1. Possible(n)'
    BY <1>1, <1>5 DEF Possible, store, S!Exists
  <2>2. AskedAs(n)'
    BY <1>1, <1>4, <1>5 DEF AskedAs, IInv, SessionInv
  <2> QED
    BY <1>5, <2>1, <2>2 DEF RightCall, AnswerInv
<1>8. CallInv'
  <2> SUFFICES ASSUME NEW j \in Connection, NEW m \in Call \ {Idle}, calls'[j] = m
               PROVE  RightCall(m)'
    BY DEF CallInv
  <2>1. CASE j = k
    BY <1>3, <1>7, <2>1 DEF TypeOK
  <2>2. CASE j # k
    <3>1. RightCall(m)
      BY <1>3, <2>2 DEF IInv, CallInv, TypeOK
    <3> QED
      BY <1>1, <1>6, <3>1, CallKept
  <2> QED
    BY <2>1, <2>2
<1>9. TypeOK'
  BY <1>1, <1>3, <1>4, <1>5 DEF TypeOK, store
<1>10. SessionInv'
  BY <1>1, <1>4 DEF IInv, SessionInv
<1>11. LateInv' /\ PageInv'
  BY <1>1, <1>6, LateKept, SamePage DEF IInv
<1> QED
  BY <1>8, <1>9, <1>10, <1>11 DEF IInv

LEMMA BrowserStep ==
  ASSUME IInv,
         \/ \E m \in Person : Visit("slots", m)
         \/ Visit("mine", NoRow)
         \/ \E b \in Booking : S!Exists(b) /\ Visit("pay", b)
         \/ \E s \in Slot : PressBook(s)
         \/ \E startsAt \in S!StartTime : PressPublish(startsAt)
  PROVE  IInv'
<1>1. ASSUME NEW m \in Person, Visit("slots", m) PROVE IInv'
  BY <1>1, SendStep DEF Visit
<1>2. CASE Visit("mine", NoRow)
  BY <1>2, SendStep DEF Visit
<1>3. ASSUME NEW b \in Booking, S!Exists(b), Visit("pay", b) PROVE IInv'
  BY <1>3, SendStep DEF Visit
<1>4. ASSUME NEW s \in Slot, PressBook(s) PROVE IInv'
  BY <1>4, SendStep DEF PressBook
<1>5. ASSUME NEW startsAt \in S!StartTime, PressPublish(startsAt) PROVE IInv'
  BY <1>5, SendStep DEF PressPublish
<1> QED
  BY <1>1, <1>2, <1>3, <1>4, <1>5

(* Somebody logs in or out, in whichever tab, or acts elsewhere.            *)
LEMMA ElsewhereStep ==
  ASSUME IInv,
         \/ Others
         \/ Logout \/ LoginRefused \/ \E who \in Person, role \in Role : Login(who, role)
  PROVE  IInv'
<1> TypeOK
  BY DEF IInv
<1>1. CASE Others
  <2>1. StoreOK' /\ StoreGrows /\ UNCHANGED <<session, page, calls, late>>
    BY <1>1, OthersStep DEF Others, TypeOK, StoreOK
  <2>2. TypeOK' /\ SessionInv'
    BY <2>1 DEF TypeOK, StoreOK, IInv, SessionInv
  <2> QED
    BY <2>1, <2>2, CallsKept, LateKept, SamePage DEF IInv
<1>2. CASE Logout \/ LoginRefused
  <2>1. StoreGrows /\ UNCHANGED <<store, page, calls, late>> /\ session' = NoSession
    BY <1>2 DEF Logout, LoginRefused, ForgetCookies, store, StoreGrows, S!Exists
  <2>2. TypeOK' /\ SessionInv'
    BY <2>1 DEF TypeOK, store, SessionInv
  <2> QED
    BY <2>1, <2>2, CallsKept, LateKept, SamePage DEF IInv
<1>3. ASSUME NEW who \in Person, NEW role \in Role, Login(who, role) PROVE IInv'
  <2>1. /\ session' = [who |-> who, role |-> role, until |-> clock + SessionLifetime]
        /\ page' = [page EXCEPT !.visitor = DrawnFor(page.visitor, session')]
        /\ UNCHANGED <<store, calls, late>>
    BY <1>3 DEF Login
  <2>2. session' \in Session
    <3>1. clock + SessionLifetime \in 1 .. (MaxTime + SessionLifetime)
      BY WebPagesAssumption DEF TypeOK, S!Time
    <3> QED
      BY <2>1, <3>1 DEF Session
  <2>3. PICK d : d = DrawnFor(page.visitor, session')
    OBVIOUS
  <2>4. /\ d \in {page.visitor, NoSession}
        /\ d # NoSession /\ session' # NoSession => SameVisitor(d, session')
    BY <2>3 DEF DrawnFor
  <2>5. /\ page' \in WholePage /\ page'.visitor = d /\ page'.cells = page.cells
        /\ page'.kind = page.kind /\ page'.of = page.of
    BY <2>1, <2>3, <2>4 DEF TypeOK, WholePage
  <2>6. StoreGrows
    BY <2>1 DEF store, StoreGrows, S!Exists
  <2>7. TypeOK'
    BY <2>1, <2>2, <2>5 DEF TypeOK, store
  <2>8. SessionInv'
    BY <2>4, <2>5 DEF SessionInv
  <2>9. PageInv'
    <3> SUFFICES ASSUME NEW v \in WholePage, page' = v PROVE PageTrue(v)'
      BY DEF PageInv
    <3>1. PageTrue(v)
      BY <2>4, <2>5 DEF IInv, PageInv, PageTrue, TypeOK
    <3> QED
      BY <2>6, <3>1, PageKept
  <2> QED
    BY <2>1, <2>4, <2>5, <2>6, <2>7, <2>8, <2>9, CallsKept, LateKept DEF IInv
<1> QED
  BY <1>1, <1>2, <1>3

(* Whatever booking does with a request.                                    *)
LEMMA DoesStep ==
  ASSUME TypeOK, NEW o \in Call, o.session # NoSession, Possible(o), NEW k, Does(o, k)
  PROVE  StoreOK' /\ StoreGrows /\ \E a : Answer(k, a) /\ RightAnswer(o, a)'
<1>1. StoreOK
  BY DEF TypeOK, StoreOK
<1> QED
  BY <1>1, ListStep, ActStep DEF Does

(* An answer that tells of nothing that was done.                           *)
LEMMA InsteadFacts ==
  ASSUME TypeOK, NEW o \in Call, Possible(o), NEW what \in {"login", "problem"}
  PROVE  IF Navigates(o) THEN Instead(o, what) \in WholePage /\ PageTrue(Instead(o, what))
         ELSE Instead(o, what) \in PieceOfPage /\ Instead(o, what).kind \notin {"booked", "row"}
<1>1. CASE Navigates(o)
  BY <1>1, PlainPageFacts DEF Instead
<1>2. CASE ~Navigates(o)
  BY <1>2 DEF Instead, Piece, PieceOfPage, Possible
<1> QED
  BY <1>1, <1>2

LEMMA ServeStep ==
  ASSUME IInv, NEW k \in Connection, TurnAway(k) \/ Serve(k) \/ TimeOut(k)
  PROVE  IInv'
<1> TypeOK
  BY DEF IInv
<1>1. PICK o \in Call \ {Idle} : calls[k] = o /\ o.answer = NoAnswer
  BY DEF TurnAway, Serve, TimeOut, Unanswered, TypeOK
<1>2. Possible(o)
  BY <1>1 DEF IInv, CallInv, RightCall
<1>3. UNCHANGED <<session, page>>
  BY DEF TurnAway, Serve, TimeOut
<1>4. ASSUME StoreOK', StoreGrows, CallInv', calls' \in [Connection -> Call \cup {Idle}],
             LateInv', late' \in Call \cup {Idle}
      PROVE  IInv'
  BY <1>3, <1>4, SamePage DEF IInv, TypeOK, StoreOK, SessionInv
<1>5. ASSUME NEW what \in {"login", "problem"}, Answer(k, Instead(o, what)), UNCHANGED store
      PROVE  StoreOK' /\ StoreGrows /\ CallInv' /\ calls' \in [Connection -> Call \cup {Idle}]
  <2>1. StoreOK' /\ StoreGrows
    BY <1>5 DEF store, StoreOK, TypeOK, StoreGrows, S!Exists
  <2>2. PICK a : a = Instead(o, what)
    OBVIOUS
  <2>3. IF Navigates(o) THEN a \in WholePage /\ PageTrue(a)
        ELSE a \in PieceOfPage /\ a.kind \notin {"booked", "row"}
    BY <1>2, <2>2, InsteadFacts
  <2>4. Navigates(o) => PageTrue(a)'
    BY <2>1, <2>3, PageKept
  <2>5. Answer(k, a)
    BY <1>5, <2>2
  <2> QED
    BY <1>1, <1>3, <2>1, <2>3, <2>4, <2>5, AnswerStep
<1>6. CASE TurnAway(k)
  <2>1. Answer(k, Instead(o, "login")) /\ UNCHANGED <<store, late>>
    BY <1>1, <1>6 DEF TurnAway
  <2>2. StoreOK' /\ StoreGrows /\ CallInv' /\ calls' \in [Connection -> Call \cup {Idle}]
    BY <1>5, <2>1
  <2> QED
    BY <1>4, <2>1, <2>2, LateKept DEF IInv, TypeOK
<1>7. CASE Serve(k)
  <2>1. o.session # NoSession /\ Does(o, k) /\ UNCHANGED late
    BY <1>1, <1>7 DEF Serve
  <2>2. StoreOK' /\ StoreGrows
    BY <1>2, <2>1, DoesStep
  <2>3. PICK a : Answer(k, a) /\ RightAnswer(o, a)'
    BY <1>2, <2>1, DoesStep
  <2>4. IF Navigates(o) THEN a \in WholePage /\ PageTrue(a)'
        ELSE a \in PieceOfPage /\ PieceTrue(a, o.session.who)'
    BY <2>3 DEF RightAnswer, Navigates
  <2>5. CallInv' /\ calls' \in [Connection -> Call \cup {Idle}]
    BY <1>1, <1>3, <2>1, <2>2, <2>3, <2>4, AnswerStep
  <2> QED
    BY <1>4, <2>1, <2>2, <2>5, LateKept DEF IInv, TypeOK
<1>8. CASE TimeOut(k)
  <2>1. /\ o.session # NoSession /\ Answer(k, Instead(o, "problem")) /\ UNCHANGED store
        /\ UNCHANGED late \/ (~Navigates(o) /\ late' = [o EXCEPT !.live = FALSE])
    BY <1>1, <1>8 DEF TimeOut
  <2>2. StoreOK' /\ StoreGrows /\ CallInv' /\ calls' \in [Connection -> Call \cup {Idle}]
    BY <1>5, <2>1
  <2>3. CASE UNCHANGED late
    BY <1>4, <2>2, <2>3, LateKept DEF IInv, TypeOK
  <2>4. CASE ~Navigates(o) /\ late' = [o EXCEPT !.live = FALSE]
    <3>1. PICK n : n = [o EXCEPT !.live = FALSE]
      OBVIOUS
    <3>2. n \in Call /\ n.op = o.op /\ n.arg = o.arg /\ n.session = o.session
      BY <3>1 DEF Call
    <3>3. Possible(n)'
      BY <1>2, <2>1, <3>2 DEF Possible, store, S!Exists
    <3>4. LateInv'
      BY <2>1, <2>4, <3>1, <3>2, <3>3 DEF LateInv, Navigates
    <3> QED
      BY <1>4, <2>2, <2>4, <3>1, <3>2, <3>4
  <2> QED
    BY <2>1, <2>3, <2>4
<1> QED
  BY <1>6, <1>7, <1>8

(* What booking does late is answered to nobody.                            *)
LEMMA LateStep ==
  ASSUME IInv, DoLate
  PROVE  IInv'
<1> TypeOK
  BY DEF IInv
<1>1. PICK o \in Call \ {Idle} : late = o
  BY DEF DoLate, TypeOK
<1>2. Possible(o) /\ o.session # NoSession /\ Does(o, Idle) /\ late' = Idle
  BY <1>1 DEF DoLate, IInv, LateInv
<1>3. UNCHANGED <<session, page>>
  BY DEF DoLate
<1>4. StoreOK' /\ StoreGrows
  BY <1>2, DoesStep
<1>5. PICK a : Answer(Idle, a)
  BY <1>2, DoesStep
<1>6. UNCHANGED calls
  BY <1>5, WebPagesAssumption DEF Answer
<1>7. LateInv'
  BY <1>2 DEF LateInv
<1>8. TypeOK' /\ SessionInv'
  BY <1>2, <1>3, <1>4, <1>6 DEF TypeOK, StoreOK, IInv, SessionInv
<1> QED
  BY <1>3, <1>4, <1>6, <1>7, <1>8, CallsKept, SamePage DEF IInv

-----------------------------------------------------------------------------
(* The browser receives. *)

(* A new page: what else is under way is not waited for any more.           *)
LEMMA ReceivePageStep ==
  ASSUME IInv, NEW k \in Connection, Receive(k), Navigates(calls[k])
  PROVE  IInv'
<1> TypeOK
  BY DEF IInv
<1>1. PICK o \in Call \ {Idle} : calls[k] = o /\ o.answer # NoAnswer /\ Navigates(o)
  BY DEF Receive, TypeOK
<1>2. PICK v : v = o.answer
  OBVIOUS
<1>3. v \in WholePage /\ PageTrue(v)
  BY <1>1, <1>2 DEF IInv, CallInv, RightCall, AnswerInv
<1>4. /\ page' = [v EXCEPT !.visitor = DrawnFor(v.visitor, session)]
      /\ calls' = [j \in Connection |-> IF j = k \/ calls[j] = Idle THEN Idle
                                        ELSE [calls[j] EXCEPT !.live = FALSE]]
  BY <1>1, <1>2 DEF Receive, ReceivePage
<1>5. UNCHANGED <<store, late>> /\ session' \in {session, NoSession}
  BY DEF Receive
<1>6. PICK d : d = DrawnFor(v.visitor, session)
  OBVIOUS
<1>7. /\ d \in {v.visitor, NoSession}
      /\ d # NoSession /\ session # NoSession => SameVisitor(d, session)
  BY <1>6 DEF DrawnFor
<1>8. /\ page' \in WholePage /\ page'.visitor = d /\ page'.cells = v.cells
      /\ page'.kind = v.kind /\ page'.of = v.of
  BY <1>3, <1>4, <1>6, <1>7 DEF WholePage
<1>9. StoreGrows
  BY <1>5 DEF store, StoreGrows, S!Exists
<1>10. SessionInv'
  BY <1>5, <1>7, <1>8 DEF SessionInv, SameVisitor
<1>11. PageInv'
  <2> SUFFICES ASSUME NEW u \in WholePage, page' = u PROVE PageTrue(u)'
    BY DEF PageInv
  <2>1. PageTrue(u)
    BY <1>3, <1>7, <1>8 DEF PageTrue
  <2> QED
    BY <1>9, <2>1, PageKept
<1>12. ASSUME NEW j \in Connection, NEW m \in Call \ {Idle}, m = calls[j],
              NEW n, n = [m EXCEPT !.live = FALSE]
       PROVE  n \in Call /\ RightCall(n)'
  <2>1. /\ n \in Call /\ n.op = m.op /\ n.arg = m.arg /\ n.session = m.session
        /\ n.answer = m.answer /\ n.live = FALSE
    BY <1>12, Zenon DEF Call
  <2>2. RightCall(m)
    BY <1>12 DEF IInv, CallInv
  <2>3. Possible(n)
    BY <2>1, <2>2 DEF RightCall, Possible
  <2>4. Navigates(n) <=> Navigates(m)
    BY <2>1 DEF Navigates
  <2>5. AnswerInv(n)'
    <3>1. ASSUME n.answer # NoAnswer, Navigates(n) PROVE n.answer \in WholePage /\ PageTrue(n.answer)'
      <4>1. n.answer \in WholePage /\ PageTrue(n.answer)
        BY <2>1, <2>2, <2>4, <3>1 DEF RightCall, AnswerInv
      <4> QED
        BY <1>9, <4>1, PageKept
    <3>2. ASSUME n.answer # NoAnswer, ~Navigates(n) PROVE n.answer \in PieceOfPage
      BY <2>1, <2>2, <2>4, <3>2 DEF RightCall, AnswerInv
    <3> QED
      BY <2>1, <3>1, <3>2 DEF AnswerInv, Navigates
  <2> QED
    BY <1>9, <2>1, <2>3, <2>5, PossibleKept DEF RightCall
<1>13. calls' \in [Connection -> Call \cup {Idle}]
  BY <1>4, <1>12 DEF TypeOK
<1>14. CallInv'
  <2> SUFFICES ASSUME NEW j \in Connection, NEW n \in Call \ {Idle}, calls'[j] = n
               PROVE  RightCall(n)'
    BY DEF CallInv
  <2>1. calls[j] # Idle /\ n = [calls[j] EXCEPT !.live = FALSE]
    BY <1>4
  <2>2. PICK m \in Call \ {Idle} : m = calls[j]
    BY <2>1 DEF TypeOK
  <2> QED
    BY <1>12, <2>1, <2>2
<1>15. TypeOK'
  BY <1>5, <1>8, <1>13 DEF TypeOK, store
<1> QED
  BY <1>5, <1>9, <1>10, <1>11, <1>14, <1>15, LateKept DEF IInv

(* A connection is free again.                                              *)
LEMMA CallGone ==
  ASSUME IInv, NEW k \in Connection, calls' = [calls EXCEPT ![k] = Idle], StoreGrows,
         page'.visitor # NoSession => page'.visitor = page.visitor
  PROVE  CallInv' /\ calls' \in [Connection -> Call \cup {Idle}]
<1>1. TypeOK /\ CallInv
  BY DEF IInv
<1>2. calls' \in [Connection -> Call \cup {Idle}]
  BY <1>1 DEF TypeOK
<1>3. ASSUME NEW j \in Connection, NEW m \in Call \ {Idle}, calls'[j] = m PROVE RightCall(m)'
  <2>1. calls[j] = m
    BY <1>1, <1>3 DEF TypeOK
  <2>2. RightCall(m)
    BY <1>1, <2>1 DEF CallInv
  <2> QED
    BY <2>2, CallKept
<1> QED
  BY <1>2, <1>3 DEF CallInv

(* A piece of a page: the page is still the one it was asked from.          *)
LEMMA ReceivePieceStep ==
  ASSUME IInv, NEW k \in Connection, Receive(k), ~Navigates(calls[k])
  PROVE  IInv'
<1> TypeOK
  BY DEF IInv
<1>1. PICK o \in Call \ {Idle} : calls[k] = o /\ o.answer # NoAnswer /\ o.live /\ ~Navigates(o)
  BY DEF Receive, TypeOK
<1>2. PICK a : a = o.answer
  OBVIOUS
<1>3. PICK w : w = page.visitor.who
  OBVIOUS
<1>4. a \in PieceOfPage /\ (page.visitor # NoSession => PieceTrue(a, w))
  BY <1>1, <1>2, <1>3 DEF IInv, CallInv, RightCall, AnswerInv
<1>5. /\ page' = IF a.at = NoRow THEN page ELSE [page EXCEPT !.cells[a.at] = a.kind]
      /\ calls' = [calls EXCEPT ![k] = Idle]
      /\ UNCHANGED <<store, late>> /\ session' \in {session, NoSession}
  BY <1>1, <1>2 DEF Receive, ReceivePiece
<1>6. PICK p \in WholePage : p = page
  BY DEF TypeOK
<1>7. PICK q : q = page'
  OBVIOUS
<1>8. /\ q \in WholePage /\ q.visitor = p.visitor /\ q.kind = p.kind /\ q.of = p.of
      /\ \A s \in Slot : q.cells[s] = p.cells[s] \/ (s = a.at /\ q.cells[s] = a.kind)
  <2>1. CASE a.at = NoRow
    BY <1>5, <1>6, <1>7, <2>1
  <2>2. CASE a.at # NoRow
    <3>1. a.at \in Slot /\ a.kind \in Cell
      BY <1>4, <2>2 DEF PieceOfPage, Cell
    <3>2. PICK cells : cells = [p.cells EXCEPT ![a.at] = a.kind]
      OBVIOUS
    <3>3. p.cells \in [Slot -> Cell]
      BY <1>6 DEF WholePage
    <3>4. /\ cells \in [Slot -> Cell]
          /\ \A s \in Slot : cells[s] = p.cells[s] \/ (s = a.at /\ cells[s] = a.kind)
      BY <3>1, <3>2, <3>3
    <3>5. q = [p EXCEPT !.cells = cells]
      BY <1>5, <1>6, <1>7, <2>2, <3>2
    <3> QED
      BY <1>6, <3>4, <3>5 DEF WholePage
  <2> QED
    BY <2>1, <2>2
<1>9. StoreGrows
  BY <1>5 DEF store, StoreGrows, S!Exists
<1>10. PageTrue(q)
  <2>1. PageTrue(p)
    BY <1>6 DEF IInv, PageInv
  <2> QED
    BY <1>3, <1>4, <1>6, <1>8, <2>1 DEF PageTrue, PieceTrue
<1>11. PageInv'
  BY <1>7, <1>9, <1>10, PageKept DEF PageInv
<1>12. SessionInv'
  BY <1>5, <1>6, <1>7, <1>8 DEF IInv, SessionInv, SameVisitor
<1>13. CallInv' /\ calls' \in [Connection -> Call \cup {Idle}]
  BY <1>5, <1>6, <1>7, <1>8, <1>9, CallGone
<1>14. TypeOK'
  BY <1>5, <1>7, <1>8, <1>13 DEF TypeOK, store
<1> QED
  BY <1>5, <1>9, <1>11, <1>12, <1>13, <1>14, LateKept DEF IInv

LEMMA LoseStep ==
  ASSUME IInv, NEW k \in Connection, Lose(k)
  PROVE  IInv'
<1> TypeOK
  BY DEF IInv
<1>1. /\ calls' = [calls EXCEPT ![k] = Idle] /\ UNCHANGED <<store, page, late>>
      /\ session' \in {session, NoSession}
  BY DEF Lose
<1>2. StoreGrows
  BY <1>1 DEF store, StoreGrows, S!Exists
<1>3. CallInv' /\ calls' \in [Connection -> Call \cup {Idle}]
  BY <1>1, <1>2, CallGone
<1>4. TypeOK' /\ SessionInv'
  BY <1>1, <1>3 DEF TypeOK, store, IInv, SessionInv
<1> QED
  BY <1>1, <1>2, <1>3, <1>4, LateKept, SamePage DEF IInv

-----------------------------------------------------------------------------
(* The theorems. *)

LEMMA InitIInv == Init => IInv
<1> SUFFICES ASSUME Init PROVE IInv
  OBVIOUS
<1>1. /\ session = NoSession /\ page = PlainPage("none") /\ calls = [k \in Connection |-> Idle]
      /\ late = Idle /\ clock = 0 /\ slots = [s \in Slot |-> NoRow]
      /\ bookings = [b \in Booking |-> NoRow]
  BY DEF Init, S!Init
<1>2. page \in WholePage /\ PageTrue(page)
  BY <1>1, PlainPageFacts DEF PageTrue, PlainPage, Page
<1>3. TypeOK
  BY <1>1, <1>2, WebPagesAssumption DEF TypeOK, S!Time
<1> QED
  BY <1>1, <1>2, <1>3 DEF IInv, CallInv, LateInv, SessionInv, PageInv

LEMMA NextIInv == IInv /\ [Next]_vars => IInv'
<1> SUFFICES ASSUME IInv, [Next]_vars PROVE IInv'
  OBVIOUS
<1>1. CASE UNCHANGED vars
  <2>1. StoreGrows /\ UNCHANGED <<store, session, page, calls, late>>
    BY <1>1 DEF vars, store, StoreGrows, S!Exists
  <2>2. TypeOK' /\ SessionInv'
    BY <2>1 DEF IInv, TypeOK, store, SessionInv
  <2> QED
    BY <2>1, <2>2, CallsKept, LateKept, SamePage DEF IInv
<1>2. ASSUME NEW k \in Connection, Receive(k) PROVE IInv'
  BY <1>2, ReceivePageStep, ReceivePieceStep
<1> QED
  BY <1>1, <1>2, BrowserStep, ElsewhereStep, ServeStep, LateStep, LoseStep DEF Next

(* The invariant of a tab, for any number of requests under way, whoever    *)
(* logs in meanwhile and whatever booking does too late.                    *)
THEOREM Invariance == Spec => []IInv
  BY InitIInv, NextIInv, PTL DEF Spec

(* Every variable keeps its type.                                           *)
THEOREM TypeCorrect == Spec => []TypeOK
<1>1. IInv => TypeOK
  BY DEF IInv
<1> QED
  BY <1>1, Invariance, PTL

(* Whoever reads "booked" on a page with his name has had a booking of that *)
(* slot: the handler of /slots/{id}/book says so only after booking did,    *)
(* and in the name of the cookies the page was drawn for.                   *)
THEOREM BookedIsTrue == Spec => []BookedIsOnRecord
<1>1. IInv => BookedIsOnRecord
  BY DEF IInv, PageInv, TypeOK, PageTrue, HasBooked, BookedIsOnRecord
<1> QED
  BY <1>1, Invariance, PTL

(* A row among one's own slots is of a slot that booking has taken.         *)
THEOREM OwnSlotsAreTrue == Spec => []OwnSlotsArePublished
<1>1. IInv => OwnSlotsArePublished
  BY DEF IInv, PageInv, TypeOK, PageTrue, Published, OwnSlotsArePublished
<1> QED
  BY <1>1, Invariance, PTL

(* Nobody is sent to pay for the booking of another: get_payable_booking    *)
(* judges by the token, and the token is of whom the page names.            *)
THEOREM CheckoutIsOnesOwn == Spec => []CheckoutIsOwn
<1>1. IInv => CheckoutIsOwn
  BY DEF IInv, PageInv, TypeOK, PageTrue, OwnBooking, CheckoutIsOwn
<1> QED
  BY <1>1, Invariance, PTL
=============================================================================
