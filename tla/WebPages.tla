------------------------------ MODULE WebPages ------------------------------
(***************************************************************************)
(* The pages that lead to a booking (services/web beside services/booking):*)
(* the slots of a master, one's own slots, and the way to the checkout.    *)
(* The bookings are those of SlotBooking, the promise BookingService keeps,*)
(* and everybody else acts on them as it allows.                           *)
(*                                                                         *)
(* One tab of one browser; the other tabs share its cookies, and log in    *)
(* and out.  A button acts with the cookies of the moment it is pressed,   *)
(* whoever its page was drawn for.  Web waits for booking for a limited    *)
(* time; booking may do what it was asked to after that.                   *)
(***************************************************************************)
EXTENDS BookingDomain

CONSTANTS Slot, Booking, NoRow, Person,  \* see SlotBooking; anybody may come in either role
          MaxTime,                       \* bound: the clock stops here
          Connection,                    \* bound: requests of the tab at a time
          SessionLifetime,               \* SESSION_LIFETIME
          NoSession, Idle, NoAnswer      \* no cookies; a free connection; not answered yet

VARIABLES clock, slots, bookings, outbox,  \* as in SlotBooking
          session,  \* the cookies: whose token, in which role, until when
          page,     \* what the tab shows
          calls,    \* the request on each connection
          late      \* a request booking still has, and web no longer waits for

store == <<clock, slots, bookings, outbox>>
vars == <<store, session, page, calls, late>>

S == INSTANCE SlotBooking WITH Client <- Person, Master <- Person

Role == {"client", "master"}
Session == [who : Person, role : Role, until : 1 .. (MaxTime + SessionLifetime)]
Visitor == [who : Person, role : Role]

(* The place of a slot on a page: nothing, a button, the word "taken", what *)
(* has come instead of the button, or a row among one's own slots.          *)
Cell == {"none", "free", "taken", "booked", "problem", "login", "row"}
Blank == [s \in Slot |-> "none"]

(* `visitor` is who it was drawn for, unless somebody else has logged in    *)
(* since; `of` is the booking at the checkout.                              *)
Page(kind, visitor, cells, of) ==
  [kind |-> kind, visitor |-> visitor, cells |-> cells, of |-> of]

PlainPage(kind) == Page(kind, NoSession, Blank, NoRow)

WholePage == [kind : {"none", "login", "problem", "slots", "mine", "checkout"},
              visitor : Visitor \cup {NoSession},
              cells : [Slot -> Cell], of : Booking \cup {NoRow}]

(* What comes to the place of a slot, or to the place for messages. *)
PieceOfPage == [at : Slot \cup {NoRow}, kind : {"booked", "problem", "login", "row"}]

(* A call is live while the page that waits for its answer is still there. *)
Call == [op : {"slots", "mine", "pay", "book", "publish"},
         arg : Person \cup Booking \cup Slot \cup S!StartTime \cup {NoRow},
         session : Session \cup {NoSession}, live : BOOLEAN,
         answer : WholePage \cup PieceOfPage \cup {NoAnswer}]

ASSUME WebPagesAssumption ==
  /\ SessionLifetime \in Nat \ {0} /\ MaxTime \in Nat
  /\ NoRow \notin S!SlotRow \cup S!BookingRow
  /\ Idle \notin Connection

TypeOK ==
  /\ clock \in S!Time
  /\ slots \in [Slot -> S!SlotRow \cup {NoRow}]
  /\ bookings \in [Booking -> S!BookingRow \cup {NoRow}]
  /\ session \in Session \cup {NoSession}
  /\ page \in WholePage
  /\ calls \in [Connection -> Call \cup {Idle}]
  /\ late \in Call \cup {Idle}

Init ==
  /\ S!Init
  /\ session = NoSession
  /\ page = PlainPage("none")
  /\ calls = [k \in Connection |-> Idle]
  /\ late = Idle

Others == S!Next /\ UNCHANGED <<session, page, calls, late>>

-----------------------------------------------------------------------------
(* The browser asks. *)

SameVisitor(a, b) == a.who = b.who /\ a.role = b.role

DrawnFor(visitor, cookies) ==
  IF visitor # NoSession /\ cookies # NoSession /\ ~SameVisitor(visitor, cookies)
    THEN NoSession ELSE visitor

(* The browser drops cookies that are past their max_age. *)
Cookies == IF session # NoSession /\ session.until > clock THEN session ELSE NoSession

Login(who, role) ==
  /\ session' = [who |-> who, role |-> role, until |-> clock + SessionLifetime]
  /\ page' = [page EXCEPT !.visitor = DrawnFor(@, session')]
  /\ UNCHANGED <<store, calls, late>>

ForgetCookies == session # NoSession /\ session' = NoSession

Logout ==
  /\ ForgetCookies
  /\ UNCHANGED <<store, page, calls, late>>

(* A name that clean_name refuses, in a login form that was left open.      *)
LoginRefused ==
  /\ ForgetCookies
  /\ UNCHANGED <<store, page, calls, late>>

Send(op, arg) ==
  /\ \E k \in Connection :
       /\ calls[k] = Idle
       /\ calls' = [calls EXCEPT ![k] =
            [op |-> op, arg |-> arg, session |-> Cookies, live |-> TRUE, answer |-> NoAnswer]]
  /\ session' = Cookies
  /\ UNCHANGED <<store, page, late>>

Navigates(o) == o.op \in {"slots", "mine", "pay"}

(* By a link, an address or a form: the tab asks for one page at a time.   *)
Visit(op, arg) ==
  /\ ~\E k \in Connection : calls[k] # Idle /\ calls[k].live /\ Navigates(calls[k])
  /\ Send(op, arg)

(* The button is disabled while its request is under way. *)
PressBook(s) ==
  /\ page.cells[s] = "free"
  /\ ~\E k \in Connection : /\ calls[k] # Idle /\ calls[k].live
                            /\ calls[k].op = "book" /\ calls[k].arg = s
  /\ Send("book", s)

(* This one is not: to press twice is to ask twice. *)
PressPublish(startsAt) ==
  /\ page.kind = "mine"
  /\ Send("publish", startsAt)

-----------------------------------------------------------------------------
(* What booking does with request o, and what web makes of it for those who *)
(* still wait on connection k: nobody does if that is Idle.                 *)

Answer(k, answer) ==
  calls' = IF k \in Connection
             THEN [calls EXCEPT ![k].answer = answer, ![k].session = NoSession] ELSE calls

Whose(o) == [who |-> o.session.who, role |-> o.session.role]

(* verify_token and ensure_role, by the clock of booking. *)
As(o, role) == o.session.until > clock /\ o.session.role = role

(* Anybody may list the slots of anybody: no token is sent. *)
Listed(s, m) == slots[s] # NoRow /\ slots[s].master = m

Available(s) ==
  /\ EnsureBookable(slots[s].startsAt, clock)
  /\ ~\E b \in Booking : S!Exists(b) /\ bookings[b].slot = s /\ HoldsSlot(bookings[b], clock)

MasterSlots(o, k) ==
  /\ o.op = "slots"
  /\ Answer(k, Page("slots", Whose(o),
       [s \in Slot |-> IF ~Listed(s, o.arg) THEN "none"
                       ELSE IF Available(s) THEN "free" ELSE "taken"], NoRow))
  /\ UNCHANGED store

MySlots(o, k) ==
  /\ o.op = "mine"
  /\ Answer(k, Page("mine", Whose(o),
       [s \in Slot |-> IF Listed(s, o.session.who) THEN "row" ELSE "none"], NoRow))
  /\ UNCHANGED store

(* A piece of a page: what comes to the place of slot s. *)
Piece(s, cell) == [at |-> s, kind |-> cell]

(* What book_slot asks of a slot, but for the rows that stale ones leave.  *)
Bookable(s) ==
  /\ EnsureBookable(slots[s].startsAt, clock)
  /\ \A b \in S!ActiveOn(s) : IsStale(bookings[b], clock)

(* Mutant: a slot that is taken counts as booked, to make retries pleasant. *)
BookAlready(o, k) ==
  /\ o.op = "book"
  /\ \/ /\ As(o, "client")
        /\ \E b \in Booking : S!Book(o.arg, b, o.session.who, clock)
        /\ Answer(k, Piece(o.arg, "booked"))
     \/ /\ As(o, "client") /\ ~Bookable(o.arg)
        /\ UNCHANGED store
        /\ Answer(k, Piece(o.arg, "booked"))

Book(o, k) ==
  /\ o.op = "book"
  /\ \/ /\ As(o, "client")
        /\ \E b \in Booking : S!Book(o.arg, b, o.session.who, clock)
        /\ Answer(k, Piece(o.arg, "booked"))
     \/ /\ ~(As(o, "client") /\ Bookable(o.arg))
        /\ UNCHANGED store
        /\ Answer(k, Piece(o.arg, "problem"))

(* Mutant: the row shows what was typed, whether or not booking took it. *)
PublishAsTyped(o, k) ==
  /\ o.op = "publish"
  /\ \E s \in Slot :
       /\ slots[s] = NoRow
       /\ Answer(k, Piece(s, "row"))
       /\ \/ As(o, "master") /\ S!CreateSlot(s, o.session.who, o.arg)
          \/ ~(As(o, "master") /\ EnsureBookable(o.arg, clock)) /\ UNCHANGED store

PublishSlot(o, k) ==
  /\ o.op = "publish"
  /\ \/ /\ As(o, "master")
        /\ \E s \in Slot : /\ S!CreateSlot(s, o.session.who, o.arg)
                           /\ Answer(k, Piece(s, "row"))
     \/ /\ ~(As(o, "master") /\ EnsureBookable(o.arg, clock))
        /\ UNCHANGED store
        /\ Answer(k, Piece(NoRow, "problem"))

(* Mutant: the booking is looked up without asking whose it is. *)
PayableByAnyone(o) ==
  /\ As(o, "client")
  /\ bookings[o.arg].status = "pending" /\ ~IsStale(bookings[o.arg], clock)

(* get_payable_booking, for a client. *)
Payable(o) ==
  /\ As(o, "client")
  /\ bookings[o.arg].client = o.session.who
  /\ bookings[o.arg].status = "pending" /\ ~IsStale(bookings[o.arg], clock)

(* Payments may refuse, not answer, or have no checkout to send one to. *)
Pay(o, k) ==
  /\ o.op = "pay"
  /\ \/ Payable(o) /\ Answer(k, Page("checkout", Whose(o), Blank, o.arg))
     \/ Answer(k, PlainPage("problem"))
  /\ UNCHANGED store

Does(o, k) ==
  \/ MasterSlots(o, k) \/ MySlots(o, k)
  \/ Book(o, k) \/ PublishSlot(o, k)
  \/ Pay(o, k)

-----------------------------------------------------------------------------
(* Web answers. *)

Unanswered(k) == calls[k] # Idle /\ calls[k].answer = NoAnswer

Instead(o, what) ==
  IF Navigates(o) THEN PlainPage(what)
  ELSE Piece(IF o.op = "book" THEN o.arg ELSE NoRow, what)

(* The login page, or a button in whose place it is. *)
TurnAway(k) ==
  /\ Unanswered(k)
  /\ calls[k].session = NoSession
  /\ Answer(k, Instead(calls[k], "login"))
  /\ UNCHANGED <<store, session, page, late>>

Serve(k) ==
  /\ Unanswered(k)
  /\ calls[k].session # NoSession
  /\ Does(calls[k], k)
  /\ UNCHANGED <<session, page, late>>

(* Web has waited long enough: what it asked for may be lost, or done late. *)
TimeOut(k) ==
  /\ Unanswered(k)
  /\ calls[k].session # NoSession
  /\ Answer(k, Instead(calls[k], "problem"))
  /\ \/ UNCHANGED late
     \/ ~Navigates(calls[k]) /\ late' = [calls[k] EXCEPT !.live = FALSE]
  /\ UNCHANGED <<store, session, page>>

DoLate ==
  /\ late # Idle
  /\ late' = Idle
  /\ Does(late, Idle)
  /\ UNCHANGED <<session, page>>

-----------------------------------------------------------------------------
(* The browser receives the answer. *)

(* A page in the place of the page: nothing else is waited for. *)
ReceivePage(k) ==
  /\ page' = [calls[k].answer EXCEPT !.visitor = DrawnFor(@, session)]
  /\ calls' = [j \in Connection |-> IF j = k \/ calls[j] = Idle THEN Idle
                                    ELSE [calls[j] EXCEPT !.live = FALSE]]

ReceivePiece(k) ==
  /\ page' = IF calls[k].answer.at = NoRow THEN page
             ELSE [page EXCEPT !.cells[calls[k].answer.at] = calls[k].answer.kind]
  /\ calls' = [calls EXCEPT ![k] = Idle]

Receive(k) ==
  /\ calls[k] # Idle /\ calls[k].answer # NoAnswer
  /\ calls[k].live
  /\ IF Navigates(calls[k]) THEN ReceivePage(k) ELSE ReceivePiece(k)
  /\ session' = IF calls[k].answer.kind = "login" THEN NoSession ELSE session
  /\ UNCHANGED <<store, late>>

(* The answer is lost, or the page is gone: only cookies may be deleted.   *)
Lose(k) ==
  /\ calls[k] # Idle
  /\ calls' = [calls EXCEPT ![k] = Idle]
  /\ \/ UNCHANGED session
     \/ ~Unanswered(k) /\ calls[k].answer.kind = "login" /\ session' = NoSession
  /\ UNCHANGED <<store, page, late>>

-----------------------------------------------------------------------------
Next ==
  \/ Others
  \/ Logout \/ LoginRefused \/ \E who \in Person, role \in Role : Login(who, role)
  \/ \E m \in Person : Visit("slots", m)
  \/ Visit("mine", NoRow)
  \/ \E b \in Booking : S!Exists(b) /\ Visit("pay", b)
  \/ \E s \in Slot : PressBook(s)
  \/ \E startsAt \in S!StartTime : PressPublish(startsAt)
  \/ \E k \in Connection : TurnAway(k) \/ Serve(k) \/ TimeOut(k) \/ Receive(k) \/ Lose(k)
  \/ DoLate

Spec == Init /\ [][Next]_vars

-----------------------------------------------------------------------------
(* Properties. *)

(* Whoever reads that a slot was booked, on a page with his name, has had a *)
(* booking of it: whatever was done late, refused, or taken by others.      *)
BookedIsOnRecord ==
  page.visitor # NoSession =>
    \A s \in Slot : page.cells[s] = "booked" =>
      \E b \in Booking : /\ S!Exists(b) /\ bookings[b].slot = s
                         /\ bookings[b].client = page.visitor.who

(* Whoever sees a slot among his own, on a page with his name, has          *)
(* published it: a row is added only for a slot that booking has taken.     *)
OwnSlotsArePublished ==
  page.visitor # NoSession =>
    \A s \in Slot : page.cells[s] = "row" =>
      slots[s] # NoRow /\ slots[s].master = page.visitor.who

(* Nobody is sent to pay for the booking of another, whichever page and     *)
(* whose the button was: in the name of the cookies, and as a client.       *)
CheckoutIsOwn ==
  page.kind = "checkout" /\ page.visitor # NoSession =>
    page.visitor.role = "client" /\ bookings[page.of].client = page.visitor.who
=============================================================================
