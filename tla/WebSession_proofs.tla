-------------------------- MODULE WebSession_proofs --------------------------
(***************************************************************************)
(* Proofs about WebSession, for any bookings and people, any number of     *)
(* tabs, and any number of requests under way.                             *)
(***************************************************************************)
EXTENDS WebSession, TLAPS

-----------------------------------------------------------------------------
(* The inductive invariant. *)

(* The booking has had this status.                                         *)
WasTrue(b, status) == Exists(b) /\ bookings[b].status \in Later[status]

(* A request was sent without a session, or its session has ended.          *)
Ended(visitor) == visitor = NoSession \/ visitor.until <= clock

(* What is told of a booking was true, and so is a login page.              *)
AnswerTrue(o) ==
  \A b \in o.about :
    /\ o.answer[b] \in BookingStatus => WasTrue(b, o.answer[b])
    /\ o.answer[b] = "login" => Ended(o.session)

(* The row that an answer will replace is not ahead of the answer: whatever *)
(* has replaced the row since would have taken the call off the page.       *)
AnswerNotBehind(o) ==
  o.live /\ o.op # "open" =>
    \A b \in o.about :
      rows[o.tab][b] \in BookingStatus /\ o.answer[b] \in BookingStatus =>
        o.answer[b] \in Later[rows[o.tab][b]]

RightCall(o) ==
  /\ IF o.op = "open" THEN o.about = Booking ELSE \E b \in Booking : o.about = {b}
  /\ o.answer # NoAnswer =>
       DOMAIN o.answer = o.about /\ AnswerTrue(o) /\ AnswerNotBehind(o)

CallInv == \A k \in Connection, o \in Call \ {Idle} : calls[k] = o => RightCall(o)

IInv == TypeOK /\ RowsWereTrue /\ CallInv

-----------------------------------------------------------------------------
(* The bookings go forwards only. *)

Grows ==
  /\ clock <= clock'
  /\ \A b \in Booking : Exists(b) =>
       /\ Exists(b)'
       /\ \/ bookings'[b].status = bookings[b].status
          \/ CanTransition(bookings[b].status, bookings'[b].status)

BookingsOK == clock \in 0 .. MaxTime /\ bookings \in [Booking -> BookingRow \cup {NoRow}]

(* What has been is not behind itself, and stays so along a transition.     *)
LEMMA LaterMoves ==
  ASSUME NEW s \in BookingStatus
  PROVE  /\ s \in Later[s]
         /\ \A u \in Later[s], v \in BookingStatus : CanTransition(u, v) => v \in Later[s]
BY DEF BookingStatus, Later, CanTransition, AllowedTransitions

LEMMA TruthStays ==
  ASSUME BookingsOK, BookingsOK', Grows,
         NEW b \in Booking, NEW s \in BookingStatus, WasTrue(b, s)
  PROVE  WasTrue(b, s)'
<1>1. bookings'[b] \in BookingRow /\ Exists(b)'
  BY DEF BookingsOK, Grows, WasTrue, Exists
<1>2. bookings'[b].status \in BookingStatus
  BY <1>1 DEF BookingRow
<1>3. bookings'[b].status \in Later[s]
  BY <1>2, LaterMoves DEF Grows, WasTrue
<1> QED
  BY <1>1, <1>3 DEF WasTrue

(* A change of status that the rules allow.                                 *)
LEMMA ChangeStep ==
  ASSUME BookingsOK, NEW b \in Booking, NEW target \in BookingStatus,
         ChangeStatus(b, target), clock' = clock
  PROVE  BookingsOK' /\ Grows /\ Exists(b)' /\ bookings'[b].status = target
<1>1. /\ bookings' = [bookings EXCEPT ![b].status = target]
      /\ bookings[b] \in BookingRow
      /\ CanTransition(bookings[b].status, target)
  BY DEF ChangeStatus, BookingsOK, Exists
<1>2. PICK row \in BookingRow : row = [bookings[b] EXCEPT !.status = target]
  BY <1>1 DEF BookingRow
<1>3. row.status = target
  BY <1>1, <1>2 DEF BookingRow
<1>4. bookings' = [bookings EXCEPT ![b] = row]
  BY <1>1, <1>2
<1>5. BookingsOK'
  BY <1>4 DEF BookingsOK
<1>6. Exists(b)' /\ bookings'[b].status = target
  BY <1>3, <1>4, WebSessionAssumption DEF BookingsOK, Exists
<1>7. Grows
  BY <1>1, <1>4, <1>6 DEF Grows, Exists, BookingsOK
<1> QED
  BY <1>5, <1>6, <1>7

LEMMA BookStep ==
  ASSUME BookingsOK, NEW b \in Booking, NEW c \in Client, Book(b, c)
  PROVE  BookingsOK' /\ Grows
<1>1. [client |-> c, status |-> "pending"] \in BookingRow
  BY DEF BookingRow, BookingStatus
<1> QED
  BY <1>1 DEF Book, BookingsOK, Grows, Exists

LEMMA SameBookings ==
  ASSUME BookingsOK, UNCHANGED <<clock, bookings>>
  PROVE  BookingsOK' /\ Grows
BY DEF BookingsOK, Grows, Exists

-----------------------------------------------------------------------------
(* The rows and the calls. *)

(* What a live call is about, if not the whole page, is shown as it was.    *)
SameRows(o) ==
  o.live /\ o.op # "open" => \A b \in o.about : rows'[o.tab][b] = rows[o.tab][b]

LEMMA RowsStay ==
  ASSUME TypeOK, RowsWereTrue, BookingsOK', Grows, rows' = rows
  PROVE  RowsWereTrue'
<1> SUFFICES ASSUME NEW t \in Tab, NEW b \in Booking, rows[t][b] \in BookingStatus
             PROVE  Exists(b)' /\ bookings'[b].status \in Later[rows[t][b]]
  BY DEF RowsWereTrue
<1> PICK s \in BookingStatus : s = rows[t][b]
  OBVIOUS
<1>1. WasTrue(b, s)
  BY DEF RowsWereTrue, WasTrue
<1>2. WasTrue(b, s)'
  BY <1>1, TruthStays DEF TypeOK, BookingsOK
<1> QED
  BY <1>2 DEF WasTrue

LEMMA CallStays ==
  ASSUME BookingsOK, BookingsOK', Grows, NEW o \in Call, RightCall(o), SameRows(o)
  PROVE  RightCall(o)'
<1>1. CASE o.answer = NoAnswer
  BY <1>1 DEF RightCall
<1>2. CASE o.answer # NoAnswer
  <2>1. /\ DOMAIN o.answer = o.about /\ AnswerTrue(o) /\ AnswerNotBehind(o)
        /\ o.about \subseteq Booking /\ o.session \in Session \cup {NoSession}
    BY <1>2 DEF RightCall, Call
  <2>2. ASSUME NEW b \in o.about
        PROVE  /\ o.answer[b] \in BookingStatus => WasTrue(b, o.answer[b])'
               /\ o.answer[b] = "login" => Ended(o.session)'
    <3>1. ASSUME o.answer[b] \in BookingStatus PROVE WasTrue(b, o.answer[b])'
      <4> PICK s \in BookingStatus : s = o.answer[b]
        BY <3>1
      <4>1. WasTrue(b, s)
        BY <2>1, <2>2 DEF AnswerTrue
      <4> QED
        BY <2>1, <4>1, TruthStays
    <3>2. ASSUME o.answer[b] = "login" PROVE Ended(o.session)'
      <4>1. Ended(o.session)
        BY <2>1, <3>2 DEF AnswerTrue
      <4>2. CASE o.session = NoSession
        BY <4>2 DEF Ended
      <4>3. CASE o.session # NoSession
        <5>1. o.session.until \in Nat
          BY <2>1, <4>3 DEF Session
        <5> QED
          BY <4>1, <4>3, <5>1, WebSessionAssumption DEF Ended, Grows, BookingsOK
      <4> QED
        BY <4>2, <4>3
    <3> QED
      BY <3>1, <3>2
  <2>3. AnswerTrue(o)'
    BY <2>2 DEF AnswerTrue
  <2>4. AnswerNotBehind(o)'
    BY <2>1 DEF AnswerNotBehind, SameRows
  <2> QED
    BY <2>1, <2>3, <2>4 DEF RightCall
<1> QED
  BY <1>1, <1>2

LEMMA CallsStay ==
  ASSUME IInv, BookingsOK', Grows, UNCHANGED <<rows, calls>>
  PROVE  CallInv'
<1> SUFFICES ASSUME NEW k \in Connection, NEW o \in Call \ {Idle}, calls[k] = o
             PROVE  RightCall(o)'
  BY DEF CallInv
<1>1. RightCall(o) /\ SameRows(o)
  BY DEF IInv, CallInv, SameRows
<1> QED
  BY <1>1, CallStays DEF IInv, TypeOK, BookingsOK

(* One call is another, and right; the others are what they were.           *)
LEMMA OneCall ==
  ASSUME IInv, BookingsOK', Grows, rows' = rows, NEW k \in Connection, NEW n \in Call \cup {Idle},
         calls' = [calls EXCEPT ![k] = n], n # Idle => RightCall(n)'
  PROVE  calls' \in [Connection -> Call \cup {Idle}] /\ CallInv'
<1>1. calls' \in [Connection -> Call \cup {Idle}]
  BY DEF IInv, TypeOK
<1>2. ASSUME NEW j \in Connection, NEW o \in Call \ {Idle}, calls'[j] = o
      PROVE  RightCall(o)'
  <2>1. CASE j = k
    BY <1>2, <2>1 DEF IInv, TypeOK
  <2>2. CASE j # k
    <3>1. calls[j] = o
      BY <1>2, <2>2 DEF IInv, TypeOK
    <3>2. RightCall(o) /\ SameRows(o)
      BY <3>1 DEF IInv, CallInv, SameRows
    <3> QED
      BY <3>2, CallStays DEF IInv, TypeOK, BookingsOK
  <2> QED
    BY <2>1, <2>2
<1> QED
  BY <1>1, <1>2 DEF CallInv

-----------------------------------------------------------------------------
(* Everybody else, and the browser that asks. *)

LEMMA ElsewhereStep ==
  ASSUME IInv,
         \/ Tick
         \/ \E b \in Booking, c \in Client : Book(b, c)
         \/ \E b \in Booking, target \in BookingStatus : Move(b, target)
         \/ \E f \in Form \ {"none"} : PostForm(f)
         \/ Logout \/ LoginRefused \/ LoseForm \/ \E c \in Client : Login(c)
         \/ UNCHANGED vars
  PROVE  IInv'
<1>1. BookingsOK' /\ Grows /\ rows' = rows /\ calls' = calls /\ faults' = faults
  <2>1. CASE Tick
    BY <2>1, WebSessionAssumption DEF Tick, IInv, TypeOK, BookingsOK, Grows, Exists, browser
  <2>2. ASSUME NEW b \in Booking, NEW c \in Client, Book(b, c)
        PROVE  BookingsOK' /\ Grows /\ rows' = rows /\ calls' = calls /\ faults' = faults
    BY <2>2, BookStep DEF Book, browser, IInv, TypeOK, BookingsOK
  <2>3. ASSUME NEW b \in Booking, NEW target \in BookingStatus, Move(b, target)
        PROVE  BookingsOK' /\ Grows /\ rows' = rows /\ calls' = calls /\ faults' = faults
    BY <2>3, ChangeStep DEF Move, browser, IInv, TypeOK, BookingsOK
  <2>4. CASE \/ \E f \in Form \ {"none"} : PostForm(f)
             \/ Logout \/ LoginRefused \/ LoseForm \/ \E c \in Client : Login(c)
             \/ UNCHANGED vars
    <3>1. UNCHANGED <<clock, bookings, rows, calls, faults>>
      BY <2>4 DEF PostForm, FormAnswered, Logout, LoginRefused, LoseForm, Login, vars
    <3> QED
      BY <3>1, SameBookings DEF IInv, TypeOK, BookingsOK
  <2> QED
    BY <2>1, <2>2, <2>3, <2>4
<1>2. session' \in Session \cup {NoSession}
  <2>1. ASSUME NEW c \in Client, Login(c) PROVE session' \in Session
    <3>1. clock + SessionLifetime \in 1 .. (MaxTime + SessionLifetime)
      BY WebSessionAssumption DEF IInv, TypeOK
    <3> QED
      BY <2>1, <3>1 DEF Login, Session
  <2> QED
    BY <2>1 DEF IInv, TypeOK, Tick, Book, Move, PostForm, Cookies,
         Logout, LoginRefused, LoseForm, vars, browser
<1>3. form' \in Form
  BY DEF IInv, TypeOK, Form, Tick, Book, Move, PostForm, FormAnswered,
       Login, Logout, LoginRefused, LoseForm, vars, browser
<1>4. TypeOK'
  BY <1>1, <1>2, <1>3 DEF IInv, TypeOK, BookingsOK
<1> QED
  BY <1>1, <1>4, RowsStay, CallsStay DEF IInv

(* A request that has just been sent is right: it has no answer yet.        *)
LEMMA SendStep ==
  ASSUME IInv, NEW k \in Connection, NEW t \in Tab, NEW op \in {"open", "poll", "cancel"},
         NEW about \in SUBSET Booking,
         IF op = "open" THEN about = Booking ELSE \E b \in Booking : about = {b},
         Send(k, t, op, about)
  PROVE  IInv'
<1> DEFINE n == [tab |-> t, op |-> op, about |-> about, session |-> Cookies,
                 live |-> TRUE, answer |-> NoAnswer]
<1>1. BookingsOK' /\ Grows /\ rows' = rows
  BY SameBookings DEF Send, IInv, TypeOK, BookingsOK
<1>2. Cookies \in Session \cup {NoSession}
  BY DEF Cookies, IInv, TypeOK
<1>3. PICK c \in Call : c = n
  <2>1. PICK v \in Session \cup {NoSession} : v = Cookies
    BY <1>2
  <2>2. [tab |-> t, op |-> op, about |-> about, session |-> v,
         live |-> TRUE, answer |-> NoAnswer] \in Call
    BY <2>1 DEF Call
  <2> QED
    BY <2>1, <2>2
<1>4. calls' = [calls EXCEPT ![k] = c]
  BY <1>3 DEF Send
<1>5. c.op = op /\ c.about = about /\ c.answer = NoAnswer
  BY <1>3
<1>6. RightCall(c)'
  BY <1>5 DEF RightCall
<1> HIDE DEF n
<1>7. calls' \in [Connection -> Call \cup {Idle}] /\ CallInv'
  BY <1>1, <1>4, <1>6, OneCall
<1>8. TypeOK'
  BY <1>1, <1>2, <1>7 DEF Send, IInv, TypeOK, BookingsOK
<1> QED
  BY <1>1, <1>7, <1>8, RowsStay DEF IInv

LEMMA BrowserStep ==
  ASSUME IInv, \/ \E t \in Tab : Open(t)
               \/ \E t \in Tab, b \in Booking : Poll(t, b) \/ Cancel(t, b)
  PROVE  IInv'
<1>1. ASSUME NEW t \in Tab, Open(t) PROVE IInv'
  BY <1>1, SendStep DEF Open
<1>2. ASSUME NEW t \in Tab, NEW b \in Booking, Poll(t, b) PROVE IInv'
  BY <1>2, SendStep DEF Poll
<1>3. ASSUME NEW t \in Tab, NEW b \in Booking, Cancel(t, b) PROVE IInv'
  BY <1>3, SendStep DEF Cancel
<1> QED
  BY <1>1, <1>2, <1>3

-----------------------------------------------------------------------------
(* Web answers. *)

(* An answer that tells of bookings what they are at that moment, and is a  *)
(* login page for those only whose session has ended.                       *)
LEMMA AnswerStep ==
  ASSUME IInv, BookingsOK', Grows, clock' = clock, faults' \in 0 .. MaxFaults,
         NEW k \in Connection, Unanswered(k), NEW shown \in [Booking -> Shown],
         AnswerAll(k, shown),
         \A b \in calls[k].about :
           shown[b] \in BookingStatus => Exists(b)' /\ bookings'[b].status = shown[b],
         \A b \in calls[k].about : shown[b] = "login" => Ended(Visitor(k))
  PROVE  IInv'
<1>1. PICK o \in Call : o = calls[k]
  BY DEF Unanswered, IInv, TypeOK
<1>2. RightCall(o) /\ o.answer = NoAnswer /\ o.about \subseteq Booking
  BY <1>1 DEF Unanswered, IInv, CallInv, Call
<1> DEFINE answer == [b \in o.about |-> shown[b]]
<1>3. answer \in UNION {[X -> Shown] : X \in SUBSET Booking}
  <2>1. answer \in [o.about -> Shown]
    BY <1>2
  <2> QED
    BY <1>2, <2>1
<1>4. PICK n \in Call : n = [o EXCEPT !.answer = answer]
  <2>1. [o EXCEPT !.answer = answer] \in Call
    BY <1>3 DEF Call
  <2> QED
    BY <2>1
<1>5. /\ n.answer = answer /\ n.tab = o.tab /\ n.op = o.op /\ n.about = o.about
      /\ n.session = o.session /\ n.live = o.live
  BY <1>4 DEF Call
<1>6. calls' = [calls EXCEPT ![k] = n] /\ rows' = rows /\ session' = session /\ form' = form
  BY <1>1, <1>4 DEF AnswerAll
<1>7. RowsWereTrue'
  BY <1>6, RowsStay DEF IInv
<1>8. ASSUME NEW b \in n.about, n.answer[b] \in BookingStatus
      PROVE  /\ Exists(b)' /\ bookings'[b].status = n.answer[b]
             /\ WasTrue(b, n.answer[b])'
  <2>1. Exists(b)' /\ bookings'[b].status = n.answer[b]
    BY <1>1, <1>5, <1>8
  <2> QED
    BY <1>8, <2>1, LaterMoves DEF WasTrue
<1>9. AnswerTrue(n)'
  <2>1. ASSUME NEW b \in n.about, n.answer[b] = "login" PROVE Ended(n.session)'
    BY <1>1, <1>5, <2>1 DEF Ended, Visitor
  <2> QED
    BY <1>8, <2>1 DEF AnswerTrue
<1>10. AnswerNotBehind(n)'
  <2>1. ASSUME NEW b \in n.about, rows'[n.tab][b] \in BookingStatus, n.answer[b] \in BookingStatus
        PROVE  n.answer[b] \in Later[rows'[n.tab][b]]
    <3>1. n.tab \in Tab /\ b \in Booking
      BY <1>2, <1>5, <2>1 DEF Call
    <3> QED
      BY <1>7, <1>8, <2>1, <3>1 DEF RowsWereTrue
  <2> QED
    BY <2>1 DEF AnswerNotBehind
<1>11. RightCall(n)'
  BY <1>2, <1>5, <1>9, <1>10 DEF RightCall
<1> HIDE DEF answer
<1>12. calls' \in [Connection -> Call \cup {Idle}] /\ CallInv'
  BY <1>6, <1>11, OneCall
<1>13. TypeOK'
  BY <1>6, <1>12 DEF IInv, TypeOK, BookingsOK
<1> QED
  BY <1>7, <1>12, <1>13 DEF IInv

(* What a handler says of every row, if that is no status.                  *)
LEMMA SameAnswer ==
  ASSUME IInv, BookingsOK', Grows, clock' = clock, faults' \in 0 .. MaxFaults,
         NEW k \in Connection, Unanswered(k), NEW x \in {"none", "problem", "login"},
         AnswerAll(k, Everywhere(x)), x = "login" => Ended(Visitor(k))
  PROVE  IInv'
<1>1. PICK shown \in [Booking -> Shown] : shown = Everywhere(x)
  BY DEF Everywhere, Shown
<1>2. calls[k].about \subseteq Booking
  BY DEF Unanswered, IInv, TypeOK, Call
<1>3. AnswerAll(k, shown)
  BY <1>1
<1>4. \A b \in calls[k].about : shown[b] = x
  BY <1>1, <1>2 DEF Everywhere
<1>5. x \notin BookingStatus
  BY DEF BookingStatus
<1> QED
  BY <1>3, <1>4, <1>5, AnswerStep

(* Those whom web does not know, or for whom it has no answer.              *)
LEMMA RefusalStep ==
  ASSUME IInv, NEW k \in Connection,
         AnswerStranger(k) \/ AnswerExpired(k) \/ AnswerUnavailable(k)
  PROVE  IInv'
<1>1. CASE AnswerStranger(k)
  <2>1. BookingsOK' /\ Grows /\ clock' = clock /\ faults' \in 0 .. MaxFaults
    BY <1>1, SameBookings DEF AnswerStranger, IInv, TypeOK, BookingsOK
  <2> QED
    BY <1>1, <2>1, SameAnswer DEF AnswerStranger, Ended
<1>2. CASE AnswerExpired(k)
  <2>1. BookingsOK' /\ Grows /\ clock' = clock /\ faults' \in 0 .. MaxFaults
    BY <1>2, SameBookings DEF AnswerExpired, IInv, TypeOK, BookingsOK
  <2>2. PICK x \in {"login", "problem"} :
          x = IF calls[k].op = "open" THEN "login" ELSE "problem"
    OBVIOUS
  <2>3. Unanswered(k) /\ Ended(Visitor(k)) /\ AnswerAll(k, Everywhere(x))
    BY <1>2, <2>2 DEF AnswerExpired, Ended
  <2> QED
    BY <2>1, <2>3, SameAnswer
<1>3. CASE AnswerUnavailable(k)
  <2>1. BookingsOK' /\ Grows /\ clock' = clock
    <3>1. CASE UNCHANGED bookings
      BY <1>3, <3>1, SameBookings DEF AnswerUnavailable, IInv, TypeOK, BookingsOK
    <3>2. ASSUME NEW b \in calls[k].about, ChangeStatus(b, "cancelled")
          PROVE  BookingsOK' /\ Grows /\ clock' = clock
      <4>1. b \in Booking /\ "cancelled" \in BookingStatus
        BY <1>3, <3>2 DEF AnswerUnavailable, Unanswered, IInv, TypeOK, Call, BookingStatus
      <4> QED
        BY <1>3, <3>2, <4>1, ChangeStep DEF AnswerUnavailable, IInv, TypeOK, BookingsOK
    <3> QED
      BY <1>3, <3>1, <3>2 DEF AnswerUnavailable
  <2>2. faults' \in 0 .. MaxFaults
    BY <1>3, WebSessionAssumption DEF AnswerUnavailable, Fault, IInv, TypeOK
  <2>3. PICK x \in {"none", "problem"} :
          x = IF calls[k].op = "open" THEN "none" ELSE "problem"
    OBVIOUS
  <2>4. Unanswered(k) /\ AnswerAll(k, Everywhere(x))
    BY <1>3, <2>3 DEF AnswerUnavailable
  <2> QED
    BY <2>1, <2>2, <2>4, SameAnswer
<1> QED
  BY <1>1, <1>2, <1>3

(* The readers: the list, and one row of it.                                *)
LEMMA ReadStep ==
  ASSUME IInv, NEW k \in Connection, AnswerList(k) \/ AnswerStatus(k)
  PROVE  IInv'
<1>1. PICK x \in {"none", "problem"} :
        AnswerAll(k, [b \in Booking |-> IF Owns(k, b) THEN bookings[b].status ELSE x])
  BY DEF AnswerList, AnswerStatus
<1>2. ASSUME NEW b \in Booking, Owns(k, b)
      PROVE  Exists(b) /\ bookings[b].status \in BookingStatus
  BY <1>2 DEF Owns, Exists, IInv, TypeOK, BookingRow
<1>3. PICK shown \in [Booking -> Shown] :
        shown = [b \in Booking |-> IF Owns(k, b) THEN bookings[b].status ELSE x]
  BY <1>2 DEF Shown
<1>4. /\ BookingsOK' /\ Grows /\ clock' = clock /\ bookings' = bookings
      /\ faults' \in 0 .. MaxFaults /\ Unanswered(k)
  BY SameBookings DEF AnswerList, AnswerStatus, Known, IInv, TypeOK, BookingsOK
<1>5. calls[k].about \subseteq Booking
  BY <1>4 DEF Unanswered, IInv, TypeOK, Call
<1>6. \A b \in calls[k].about : shown[b] \in BookingStatus =>
        Exists(b)' /\ bookings'[b].status = shown[b]
  <2> SUFFICES ASSUME NEW b \in Booking, shown[b] \in BookingStatus
               PROVE  Exists(b)' /\ bookings'[b].status = shown[b]
    BY <1>5
  <2>1. x \notin BookingStatus
    BY DEF BookingStatus
  <2>2. Owns(k, b)
    BY <1>3, <2>1
  <2> QED
    BY <1>2, <1>3, <1>4, <2>2 DEF Exists
<1>7. \A b \in calls[k].about : shown[b] # "login"
  BY <1>2, <1>3, <1>5 DEF BookingStatus
<1>8. AnswerAll(k, shown)
  BY <1>1, <1>3
<1> QED
  BY <1>4, <1>6, <1>7, <1>8, AnswerStep

LEMMA CancelStep ==
  ASSUME IInv, NEW k \in Connection, AnswerCancel(k)
  PROVE  IInv'
<1>1. Unanswered(k) /\ calls[k].op = "cancel" /\ clock' = clock /\ faults' = faults
  BY DEF AnswerCancel, Known
<1>2. PICK b \in calls[k].about :
        IF Owns(k, b)
          THEN /\ CancelledOrRefused(b)
               /\ AnswerAll(k, Everywhere(IF bookings'[b].status = "cancelled"
                                            THEN "cancelled" ELSE "problem"))
          ELSE UNCHANGED bookings /\ AnswerAll(k, Everywhere("problem"))
  BY DEF AnswerCancel
<1>3. calls[k].about = {b} /\ b \in Booking
  <2>1. PICK o \in Call \ {Idle} : o = calls[k]
    BY <1>1 DEF Unanswered, IInv, TypeOK
  <2> QED
    BY <1>1, <1>2, <2>1 DEF IInv, CallInv, RightCall, Call
<1>4. BookingsOK' /\ Grows
  <2>1. CASE UNCHANGED bookings
    BY <1>1, <2>1, SameBookings DEF IInv, TypeOK, BookingsOK
  <2>2. CASE ChangeStatus(b, "cancelled")
    <3>1. "cancelled" \in BookingStatus
      BY DEF BookingStatus
    <3> QED
      BY <1>1, <1>3, <2>2, <3>1, ChangeStep DEF IInv, TypeOK, BookingsOK
  <2> QED
    BY <1>2, <2>1, <2>2 DEF CancelledOrRefused
<1>5. faults' \in 0 .. MaxFaults
  BY <1>1 DEF IInv, TypeOK
<1>6. CASE AnswerAll(k, Everywhere("problem"))
  BY <1>1, <1>4, <1>5, <1>6, SameAnswer
<1>7. CASE /\ Owns(k, b) /\ bookings'[b].status = "cancelled"
           /\ AnswerAll(k, Everywhere("cancelled"))
  <2>1. PICK shown \in [Booking -> Shown] : shown = Everywhere("cancelled")
    BY DEF Everywhere, Shown, BookingStatus
  <2>2. \A c \in calls[k].about : c = b /\ shown[c] = "cancelled"
    BY <1>3, <2>1 DEF Everywhere
  <2>3. Exists(b)'
    BY <1>3, <1>4, <1>7 DEF Owns, Grows
  <2>4. AnswerAll(k, shown)
    BY <1>7, <2>1
  <2> QED
    BY <1>1, <1>4, <1>5, <1>7, <2>2, <2>3, <2>4, AnswerStep
<1> QED
  BY <1>2, <1>6, <1>7

-----------------------------------------------------------------------------
(* The browser receives the answer. *)

(* Rows are replaced; the calls whose rows they were are off the page.      *)
LEMMA SwapStep ==
  ASSUME IInv, NEW k \in Connection, calls[k] # Idle, calls' = AfterSwap(k),
         NEW t \in Tab, t = calls[k].tab,
         NEW r \in [Booking -> Shown], rows' = [rows EXCEPT ![t] = r],
         \A b \in Booking \ calls[k].about : r[b] = rows[t][b],
         \A b \in Booking : r[b] \in BookingStatus => WasTrue(b, r[b]),
         UNCHANGED <<clock, bookings, form>>,
         session' \in Session \cup {NoSession}, faults' \in 0 .. MaxFaults
  PROVE  IInv'
<1>1. BookingsOK' /\ Grows
  BY SameBookings DEF IInv, TypeOK, BookingsOK
<1>2. rows' \in [Tab -> [Booking -> Shown]]
  BY DEF IInv, TypeOK
<1>3. RowsWereTrue'
  <2> SUFFICES ASSUME NEW u \in Tab, NEW b \in Booking, rows'[u][b] \in BookingStatus
               PROVE  Exists(b)' /\ bookings'[b].status \in Later[rows'[u][b]]
    BY DEF RowsWereTrue
  <2>1. CASE u = t
    BY <2>1 DEF IInv, TypeOK, WasTrue, Exists
  <2>2. CASE u # t
    BY <2>2 DEF IInv, TypeOK, RowsWereTrue, Exists
  <2> QED
    BY <2>1, <2>2
<1>4. ASSUME NEW j \in Connection, calls'[j] # Idle
      PROVE  /\ calls'[j] \in Call
             /\ \A o \in Call \ {Idle} : calls'[j] = o => RightCall(o)'
  <2>1. j # k /\ calls[j] # Idle
    BY <1>4, WebSessionAssumption DEF AfterSwap
  <2>2. PICK p \in Call \ {Idle} : p = calls[j]
    BY <2>1 DEF IInv, TypeOK
  <2>3. RightCall(p)
    BY <2>2 DEF IInv, CallInv
  <2>4. CASE calls'[j] = p
    <3>1. SameRows(p)
      <4> SUFFICES ASSUME p.live, p.op # "open", NEW b \in p.about
                   PROVE  rows'[p.tab][b] = rows[p.tab][b]
        BY DEF SameRows
      <4>1. p.tab \in Tab /\ b \in Booking
        BY DEF Call
      <4>2. CASE p.tab # t
        BY <4>1, <4>2 DEF IInv, TypeOK
      <4>3. CASE p.tab = t /\ b \notin calls[k].about
        BY <4>1, <4>3 DEF IInv, TypeOK
      <4>4. CASE p.tab = t /\ b \in calls[k].about
        <5>1. calls'[j] = [calls[j] EXCEPT !.live = FALSE]
          BY <2>1, <2>2, <4>4 DEF AfterSwap, Replaces
        <5>2. [p EXCEPT !.live = FALSE].live = FALSE
          BY DEF Call
        <5> QED
          BY <2>2, <2>4, <5>1, <5>2
      <4> QED
        BY <4>2, <4>3, <4>4
    <3> QED
      BY <1>1, <2>3, <2>4, <3>1, CallStays DEF IInv, TypeOK, BookingsOK
  <2>5. CASE calls'[j] = [p EXCEPT !.live = FALSE]
    <3>1. PICK n \in Call : n = [p EXCEPT !.live = FALSE]
      <4>1. [p EXCEPT !.live = FALSE] \in Call
        BY DEF Call
      <4> QED
        BY <4>1
    <3>2. /\ n.live = FALSE /\ n.tab = p.tab /\ n.op = p.op /\ n.about = p.about
          /\ n.session = p.session /\ n.answer = p.answer
      BY <3>1 DEF Call
    <3>3. RightCall(n)
      BY <2>3, <3>2 DEF RightCall, AnswerTrue, AnswerNotBehind
    <3>4. SameRows(n)
      BY <3>2 DEF SameRows
    <3>5. RightCall(n)'
      BY <1>1, <3>3, <3>4, CallStays DEF IInv, TypeOK, BookingsOK
    <3> QED
      BY <2>5, <3>1, <3>5
  <2> QED
    BY <2>1, <2>2, <2>4, <2>5 DEF AfterSwap
<1>5. calls' \in [Connection -> Call \cup {Idle}]
  <2>1. DOMAIN calls' = Connection /\ calls' = [j \in Connection |-> calls'[j]]
    BY DEF AfterSwap
  <2> QED
    BY <1>4, <2>1
<1>6. CallInv'
  BY <1>4 DEF CallInv
<1>7. TypeOK'
  BY <1>1, <1>2, <1>5 DEF IInv, TypeOK, BookingsOK
<1> QED
  BY <1>3, <1>6, <1>7 DEF IInv

(* A request is over and changes no row.                                    *)
LEMMA DropStep ==
  ASSUME IInv, NEW k \in Connection, calls' = [calls EXCEPT ![k] = Idle],
         UNCHANGED <<clock, bookings, form, rows>>,
         session' \in Session \cup {NoSession}, faults' \in 0 .. MaxFaults
  PROVE  IInv'
<1>1. BookingsOK' /\ Grows
  BY SameBookings DEF IInv, TypeOK, BookingsOK
<1>2. calls' \in [Connection -> Call \cup {Idle}] /\ CallInv'
  BY <1>1, OneCall
<1>3. TypeOK'
  BY <1>1, <1>2 DEF IInv, TypeOK, BookingsOK
<1> QED
  BY <1>1, <1>2, <1>3, RowsStay DEF IInv

(* The answer that a call carries.                                          *)
LEMMA AnswerOf ==
  ASSUME IInv, NEW k \in Connection, Answered(k)
  PROVE  \E o \in Call \ {Idle} :
           /\ o = calls[k] /\ RightCall(o) /\ o.answer # NoAnswer
           /\ o.tab \in Tab /\ o.about \subseteq Booking
           /\ o.answer \in [o.about -> Shown]
<1>1. PICK o \in Call \ {Idle} : o = calls[k]
  BY DEF Answered, IInv, TypeOK
<1>2. RightCall(o) /\ o.answer # NoAnswer
  BY <1>1 DEF Answered, IInv, CallInv
<1>3. o.tab \in Tab /\ o.about \subseteq Booking
  BY DEF Call
<1>4. PICK X \in SUBSET Booking : o.answer \in [X -> Shown]
  BY <1>2 DEF Call
<1>5. o.answer \in [o.about -> Shown]
  BY <1>2, <1>4 DEF RightCall
<1> QED
  BY <1>1, <1>2, <1>3, <1>5

LEMMA ReceiveStep ==
  ASSUME IInv, NEW k \in Connection, Receive(k) \/ ReceiveInVain(k) \/ LoseAnswer(k)
  PROVE  IInv'
<1>1. CASE Receive(k)
  <2>1. PICK o \in Call \ {Idle} :
          /\ o = calls[k] /\ RightCall(o) /\ o.answer # NoAnswer
          /\ o.tab \in Tab /\ o.about \subseteq Booking
          /\ o.answer \in [o.about -> Shown]
    BY <1>1, AnswerOf DEF Receive
  <2>2. PICK lp \in BOOLEAN : lp = (o.op = "open" /\ IsLoginPage(k))
    OBVIOUS
  <2>3. PICK r \in [Booking -> Shown] :
          r = [b \in Booking |-> IF b \notin o.about THEN rows[o.tab][b]
                                 ELSE IF lp THEN "none" ELSE o.answer[b]]
    <3>1. "none" \in Shown
      BY DEF Shown
    <3>2. rows[o.tab] \in [Booking -> Shown]
      BY <2>1 DEF IInv, TypeOK
    <3> QED
      BY <2>1, <3>1, <3>2
  <2>4. rows' = [rows EXCEPT ![o.tab] = r]
    BY <1>1, <2>1, <2>2, <2>3, Zenon DEF Receive, IInv, TypeOK
  <2>5. \A b \in Booking \ o.about : r[b] = rows[o.tab][b]
    BY <2>3
  <2>6. \A b \in Booking : r[b] \in BookingStatus => WasTrue(b, r[b])
    <3> SUFFICES ASSUME NEW b \in Booking, r[b] \in BookingStatus PROVE WasTrue(b, r[b])
      OBVIOUS
    <3>1. "none" \notin BookingStatus
      BY DEF BookingStatus
    <3>2. CASE b \notin o.about
      BY <2>1, <2>3, <3>2 DEF IInv, RowsWereTrue, WasTrue
    <3>3. CASE b \in o.about
      BY <2>1, <2>3, <3>1, <3>3 DEF RightCall, AnswerTrue
    <3> QED
      BY <3>2, <3>3
  <2>7. session' \in Session \cup {NoSession} /\ faults' \in 0 .. MaxFaults
    BY <1>1 DEF Receive, IInv, TypeOK
  <2>8. calls' = AfterSwap(k) /\ UNCHANGED <<clock, bookings, form>> /\ calls[k] # Idle
    BY <1>1 DEF Receive, Answered
  <2> QED
    BY <2>1, <2>4, <2>5, <2>6, <2>7, <2>8, SwapStep, Zenon
<1>2. CASE ReceiveInVain(k)
  BY <1>2, DropStep DEF ReceiveInVain, IInv, TypeOK
<1>3. CASE LoseAnswer(k)
  <2>1. faults' \in 0 .. MaxFaults /\ session' \in Session \cup {NoSession}
    BY <1>3, WebSessionAssumption DEF LoseAnswer, Fault, IInv, TypeOK
  <2>2. CASE calls[k].op = "open" /\ calls[k].live
    <3>1. PICK o \in Call \ {Idle} : o = calls[k] /\ o.tab \in Tab /\ o.about = Booking
      <4>1. PICK o \in Call \ {Idle} : o = calls[k]
        BY <1>3 DEF LoseAnswer, IInv, TypeOK
      <4> QED
        BY <2>2, <4>1 DEF IInv, CallInv, RightCall, Call
    <3>2. PICK r \in [Booking -> Shown] : r = NoRows
      BY DEF NoRows, Shown
    <3>3. \A b \in Booking : r[b] \notin BookingStatus
      BY <3>2 DEF NoRows, BookingStatus
    <3>4. rows' = [rows EXCEPT ![o.tab] = r]
      BY <1>3, <2>2, <3>1, <3>2 DEF LoseAnswer
    <3>5. calls[k] # Idle /\ calls' = AfterSwap(k) /\ UNCHANGED <<clock, bookings, form>>
      BY <1>3, <2>2 DEF LoseAnswer
    <3> QED
      BY <2>1, <3>1, <3>3, <3>4, <3>5, SwapStep
  <2>3. CASE ~(calls[k].op = "open" /\ calls[k].live)
    BY <1>3, <2>1, <2>3, DropStep DEF LoseAnswer
  <2> QED
    BY <2>2, <2>3
<1> QED
  BY <1>1, <1>2, <1>3

-----------------------------------------------------------------------------
LEMMA InitIInv == Init => IInv
<1> SUFFICES ASSUME Init PROVE IInv
  OBVIOUS
<1>1. /\ clock = 0 /\ bookings = [b \in Booking |-> NoRow] /\ session = NoSession /\ form = "none"
      /\ rows = [t \in Tab |-> NoRows] /\ calls = [k \in Connection |-> Idle] /\ faults = 0
  BY DEF Init
<1>2. NoRows \in [Booking -> Shown] /\ \A b \in Booking : NoRows[b] \notin BookingStatus
  BY DEF NoRows, Shown, BookingStatus
<1>3. TypeOK
  BY <1>1, <1>2, WebSessionAssumption DEF TypeOK, Form
<1>4. RowsWereTrue
  BY <1>1, <1>2 DEF RowsWereTrue
<1>5. CallInv
  BY <1>1 DEF CallInv
<1> QED
  BY <1>3, <1>4, <1>5 DEF IInv

LEMMA NextIInv == IInv /\ [Next]_vars => IInv'
<1> SUFFICES ASSUME IInv, [Next]_vars PROVE IInv'
  OBVIOUS
<1>1. CASE Next
  <2>1. ASSUME NEW k \in Connection, Answer(k) \/ AnswerUnavailable(k) PROVE IInv'
    BY <2>1, RefusalStep, ReadStep, CancelStep DEF Answer
  <2>2. ASSUME NEW k \in Connection, Arrive(k) \/ LoseAnswer(k) PROVE IInv'
    BY <2>2, ReceiveStep DEF Arrive
  <2> QED
    BY <1>1, <2>1, <2>2, ElsewhereStep, BrowserStep DEF Next
<1> QED
  BY <1>1, ElsewhereStep

(* The strengthened invariant.                                              *)
THEOREM Invariance == Spec => []IInv
  BY InitIInv, NextIInv, PTL DEF Spec

(* Every variable keeps its type.                                           *)
THEOREM TypeCorrect == Spec => []TypeOK
<1>1. IInv => TypeOK
  BY DEF IInv
<1> QED
  BY <1>1, Invariance, PTL

(* A row shows a status its booking has had, however many requests of how   *)
(* many tabs are answered in whatever order (app.py, booking_row).          *)
THEOREM RowsAreTrue == Spec => []RowsWereTrue
<1>1. IInv => RowsWereTrue
  BY DEF IInv
<1> QED
  BY <1>1, Invariance, PTL

(* What the answer to a call does to a row that stays: only its own rows    *)
(* change, and they do not go back.                                         *)
LEMMA RowStep ==
  ASSUME IInv, [Next]_vars, NEW t \in Tab, NEW b \in Booking,
         rows[t][b] \in BookingStatus, rows'[t][b] \in BookingStatus,
         ~\E k \in Connection : Receive(k) /\ calls[k].op = "open"
  PROVE  rows'[t][b] \in Later[rows[t][b]]
<1>1. CASE rows' = rows
  BY <1>1, LaterMoves
<1>2. ASSUME NEW k \in Connection, Receive(k)
      PROVE  rows'[t][b] \in Later[rows[t][b]]
  <2>1. PICK o \in Call \ {Idle} :
          /\ o = calls[k] /\ RightCall(o) /\ o.answer # NoAnswer
          /\ o.tab \in Tab /\ o.about \subseteq Booking
          /\ o.answer \in [o.about -> Shown]
    BY <1>2, AnswerOf, Zenon DEF Receive
  <2>2. o.live /\ o.op # "open"
    BY <1>2, <2>1, Zenon DEF Receive
  <2>3. rows'[t][b] = IF t = o.tab /\ b \in o.about THEN o.answer[b] ELSE rows[t][b]
    BY <1>2, <2>1, <2>2 DEF Receive, IInv, TypeOK
  <2>4. CASE t = o.tab /\ b \in o.about
    BY <2>1, <2>2, <2>3, <2>4 DEF RightCall, AnswerNotBehind
  <2>5. CASE ~(t = o.tab /\ b \in o.about)
    BY <2>3, <2>5, LaterMoves
  <2> QED
    BY <2>4, <2>5
<1>3. ASSUME NEW k \in Connection, LoseAnswer(k)
      PROVE  rows'[t][b] \in Later[rows[t][b]]
  <2>1. PICK o \in Call \ {Idle} : o = calls[k] /\ o.tab \in Tab
    BY <1>3 DEF LoseAnswer, IInv, TypeOK, Call
  <2>2. \/ rows' = rows
        \/ rows' = [rows EXCEPT ![o.tab] = NoRows]
    BY <1>3, <2>1 DEF LoseAnswer
  <2>3. NoRows[b] \notin BookingStatus
    BY DEF NoRows, BookingStatus
  <2>4. rows'[t][b] = rows[t][b]
    BY <2>1, <2>2, <2>3 DEF IInv, TypeOK
  <2> QED
    BY <2>4, LaterMoves
<1>4. \/ rows' = rows
      \/ \E k \in Connection : Receive(k) \/ LoseAnswer(k)
  BY DEF Next, vars, browser, Tick, Book, Move, PostForm, FormAnswered,
         Login, Logout, LoginRefused, LoseForm, Open, Poll, Cancel, Send,
         Answer, AnswerStranger, AnswerExpired, AnswerList, AnswerStatus, AnswerCancel,
         AnswerUnavailable, AnswerAll, Arrive, ReceiveInVain
<1> QED
  BY <1>1, <1>2, <1>3, <1>4

(* While a page stays, its rows do not go back to an earlier status: the    *)
(* answer to an old poll never undoes that to a later cancellation.         *)
THEOREM RowsGoForward == Spec => RowsNeverGoBack
<1>1. IInv /\ [Next]_vars =>
        [\A t \in Tab, b \in Booking :
           \/ rows[t][b] \notin BookingStatus
           \/ rows'[t][b] \notin BookingStatus
           \/ rows'[t][b] \in Later[rows[t][b]]
           \/ \E k \in Connection : Receive(k) /\ calls[k].op = "open"]_vars
  BY RowStep
<1> QED
  BY <1>1, Invariance, PTL DEF Spec, RowsNeverGoBack

(* A session ends by a logout, by a login that web refuses, by time, or by  *)
(* the answer to a request that had none: no refusal, failure or silence of *)
(* booking logs anybody out, and no login that succeeds.                    *)
THEOREM NobodyIsThrownOut == Spec => SessionsEndForAReason
<1>1. ASSUME IInv, [Next]_vars, session # NoSession, session' = NoSession
      PROVE  \/ Logout
             \/ LoginRefused
             \/ session.until <= clock
             \/ \E k \in Connection :
                  /\ Receive(k) \/ ReceiveInVain(k)
                  /\ calls[k].session = NoSession \/ calls[k].session.until <= clock
  <2>1. ~\E c \in Client : Login(c)
    <3> SUFFICES ASSUME NEW c \in Client, Login(c) PROVE FALSE
      OBVIOUS
    <3>1. clock + SessionLifetime \in 1 .. (MaxTime + SessionLifetime)
      BY <1>1, WebSessionAssumption DEF IInv, TypeOK
    <3>2. session' \in Session
      BY <3>1 DEF Login, Session
    <3> QED
      BY <1>1, <3>2, WebSessionAssumption
  <2>2. ASSUME session' = Cookies PROVE session.until <= clock
    <3>1. ~(session.until > clock)
      BY <1>1, <2>2 DEF Cookies
    <3>2. session.until \in Nat /\ clock \in Nat
      BY <1>1, WebSessionAssumption DEF IInv, TypeOK, Session
    <3> QED
      BY <3>1, <3>2
  <2>3. ASSUME NEW k \in Connection, Receive(k) \/ ReceiveInVain(k)
        PROVE  calls[k].session = NoSession \/ calls[k].session.until <= clock
    <3>1. PICK o \in Call \ {Idle} :
            /\ o = calls[k] /\ RightCall(o) /\ o.answer # NoAnswer
            /\ o.tab \in Tab /\ o.about \subseteq Booking
            /\ o.answer \in [o.about -> Shown]
      BY <1>1, <2>3, AnswerOf DEF Receive, ReceiveInVain
    <3>2. IsLoginPage(k)
      BY <1>1, <2>3 DEF Receive, ReceiveInVain
    <3> QED
      BY <3>1, <3>2 DEF IsLoginPage, RightCall, AnswerTrue, Ended
  <2>4. \/ session' = session \/ session' = Cookies \/ Logout \/ LoginRefused
        \/ \E c \in Client : Login(c)
        \/ \E k \in Connection : Receive(k) \/ ReceiveInVain(k)
    BY <1>1 DEF Next, vars, browser, Tick, Book, Move, PostForm, LoseForm, Open, Poll, Cancel, Send,
         Answer, AnswerStranger, AnswerExpired, AnswerList, AnswerStatus, AnswerCancel,
         AnswerUnavailable, AnswerAll, Arrive, LoseAnswer
  <2> QED
    BY <1>1, <2>1, <2>2, <2>3, <2>4
<1>2. IInv /\ [Next]_vars =>
        [session # NoSession /\ session' = NoSession =>
           \/ Logout
           \/ LoginRefused
           \/ session.until <= clock
           \/ \E k \in Connection :
                /\ Receive(k) \/ ReceiveInVain(k)
                /\ calls[k].session = NoSession \/ calls[k].session.until <= clock]_vars
  BY <1>1
<1> QED
  BY <1>2, Invariance, PTL DEF Spec, SessionsEndForAReason
=============================================================================
