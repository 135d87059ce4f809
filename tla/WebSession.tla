----------------------------- MODULE WebSession -----------------------------
(***************************************************************************)
(* What a client sees of his bookings (services/web): the tabs of one      *)
(* browser, which share the cookies of one session, the web service, which *)
(* keeps nothing, and the bookings, which others move along the allowed    *)
(* transitions (BookingService!MovesAreAllowed) at any time.               *)
(*                                                                         *)
(* A tab shows the rows of /bookings.  A pending row asks for itself once  *)
(* a second and is replaced by the answer; so it is by the answer to its   *)
(* button "cancel".  An answer whose row is no longer on the page changes  *)
(* nothing.  Requests of a tab run side by side and are answered in any    *)
(* order; the session may end, or be another's, before the answer comes.   *)
(***************************************************************************)
EXTENDS BookingDomain

CONSTANTS Booking, Client, NoRow,   \* see SlotBooking
          MaxTime,          \* bound: the clock stops here
          Tab,              \* tabs of the browser
          Connection,       \* bound: requests of the browser at a time, forms included
          SessionLifetime,  \* SESSION_LIFETIME
          NoSession,        \* no cookies
          Idle, NoAnswer,   \* a free connection; a request not answered yet
          MaxFaults         \* bound: lost answers and refusals of booking to serve

VARIABLES clock,
          bookings,   \* table bookings: whose they are, and their status
          session,    \* the cookies: whose token, and until when
          form,       \* the form under way; bound: one at a time
          rows,       \* what each tab shows of each booking
          calls,      \* the request on each connection
          faults      \* faults so far

vars == <<clock, bookings, session, form, rows, calls, faults>>
browser == <<session, form, rows, calls>>

BookingRow == [client : Client, status : BookingStatus]

Exists(b) == bookings[b] # NoRow

Session == [who : Client, until : 1 .. (MaxTime + SessionLifetime)]

ASSUME WebSessionAssumption ==
  /\ SessionLifetime \in Nat \ {0} /\ MaxTime \in Nat /\ MaxFaults \in Nat
  /\ NoRow \notin BookingRow /\ NoSession \notin Session

(* What base.html and login.html post; "none" is no form under way. *)
Form == {"none", "login", "logout"}

(* A status; no row; the reason of a refusal; the login page in its place. *)
Shown == BookingStatus \cup {"none", "problem", "login"}

(* `about` are the rows the answer replaces: one, or all of a page.  A call *)
(* is live while these are still on the page.                               *)
Call == [tab : Tab, op : {"open", "poll", "cancel"}, about : SUBSET Booking,
         session : Session \cup {NoSession}, live : BOOLEAN,
         answer : (UNION {[X -> Shown] : X \in SUBSET Booking}) \cup {NoAnswer}]

TypeOK ==
  /\ clock \in 0 .. MaxTime
  /\ bookings \in [Booking -> BookingRow \cup {NoRow}]
  /\ session \in Session \cup {NoSession}
  /\ form \in Form
  /\ rows \in [Tab -> [Booking -> Shown]]
  /\ calls \in [Connection -> Call \cup {Idle}]
  /\ faults \in 0 .. MaxFaults

NoRows == [b \in Booking |-> "none"]

Init ==
  /\ clock = 0
  /\ bookings = [b \in Booking |-> NoRow]
  /\ session = NoSession
  /\ form = "none"
  /\ rows = [t \in Tab |-> NoRows]
  /\ calls = [k \in Connection |-> Idle]
  /\ faults = 0

Fault == faults < MaxFaults /\ faults' = faults + 1

Unanswered(k) == calls[k] # Idle /\ calls[k].answer = NoAnswer

Answered(k) == calls[k] # Idle /\ calls[k].answer # NoAnswer

-----------------------------------------------------------------------------
(* Everybody else: other clients, masters, payments. *)

Tick ==
  /\ clock < MaxTime
  /\ clock' = clock + 1
  /\ UNCHANGED <<bookings, browser, faults>>

Book(b, c) ==
  /\ ~Exists(b)
  /\ bookings' = [bookings EXCEPT ![b] = [client |-> c, status |-> "pending"]]
  /\ UNCHANGED <<clock, browser, faults>>

ChangeStatus(b, target) ==
  /\ Exists(b)
  /\ CanTransition(bookings[b].status, target)
  /\ bookings' = [bookings EXCEPT ![b].status = target]

Move(b, target) ==
  /\ ChangeStatus(b, target)
  /\ UNCHANGED <<clock, browser, faults>>

-----------------------------------------------------------------------------
(* The browser asks. *)

(* The browser drops cookies that are past their max_age. *)
Cookies == IF session # NoSession /\ session.until > clock THEN session ELSE NoSession

(* In whichever tab, and however old its page is: a form stays where it was *)
(* drawn, whoever has logged in since.  That tab shows no rows afterwards;  *)
(* the others do not notice.  To leave /bookings is an Open here: the rows  *)
(* go, and may come anew.                                                   *)
PostForm(f) ==
  /\ form = "none"
  /\ \E k \in Connection : calls[k] = Idle
  /\ form' = f
  /\ session' = Cookies
  /\ UNCHANGED <<clock, bookings, rows, calls, faults>>

FormAnswered(f) ==
  /\ form = f
  /\ form' = "none"
  /\ UNCHANGED <<clock, bookings, rows, calls, faults>>

Login(c) ==
  /\ FormAnswered("login")
  /\ session' = [who |-> c, until |-> clock + SessionLifetime]

(* A name that clean_name refuses, or a role there is not: the login page,  *)
(* and the cookies are deleted, whosever they are by now.                   *)
LoginRefused ==
  /\ FormAnswered("login")
  /\ session' = NoSession

Logout ==
  /\ FormAnswered("logout")
  /\ session' = NoSession

(* No answer, whatever web made of the form: it keeps nothing.              *)
LoseForm ==
  /\ \E f \in Form \ {"none"} : FormAnswered(f)
  /\ UNCHANGED session

Asking(t, op, b) ==
  \E k \in Connection : /\ calls[k] # Idle /\ calls[k].live
                        /\ calls[k].tab = t /\ calls[k].op = op /\ b \in calls[k].about

Send(k, t, op, about) ==
  /\ calls[k] = Idle
  /\ form # "none" => \E j \in Connection \ {k} : calls[j] = Idle
  /\ calls' = [calls EXCEPT ![k] =
       [tab |-> t, op |-> op, about |-> about, session |-> Cookies,
        live |-> TRUE, answer |-> NoAnswer]]
  /\ session' = Cookies
  /\ UNCHANGED <<clock, bookings, form, rows, faults>>

Open(t) ==
  /\ ~\E b \in Booking : Asking(t, "open", b)
  /\ \E k \in Connection : Send(k, t, "open", Booking)

Polling(t, b) == rows[t][b] = "pending"

Poll(t, b) ==
  /\ Polling(t, b)
  /\ ~Asking(t, "poll", b)
  /\ \E k \in Connection : Send(k, t, "poll", {b})

(* The button is disabled while its request is under way. *)
Cancel(t, b) ==
  /\ rows[t][b] \in ActiveStatuses
  /\ ~Asking(t, "cancel", b)
  /\ \E k \in Connection : Send(k, t, "cancel", {b})

-----------------------------------------------------------------------------
(* Web answers.  Each handler makes at most one call to booking. *)

AnswerAll(k, shown) ==
  /\ calls' = [calls EXCEPT ![k].answer = [b \in calls[k].about |-> shown[b]]]
  /\ UNCHANGED <<session, form, rows>>

Everywhere(x) == [b \in Booking |-> x]

Visitor(k) == calls[k].session

(* The login page, whatever was asked: booking is not called. *)
AnswerStranger(k) ==
  /\ Unanswered(k)
  /\ Visitor(k) = NoSession
  /\ AnswerAll(k, Everywhere("login"))
  /\ UNCHANGED <<clock, bookings, faults>>

(* 401: the page becomes the login page, but a row becomes a problem. *)
AnswerExpired(k) ==
  /\ Unanswered(k)
  /\ Visitor(k) # NoSession
  /\ Visitor(k).until <= clock
  /\ AnswerAll(k, Everywhere(IF calls[k].op = "open" THEN "login" ELSE "problem"))
  /\ UNCHANGED <<clock, bookings, faults>>

Known(k) == Unanswered(k) /\ Visitor(k) # NoSession /\ Visitor(k).until > clock

Owns(k, b) == Exists(b) /\ bookings[b].client = Visitor(k).who

(* list_my_bookings *)
AnswerList(k) ==
  /\ Known(k)
  /\ calls[k].op = "open"
  /\ AnswerAll(k, [b \in Booking |-> IF Owns(k, b) THEN bookings[b].status ELSE "none"])
  /\ UNCHANGED <<clock, bookings, faults>>

(* Mutant: the browser answers from its cache. *)
AnswerStatusCached(k) ==
  /\ Known(k)
  /\ calls[k].op = "poll"
  /\ AnswerAll(k, rows[calls[k].tab])
  /\ UNCHANGED <<clock, bookings, faults>>

(* get_owned_booking: a booking of somebody else does not exist. *)
AnswerStatus(k) ==
  /\ Known(k)
  /\ calls[k].op = "poll"
  /\ AnswerAll(k, [b \in Booking |-> IF Owns(k, b) THEN bookings[b].status ELSE "problem"])
  /\ UNCHANGED <<clock, bookings, faults>>

CancelledOrRefused(b) ==
  \/ ChangeStatus(b, "cancelled")
  \/ ~CanTransition(bookings[b].status, "cancelled") /\ UNCHANGED bookings

(* Mutant: whatever booking says, the row shows what was asked for. *)
AnswerCancelAsDone(k) ==
  /\ Known(k)
  /\ calls[k].op = "cancel"
  /\ \E b \in calls[k].about :
       IF Owns(k, b)
         THEN CancelledOrRefused(b) /\ AnswerAll(k, Everywhere("cancelled"))
         ELSE UNCHANGED bookings /\ AnswerAll(k, Everywhere("problem"))
  /\ UNCHANGED <<clock, faults>>

(* To cancel again is a success; what has expired cannot be cancelled. *)
AnswerCancel(k) ==
  /\ Known(k)
  /\ calls[k].op = "cancel"
  /\ \E b \in calls[k].about :
       IF Owns(k, b)
         THEN /\ CancelledOrRefused(b)
              /\ AnswerAll(k, Everywhere(IF bookings'[b].status = "cancelled"
                                           THEN "cancelled" ELSE "problem"))
         ELSE UNCHANGED bookings /\ AnswerAll(k, Everywhere("problem"))
  /\ UNCHANGED <<clock, faults>>

(* Mutant: whatever goes wrong in listing, the visitor has to log in again. *)
AnswerUnavailableAsLogin(k) ==
  /\ Unanswered(k)
  /\ Visitor(k) # NoSession
  /\ Fault
  /\ AnswerAll(k, Everywhere(IF calls[k].op = "open" THEN "login" ELSE "problem"))
  /\ UNCHANGED <<clock, bookings>>

(* booking does not answer in time, though it may do what it was asked to. *)
AnswerUnavailable(k) ==
  /\ Unanswered(k)
  /\ Visitor(k) # NoSession
  /\ Fault
  /\ \/ UNCHANGED bookings
     \/ /\ Known(k)
        /\ calls[k].op = "cancel"
        /\ \E b \in calls[k].about : Owns(k, b) /\ ChangeStatus(b, "cancelled")
  /\ AnswerAll(k, Everywhere(IF calls[k].op = "open" THEN "none" ELSE "problem"))
  /\ UNCHANGED clock

-----------------------------------------------------------------------------
(* The browser receives the answer. *)

(* Mutant: the row is found by its id, so that any answer replaces it. *)
ReplacesById(k, j) == calls[k].op = "open"

(* The answer of call k takes the rows of call j off the page. *)
Replaces(k, j) == calls[k].op = "open" \/ calls[j].op # "open"

AfterSwap(k) ==
  [j \in Connection |->
     IF j = k THEN Idle
     ELSE IF /\ calls[j] # Idle /\ calls[j].tab = calls[k].tab
             /\ calls[j].about \cap calls[k].about # {}
             /\ Replaces(k, j)
       THEN [calls[j] EXCEPT !.live = FALSE]
       ELSE calls[j]]

IsLoginPage(k) == \E b \in calls[k].about : calls[k].answer[b] = "login"

(* A whole page of rows, or one row: swapped for what has come. *)
Receive(k) ==
  /\ Answered(k)
  /\ calls[k].live
  /\ rows' = [rows EXCEPT ![calls[k].tab] =
       [b \in Booking |-> IF b \notin calls[k].about THEN @[b]
                          ELSE IF calls[k].op = "open" /\ IsLoginPage(k) THEN "none"
                          ELSE calls[k].answer[b]]]
  /\ calls' = AfterSwap(k)
  /\ session' = IF IsLoginPage(k) THEN NoSession ELSE session
  /\ UNCHANGED <<clock, bookings, form, faults>>

(* The row is gone, or the page: only the cookies may still be deleted. *)
ReceiveInVain(k) ==
  /\ Answered(k)
  /\ ~calls[k].live
  /\ calls' = [calls EXCEPT ![k] = Idle]
  /\ session' \in {session} \cup (IF IsLoginPage(k) THEN {NoSession} ELSE {})
  /\ UNCHANGED <<clock, bookings, form, rows, faults>>

(* No answer, or a failure of web: a row stays, a page does not come. *)
LoseAnswer(k) ==
  /\ calls[k] # Idle
  /\ Fault
  /\ IF calls[k].op = "open" /\ calls[k].live
       THEN /\ rows' = [rows EXCEPT ![calls[k].tab] = NoRows]
            /\ calls' = AfterSwap(k)
       ELSE UNCHANGED rows /\ calls' = [calls EXCEPT ![k] = Idle]
  /\ UNCHANGED <<clock, bookings, session, form>>

-----------------------------------------------------------------------------
Answer(k) ==
  \/ AnswerStranger(k)
  \/ AnswerExpired(k)
  \/ AnswerList(k)
  \/ AnswerStatus(k)
  \/ AnswerCancel(k)

Arrive(k) == Receive(k) \/ ReceiveInVain(k)

Next ==
  \/ Tick
  \/ \E b \in Booking, c \in Client : Book(b, c)
  \/ \E b \in Booking, target \in BookingStatus : Move(b, target)
  \/ \E f \in Form \ {"none"} : PostForm(f)
  \/ Logout \/ LoginRefused \/ LoseForm \/ \E c \in Client : Login(c)
  \/ \E t \in Tab : Open(t)
  \/ \E t \in Tab, b \in Booking : Poll(t, b) \/ Cancel(t, b)
  \/ \E k \in Connection :
       Answer(k) \/ AnswerUnavailable(k) \/ Arrive(k) \/ LoseAnswer(k)

Spec == Init /\ [][Next]_vars

(* Pending rows ask every second, as soon as a connection is free; what was *)
(* asked is answered.  Nothing is assumed of people.                        *)
FairSpec ==
  /\ Spec
  /\ \A t \in Tab, b \in Booking : SF_vars(Poll(t, b))
  /\ \A k \in Connection : WF_vars(Answer(k)) /\ WF_vars(Arrive(k))

-----------------------------------------------------------------------------
(* Properties. *)

(* What a booking may have become since a status was read. *)
Later ==
  [pending   |-> BookingStatus,
   confirmed |-> {"confirmed", "cancelled"},
   cancelled |-> {"cancelled"},
   expired   |-> {"expired"}]

(* A row shows a status its booking has had: it never shows as cancelled    *)
(* what booking refused to cancel, however stale the row it was asked from. *)
RowsWereTrue ==
  \A t \in Tab, b \in Booking : rows[t][b] \in BookingStatus =>
    Exists(b) /\ bookings[b].status \in Later[rows[t][b]]

(* While a page stays, its rows do not go back to what was before: not when *)
(* the answer to an old poll arrives after the answer to a later cancel.    *)
RowsNeverGoBack ==
  [][\A t \in Tab, b \in Booking :
       \/ rows[t][b] \notin BookingStatus
       \/ rows'[t][b] \notin BookingStatus
       \/ rows'[t][b] \in Later[rows[t][b]]
       \/ \E k \in Connection : Receive(k) /\ calls[k].op = "open"]_vars

(* A session ends by time, by the answer to a form of its browser, or by    *)
(* the answer to a request that came without a session or with one that had *)
(* ended.  The form is a logout, or a login that web refuses: login_page    *)
(* forgets whoever is logged in when a stale login form carries a bad name. *)
(* Nothing else does: a booking service that refuses, fails or is silent    *)
(* logs nobody out, and neither does a login that succeeds.                 *)
SessionsEndForAReason ==
  [][session # NoSession /\ session' = NoSession =>
       \/ Logout
       \/ LoginRefused
       \/ session.until <= clock
       \/ \E k \in Connection :
            /\ Receive(k) \/ ReceiveInVain(k)
            /\ calls[k].session = NoSession \/ calls[k].session.until <= clock]_vars

(* A page does not go on waiting for a payment that has been settled: a row *)
(* that says `pending` of a settled booking changes.                        *)
SettledIsShown ==
  \A t \in Tab, b \in Booking :
    (rows[t][b] = "pending" /\ bookings[b].status # "pending") ~> (rows[t][b] # "pending")
=============================================================================
