------------------------ MODULE BookingServiceProofs ------------------------
(***************************************************************************)
(* For every number of requests, bookings, flights and attempts: the two   *)
(* databases never contradict each other (BookingLifecycle is              *)
(* implemented), and only bookings that somebody has begun to cancel can   *)
(* lose their seats to others.                                             *)
(***************************************************************************)
EXTENDS BookingService, SeatInventoryProofs

USE BookingServiceAssumption

\* The databases, the ids and the tasks' subjects.
tables == <<available, reservation, booking, issued, task>>

LEMMA BookingInitIInv == Init => IInv
<1> SUFFICES ASSUME Init PROVE IInv
  OBVIOUS
<1>0. InventoryInv
  BY InventoryInitInv DEF Init
<1>1. TypeOK
  <2>1. InventoryTypeOK
    BY <1>0 DEF InventoryInv
  <2>2. /\ booking \in [Bookings -> BookingRows]
        /\ task \in [Tasks -> TaskRecords]
    BY DEF Init, NoBookingRow, BookingRows, NoTask, TaskRecords
  <2>3. /\ issued \subseteq Bookings
        /\ pc \in [Tasks -> TaskStates]
        /\ attempt \in [Tasks -> 0 .. MaxAttempts]
        /\ answer \in [Tasks -> Codes]
        /\ outcome \in [Tasks -> Outcomes]
        /\ net \subseteq Tasks \X (1 .. MaxAttempts)
    BY DEF Init, TaskStates, Codes, Outcomes
  <2> QED
    BY <2>1, <2>2, <2>3 DEF TypeOK
<1>2. RowsWellFormed
  BY <1>0 DEF InventoryInv
<1>3. CallsFit
  BY DEF Init, CallsFit
<1>4. IdsUnique /\ RowsMatch
  BY DEF Init, InventoryInit, IdsUnique, RowsMatch, NoTask, NoBookingRow
<1>5. StepsJustified
  BY DEF Init, InventoryInit, StepsJustified, PhaseOf, NoRow, NoBookingRow
<1>6. AnswersHold
  BY DEF Init, AnswersHold
<1> QED
  BY <1>1, <1>2, <1>3, <1>4, <1>5, <1>6 DEF IInv

-----------------------------------------------------------------------------
\* Steps that leave the tables alone: what remains to be shown is that the task,
\* the network and the tables still fit.
LEMMA TablesKept ==
    ASSUME IInv, UNCHANGED tables, TypeOK', CallsFit',
           \A t \in Tasks :
              LET b == task[t].booking IN
              /\ pc'[t] \in {"reserve", "store"} => booking[b].status = "NONE"
              /\ pc'[t] = "reserve" /\ answer'[t] = "OK" => reservation[b].status = "ACTIVE"
              /\ pc'[t] = "store" => reservation[b].status = "ACTIVE"
              /\ pc'[t] = "release" => booking[b].status # "NONE"
              /\ pc'[t] = "release" /\ answer'[t] \in {"OK", "NOT_FOUND"} =>
                    reservation[b].status = "RELEASED"
              /\ pc'[t] = "mark" => reservation[b].status = "RELEASED",
           \A t \in Tasks, k \in 1 .. MaxAttempts :
              <<t, k>> \in net' /\ task[t].op = "cancel" =>
                  booking[task[t].booking].status # "NONE",
           \A t \in Tasks : outcome'[t] \in {"200", "201"} => outcome[t] = outcome'[t]
    PROVE  IInv'
<1> USE DEF IInv, tables
<1>1. RowsWellFormed'
  BY DEF RowsWellFormed
<1>2. IdsUnique' /\ RowsMatch'
  BY DEF IdsUnique, RowsMatch
<1>3. StepsJustified'
  <2>1. \A b \in Bookings : PhaseOf(b)' = PhaseOf(b)
    BY DEF PhaseOf
  <2> QED
    BY <2>1 DEF StepsJustified
<1>4. AnswersHold'
  BY DEF AnswersHold
<1> QED
  BY <1>1, <1>2, <1>3, <1>4

LEMMA ReserveAnsweredKeepsIInv ==
    ASSUME IInv, NEW t \in Tasks, ReserveAnswered(t)
    PROVE  IInv'
<1> USE DEF IInv
<1>1. TypeOK'
  BY DEF TypeOK, InventoryTypeOK, ReserveAnswered, GoTo, Finish, NoCall, HttpStatus,
         TaskStates, Outcomes
<1>2. CallsFit'
  BY DEF TypeOK, CallsFit, ReserveAnswered, GoTo, Finish, NoCall
<1>3. UNCHANGED tables
  BY DEF ReserveAnswered, tables
<1> QED
  BY <1>1, <1>2, <1>3, TablesKept
     DEF TypeOK, StepsJustified, ReserveAnswered, HttpStatus, Reserved, GoTo, Finish, NoCall

LEMMA ReleaseAnsweredKeepsIInv ==
    ASSUME IInv, NEW t \in Tasks, ReleaseAnswered(t)
    PROVE  IInv'
<1> USE DEF IInv
<1>1. TypeOK'
  BY DEF TypeOK, InventoryTypeOK, ReleaseAnswered, GoTo, Finish, NoCall, HttpStatus,
         TaskStates, Outcomes
<1>2. CallsFit'
  BY DEF TypeOK, CallsFit, ReleaseAnswered, GoTo, Finish, NoCall
<1>3. UNCHANGED tables
  BY DEF ReleaseAnswered, tables
<1> QED
  BY <1>1, <1>2, <1>3, TablesKept
     DEF TypeOK, StepsJustified, ReleaseAnswered, HttpStatus, GoesOn, GoTo, Finish, NoCall

LEMMA RetryKeepsIInv ==
    ASSUME IInv, NEW t \in Tasks, Retry(t)
    PROVE  IInv'
<1> USE DEF IInv
<1>0. attempt[t] + 1 \in 1 .. MaxAttempts
  BY DEF TypeOK, Retry, MoreAttempts
<1>1. TypeOK'
  BY <1>0 DEF TypeOK, InventoryTypeOK, Retry, Codes
<1>2. CallsFit'
  BY <1>0 DEF TypeOK, CallsFit, Retry
<1>3. UNCHANGED tables
  BY DEF Retry, tables
<1> QED
  BY <1>1, <1>2, <1>3, TablesKept DEF TypeOK, CallsFit, StepsJustified, Retry

LEMMA DieKeepsIInv ==
    ASSUME IInv, NEW t \in Tasks, Die(t)
    PROVE  IInv'
<1> USE DEF IInv
<1>1. TypeOK'
  BY DEF TypeOK, InventoryTypeOK, Die, GoTo, Finish, NoCall, TaskStates, Outcomes
<1>2. CallsFit'
  BY DEF TypeOK, CallsFit, Die, GoTo, Finish, NoCall
<1>3. UNCHANGED tables
  BY DEF Die, tables
<1> QED
  BY <1>1, <1>2, <1>3, TablesKept
     DEF TypeOK, StepsJustified, Die, GoTo, Finish, NoCall

LEMMA ConnectionBreaksKeepsIInv ==
    ASSUME IInv, NEW t \in Tasks, ConnectionBreaks(t)
    PROVE  IInv'
<1> USE DEF IInv
<1>1. TypeOK'
  BY DEF TypeOK, InventoryTypeOK, ConnectionBreaks, Codes
<1>2. CallsFit'
  BY DEF TypeOK, CallsFit, ConnectionBreaks
<1>3. UNCHANGED tables
  BY DEF ConnectionBreaks, tables
<1> QED
  BY <1>1, <1>2, <1>3, TablesKept DEF TypeOK, StepsJustified, ConnectionBreaks

-----------------------------------------------------------------------------
\* An attempt that changes no table may answer what the tables justify.
LEMMA RespondKeepsIInv ==
    ASSUME IInv, NEW t \in Tasks, NEW k \in 1 .. MaxAttempts, <<t, k>> \in net,
           NEW code \in Codes, Respond(t, k, code),
           UNCHANGED <<available, reservation>>,
           LET b == task[t].booking IN
           /\ task[t].op = "create" /\ code = "OK" => reservation[b].status = "ACTIVE"
           /\ task[t].op = "cancel" /\ code \in {"OK", "NOT_FOUND"} =>
                 reservation[b].status = "RELEASED"
    PROVE  IInv'
<1> USE DEF IInv
<1>1. TypeOK'
  BY DEF TypeOK, InventoryTypeOK, Respond
<1>2. CallsFit'
  BY DEF CallsFit, Respond
<1>3. UNCHANGED tables
  BY DEF Respond, tables
<1>4. /\ pc' = pc /\ outcome' = outcome /\ net' \subseteq net
      /\ \A u \in Tasks : answer'[u] = answer[u] \/ (u = t /\ answer'[u] = code)
  BY DEF TypeOK, Respond
<1>5. /\ pc[t] \in {"reserve", "store"} => task[t].op = "create"
      /\ pc[t] \in {"release", "mark"} => task[t].op = "cancel"
  BY DEF CallsFit
<1> QED
  BY <1>1, <1>2, <1>3, <1>4, <1>5, TablesKept DEF StepsJustified

LEMMA LoseAttemptKeepsIInv ==
    ASSUME IInv, NEW t \in Tasks, NEW k \in 1 .. MaxAttempts, LoseAttempt(t, k)
    PROVE  IInv'
BY RespondKeepsIInv DEF LoseAttempt, Codes

\* A release that finds nothing ACTIVE is told so only after the seats went back:
\* the row is there, because the booking is.
LEMMA ReleaseRefusedKeepsIInv ==
    ASSUME IInv, NEW t \in Tasks, NEW k \in 1 .. MaxAttempts, <<t, k>> \in net,
           task[t].op = "cancel", reservation[task[t].booking].status # "ACTIVE",
           Respond(t, k, "NOT_FOUND"), UNCHANGED <<available, reservation>>
    PROVE  IInv'
<1> USE DEF IInv
<1> DEFINE b == task[t].booking
<1>1. b \in Bookings /\ booking[b].status # "NONE"
  BY DEF CallsFit, StepsJustified
<1>2. reservation[b].status = "RELEASED"
  <2>1. booking[b] \in BookingRows /\ reservation[b] \in Rows /\ PhaseOf(b) # "broken"
    BY <1>1 DEF TypeOK, InventoryTypeOK, StepsJustified
  <2> QED
    BY <1>1, <2>1 DEF PhaseOf, BookingRows, Rows
<1> QED
  BY <1>2, RespondKeepsIInv DEF Codes

LEMMA ReserveRefusedKeepsIInv ==
    ASSUME IInv, NEW t \in Tasks, NEW k \in 1 .. MaxAttempts, <<t, k>> \in net,
           task[t].op = "create", NEW code \in ReserveRefusals(t, k),
           Respond(t, k, code), UNCHANGED <<available, reservation>>
    PROVE  IInv'
BY RespondKeepsIInv DEF ReserveRefusals

-----------------------------------------------------------------------------
LEMMA StartCreateKeepsIInv ==
    ASSUME IInv, NEW t \in Tasks, NEW f \in Flights \cup {NoFlight},
           NEW n \in SeatCounts, StartCreate(t, f, n)
    PROVE  IInv'
<1> USE DEF IInv
<1>u. /\ pc[t] = "new" /\ pc' = [pc EXCEPT ![t] = "fetch"]
      /\ task' = [task EXCEPT ![t] = [op |-> "create", booking |-> NoBooking,
                                      flight |-> f, seats |-> n]]
      /\ UNCHANGED <<available, reservation, booking, issued, attempt, answer,
                     outcome, net>>
  BY DEF StartCreate, GoTo, NoCall
<1>o. /\ \A u \in Tasks \ {t} : pc'[u] = pc[u] /\ task'[u] = task[u]
      /\ pc'[t] = "fetch"
      /\ task'[t] = [op |-> "create", booking |-> NoBooking, flight |-> f, seats |-> n]
  BY <1>u DEF TypeOK
<1>n. \A k \in 1 .. MaxAttempts : <<t, k>> \notin net
  BY <1>u DEF CallsFit
<1>1. TypeOK'
  BY <1>u DEF TypeOK, InventoryTypeOK, TaskRecords, TaskStates
<1>2. RowsWellFormed'
  BY <1>u DEF RowsWellFormed
<1>3. CallsFit'
  BY <1>u, <1>o, <1>n DEF CallsFit
<1>4. IdsUnique'
  BY <1>u, <1>o DEF IdsUnique
<1>5. RowsMatch'
  BY <1>u, <1>o DEF RowsMatch
<1>6. StepsJustified'
  <2>1. \A b \in Bookings : PhaseOf(b)' = PhaseOf(b)
    BY <1>u DEF PhaseOf
  <2> QED
    BY <1>u, <1>o, <1>n, <2>1 DEF StepsJustified
<1>7. AnswersHold'
  BY <1>u, <1>o DEF AnswersHold, CallsFit
<1> QED
  BY <1>1, <1>2, <1>3, <1>4, <1>5, <1>6, <1>7

LEMMA StartCancelKeepsIInv ==
    ASSUME IInv, NEW t \in Tasks, NEW b \in Bookings, StartCancel(t, b)
    PROVE  IInv'
<1> USE DEF IInv
<1> DEFINE rec == [op |-> "cancel", booking |-> b, flight |-> NoFlight, seats |-> 0]
<1>u. /\ pc[t] = "new" /\ task' = [task EXCEPT ![t] = rec]
      /\ UNCHANGED <<available, reservation, booking, issued>>
  BY DEF StartCancel
<1>c. \/ pc' = [pc EXCEPT ![t] = "done"] /\ UNCHANGED <<attempt, answer, net>>
      \/ /\ booking[b].status = "CONFIRMED" /\ pc' = [pc EXCEPT ![t] = "release"]
         /\ attempt' = [attempt EXCEPT ![t] = 1]
         /\ answer' = [answer EXCEPT ![t] = "WAIT"]
         /\ net' = net \cup {<<t, 1>>}
         /\ UNCHANGED outcome
  BY DEF StartCancel, GoTo, Finish, NoCall, SendFirst
<1>o. /\ \A u \in Tasks \ {t} : /\ pc'[u] = pc[u] /\ task'[u] = task[u]
                                /\ answer'[u] = answer[u]
      /\ pc'[t] \in {"done", "release"} /\ task'[t] = rec
      /\ pc'[t] = "release" => booking[b].status = "CONFIRMED" /\ answer'[t] = "WAIT"
      /\ pc'[t] = "done" => net' = net
      /\ net' \subseteq net \cup {<<t, 1>>}
  BY <1>u, <1>c DEF TypeOK
<1>n. \A k \in 1 .. MaxAttempts : <<t, k>> \notin net
  BY <1>u DEF CallsFit
<1>a. outcome' \in [Tasks -> Outcomes]
      /\ outcome'[t] \notin {"200", "201"}
      /\ \A u \in Tasks \ {t} : outcome'[u] = outcome[u]
  BY DEF StartCancel, TypeOK, CallsFit, Finish, Outcomes
<1>1. TypeOK'
  <2>1. 1 \in 1 .. MaxAttempts /\ 1 \in 0 .. MaxAttempts
    OBVIOUS
  <2>2. rec \in TaskRecords
    BY DEF TaskRecords
  <2>3. /\ pc' \in [Tasks -> TaskStates] /\ task' \in [Tasks -> TaskRecords]
        /\ answer' \in [Tasks -> Codes]
    BY <1>u, <1>c, <2>2 DEF TypeOK, TaskStates, Codes
  <2>4. /\ attempt' \in [Tasks -> 0 .. MaxAttempts]
        /\ net' \subseteq Tasks \X (1 .. MaxAttempts)
    BY <1>c, <2>1 DEF TypeOK
  <2> QED
    BY <1>u, <1>a, <2>3, <2>4 DEF TypeOK, InventoryTypeOK
<1>2. RowsWellFormed'
  BY <1>u DEF RowsWellFormed
<1>3. CallsFit'
  BY <1>u, <1>o, <1>n, <1>a DEF CallsFit
<1>4. IdsUnique'
  BY <1>u, <1>o DEF IdsUnique
<1>5. RowsMatch'
  BY <1>u, <1>o DEF RowsMatch
<1>6. StepsJustified'
  <2>1. \A c \in Bookings : PhaseOf(c)' = PhaseOf(c)
    BY <1>u DEF PhaseOf
  <2> QED
    BY <1>u, <1>o, <1>n, <2>1 DEF StepsJustified
<1>7. AnswersHold'
  BY <1>u, <1>o, <1>a DEF AnswersHold
<1> QED
  BY <1>1, <1>2, <1>3, <1>4, <1>5, <1>6, <1>7

\* A fresh id: nothing in either database, and no other request, knows it.
LEMMA FetchFlightKeepsIInv ==
    ASSUME IInv, NEW t \in Tasks, FetchFlight(t)
    PROVE  IInv'
<1> USE DEF IInv
<1>u. pc[t] = "fetch" /\ UNCHANGED <<available, reservation, booking>>
  BY DEF FetchFlight
<1>n. /\ \A k \in 1 .. MaxAttempts : <<t, k>> \notin net
      /\ task[t].op = "create" /\ task[t].booking = NoBooking
      /\ task[t] \in TaskRecords
  BY <1>u DEF CallsFit, TypeOK
<1>1. CASE /\ \/ Finish(t, "404") \/ Finish(t, "503")
           /\ NoCall /\ UNCHANGED <<issued, task>>
  <2>1. TypeOK'
    BY <1>u, <1>1 DEF TypeOK, InventoryTypeOK, Finish, GoTo, NoCall, TaskStates, Outcomes
  <2>2. CallsFit'
    BY <1>1 DEF TypeOK, CallsFit, Finish, GoTo, NoCall
  <2>3. UNCHANGED tables
    BY <1>u, <1>1 DEF tables
  <2> QED
    BY <1>1, <2>1, <2>2, <2>3, TablesKept DEF TypeOK, StepsJustified, Finish, GoTo, NoCall
<1>2. ASSUME task[t].flight # NoFlight, NEW b \in Bookings \ issued,
             issued' = issued \cup {b},
             task' = [task EXCEPT ![t].booking = b],
             \/ Finish(t, "503") /\ NoCall
             \/ GoTo(t, "reserve") /\ SendFirst(t) /\ UNCHANGED outcome
      PROVE  IInv'
  <2>r. reservation[b] = NoRow /\ booking[b] = NoBookingRow
    BY DEF IdsUnique
  <2>t. /\ task'[t].op = "create" /\ task'[t].booking = b
        /\ task'[t].flight = task[t].flight /\ task'[t].flight \in Flights
        /\ task'[t] \in TaskRecords
        /\ \A x \in Tasks \ {t} : task'[x] = task[x]
    BY <1>n, <1>2 DEF TypeOK, TaskRecords
  <2>c. \/ /\ pc' = [pc EXCEPT ![t] = "done"] /\ outcome' = [outcome EXCEPT ![t] = "503"]
           /\ UNCHANGED <<attempt, answer, net>>
        \/ /\ pc' = [pc EXCEPT ![t] = "reserve"] /\ outcome' = outcome
           /\ attempt' = [attempt EXCEPT ![t] = 1]
           /\ answer' = [answer EXCEPT ![t] = "WAIT"]
           /\ net' = net \cup {<<t, 1>>}
    BY <1>2 DEF GoTo, Finish, NoCall, SendFirst
  <2>o. /\ \A x \in Tasks \ {t} : /\ pc'[x] = pc[x] /\ answer'[x] = answer[x]
                                  /\ outcome'[x] = outcome[x]
        /\ pc'[t] \in {"done", "reserve"} /\ outcome'[t] \notin {"200", "201"}
        /\ pc'[t] = "reserve" => answer'[t] = "WAIT"
        /\ net' \subseteq net \cup {<<t, 1>>}
    BY <1>u, <2>c DEF TypeOK, CallsFit
  <2>1. TypeOK'
    <3>1. 1 \in 1 .. MaxAttempts /\ 1 \in 0 .. MaxAttempts
      OBVIOUS
    <3>2. /\ pc' \in [Tasks -> TaskStates] /\ outcome' \in [Tasks -> Outcomes]
          /\ answer' \in [Tasks -> Codes]
      BY <2>c DEF TypeOK, TaskStates, Codes, Outcomes
    <3>3. /\ attempt' \in [Tasks -> 0 .. MaxAttempts]
          /\ net' \subseteq Tasks \X (1 .. MaxAttempts)
      BY <2>c, <3>1 DEF TypeOK
    <3>4. task' \in [Tasks -> TaskRecords] /\ issued' \subseteq Bookings
      BY <1>2, <2>t DEF TypeOK
    <3> QED
      BY <1>u, <3>2, <3>3, <3>4 DEF TypeOK, InventoryTypeOK
  <2>2. RowsWellFormed'
    BY <1>u DEF RowsWellFormed
  <2>3. CallsFit'
    BY <1>n, <2>t, <2>o DEF CallsFit
  <2>4. IdsUnique'
    BY <1>u, <1>2, <2>r, <2>t DEF IdsUnique
  <2>5. RowsMatch'
    BY <1>u, <2>r, <2>t DEF RowsMatch, NoRow, NoBookingRow
  <2>6. StepsJustified'
    <3>1. \A c \in Bookings : PhaseOf(c)' = PhaseOf(c)
      BY <1>u DEF PhaseOf
    <3> QED
      BY <1>u, <1>n, <2>r, <2>t, <2>o, <3>1 DEF StepsJustified, NoBookingRow
  <2>7. AnswersHold'
    BY <1>u, <2>t, <2>o DEF AnswersHold
  <2> QED
    BY <2>1, <2>2, <2>3, <2>4, <2>5, <2>6, <2>7
<1> QED
  BY <1>1, <1>2 DEF FetchFlight

-----------------------------------------------------------------------------
LEMMA SeatsAreInt == \A t \in Tasks : TypeOK => task[t].seats \in Int
<1> SUFFICES ASSUME NEW t \in Tasks, TypeOK
             PROVE  task[t].seats \in Int
  OBVIOUS
<1>1. task[t].seats \in SeatCounts \cup {0}
  BY DEF TypeOK, TaskRecords
<1>2. \A n \in SeatCounts \cup {0} : n \in Int
  BY InventoryAssumption
<1> QED
  BY <1>1, <1>2, Zenon

\* The four steps that move a booking along its life.
Moves(b, from, to) ==
    /\ b \in Bookings /\ PhaseOf(b) = from
    /\ \A c \in Bookings : PhaseOf(c)' = IF c = b THEN to ELSE PhaseOf(c)

LEMMA StoreBookingKeepsIInv ==
    ASSUME IInv, NEW t \in Tasks, StoreBooking(t)
    PROVE  IInv' /\ Moves(task[t].booking, "held", "confirmed")
<1> USE DEF IInv
<1> DEFINE b == task[t].booking
           row == [status |-> "CONFIRMED", flight |-> task[t].flight, seats |-> task[t].seats]
<1>p. /\ pc[t] = "store" /\ task[t].op = "create"
      /\ b \in Bookings /\ task[t].flight \in Flights
      /\ booking[b].status = "NONE" /\ reservation[b].status = "ACTIVE"
  BY DEF StoreBooking, CallsFit, StepsJustified
<1>s. PICK status \in {"201", "500"} : Finish(t, status)
  BY DEF StoreBooking
<1>u. /\ booking' = [booking EXCEPT ![b] = row]
      /\ pc' = [pc EXCEPT ![t] = "done"] /\ outcome' = [outcome EXCEPT ![t] = status]
      /\ UNCHANGED <<available, reservation, issued, task, attempt, answer, net>>
  BY <1>s DEF StoreBooking, Finish, GoTo, NoCall
<1>o. /\ \A x \in Tasks \ {t} : pc'[x] = pc[x] /\ outcome'[x] = outcome[x]
      /\ pc'[t] = "done"
      /\ booking'[b] = row
      /\ \A c \in Bookings \ {b} : booking'[c] = booking[c]
  BY <1>p, <1>u DEF TypeOK
<1>i. b # NoBooking /\ b \in issued
      /\ \A x \in Tasks \ {t} : task[x].op = "create" => task[x].booking # b
  BY <1>p DEF IdsUnique
<1>f. /\ PhaseOf(b) = "held" 
      /\ \A c \in Bookings : PhaseOf(c)' = IF c = b THEN "confirmed" ELSE PhaseOf(c)
  BY <1>p, <1>u, <1>o DEF PhaseOf
<1>1. TypeOK'
  <2>1. row \in BookingRows
    BY <1>p, SeatsAreInt DEF BookingRows
  <2> QED
    BY <1>p, <1>u, <2>1 DEF TypeOK, InventoryTypeOK, TaskStates, Outcomes
<1>2. RowsWellFormed'
  BY <1>u DEF RowsWellFormed
<1>3. CallsFit'
  BY <1>p, <1>u, <1>o DEF CallsFit
<1>4. IdsUnique'
  BY <1>u, <1>o, <1>i DEF IdsUnique
<1>5. RowsMatch'
  BY <1>p, <1>u, <1>o, <1>i DEF RowsMatch
<1>6. StepsJustified'
  <2>1. \A x \in Tasks : pc[x] \in {"reserve", "store"} /\ x # t => task[x].booking \in Bookings \ {b}
    BY <1>i DEF CallsFit
  <2>2. \A x \in Tasks : pc[x] = "release" => task[x].booking \in Bookings
    BY DEF CallsFit
  <2>3. \A x \in Tasks, k \in 1 .. MaxAttempts : <<x, k>> \in net => task[x].booking \in Bookings
    BY DEF CallsFit
  <2> QED
    BY <1>u, <1>o, <1>f, <2>1, <2>2, <2>3 DEF StepsJustified
<1>7. AnswersHold'
  <2>1. outcome'[t] # "200"
    BY <1>u DEF TypeOK
  <2>2. reservation[b].flight = task[t].flight /\ reservation[b].seats = task[t].seats
    BY <1>p, <1>i DEF RowsMatch
  <2>3. \A x \in Tasks : outcome[x] \in {"200", "201"} => task[x].booking \in Bookings \ {b}
    BY <1>p DEF CallsFit, AnswersHold
  <2> QED
    BY <1>p, <1>u, <1>o, <2>1, <2>2, <2>3 DEF AnswersHold
<1> QED
  BY <1>p, <1>f, <1>1, <1>2, <1>3, <1>4, <1>5, <1>6, <1>7 DEF Moves

\* Of two cancellations under way the second marks what is marked already.
LEMMA MarkCancelledKeepsIInv ==
    ASSUME IInv, NEW t \in Tasks, MarkCancelled(t)
    PROVE  IInv' /\ (\/ Moves(task[t].booking, "released", "cancelled")
                     \/ \A c \in Bookings : PhaseOf(c)' = PhaseOf(c))
<1> USE DEF IInv
<1> DEFINE b == task[t].booking
<1>p. /\ pc[t] = "mark" /\ task[t].op = "cancel" /\ b \in Bookings
      /\ booking[b].status \in {"CONFIRMED", "CANCELLED"}
      /\ reservation[b].status = "RELEASED"
  <2>1. /\ pc[t] = "mark" /\ task[t].op = "cancel" /\ b \in Bookings
        /\ reservation[b].status = "RELEASED" /\ PhaseOf(b) # "broken"
    BY DEF MarkCancelled, CallsFit, StepsJustified
  <2>2. booking[b] \in BookingRows
    BY <2>1 DEF TypeOK
  <2> QED
    BY <2>1, <2>2 DEF PhaseOf, BookingRows
<1>s. PICK status \in {"200", "500"} : Finish(t, status)
  BY DEF MarkCancelled
<1>u. /\ booking' = [booking EXCEPT ![b].status = "CANCELLED"]
      /\ pc' = [pc EXCEPT ![t] = "done"] /\ outcome' = [outcome EXCEPT ![t] = status]
      /\ UNCHANGED <<available, reservation, issued, task, attempt, answer, net>>
  BY <1>s DEF MarkCancelled, Finish, GoTo, NoCall
<1>o. /\ \A x \in Tasks \ {t} : pc'[x] = pc[x] /\ outcome'[x] = outcome[x]
      /\ pc'[t] = "done" /\ outcome'[t] = status
      /\ \A c \in Bookings \ {b} : booking'[c] = booking[c]
  BY <1>p, <1>u DEF TypeOK
<1>r. /\ booking'[b] \in BookingRows /\ booking'[b].status = "CANCELLED"
      /\ booking'[b].flight = booking[b].flight /\ booking'[b].seats = booking[b].seats
  BY <1>p, <1>u DEF TypeOK, BookingRows
<1>f. /\ PhaseOf(b) \in {"released", "cancelled"} 
      /\ \A c \in Bookings : PhaseOf(c)' = IF c = b THEN "cancelled" ELSE PhaseOf(c)
  BY <1>p, <1>u, <1>o, <1>r DEF PhaseOf
<1>1. TypeOK'
  BY <1>p, <1>u, <1>o, <1>r DEF TypeOK, InventoryTypeOK, TaskStates, Outcomes
<1>2. RowsWellFormed'
  BY <1>u DEF RowsWellFormed
<1>3. CallsFit'
  BY <1>p, <1>u, <1>o DEF CallsFit
<1>4. IdsUnique'
  <2>1. b \in issued
    BY <1>p DEF IdsUnique, NoBookingRow
  <2> QED
    BY <1>u, <1>o, <2>1 DEF IdsUnique
<1>5. RowsMatch'
  BY <1>p, <1>u, <1>o, <1>r DEF RowsMatch
<1>6. StepsJustified'
  <2>1. \A x \in Tasks : pc[x] \in {"reserve", "store"} => task[x].booking \in Bookings \ {b}
    BY <1>p DEF CallsFit, StepsJustified
  <2>2. \A x \in Tasks : pc[x] = "release" => task[x].booking \in Bookings
    BY DEF CallsFit
  <2>3. \A x \in Tasks, k \in 1 .. MaxAttempts : <<x, k>> \in net => task[x].booking \in Bookings
    BY DEF CallsFit
  <2> QED
    BY <1>u, <1>o, <1>f, <1>r, <2>1, <2>2, <2>3 DEF StepsJustified
<1>7. AnswersHold'
  <2>1. \A x \in Tasks : outcome[x] \in {"200", "201"} => task[x].booking \in Bookings
    BY DEF CallsFit
  <2> QED
    BY <1>p, <1>u, <1>o, <1>r, <2>1 DEF AnswersHold
<1>8. \/ Moves(b, "released", "cancelled")
      \/ \A c \in Bookings : PhaseOf(c)' = PhaseOf(c)
  BY <1>p, <1>f DEF Moves
<1> QED
  BY <1>1, <1>2, <1>3, <1>4, <1>5, <1>6, <1>7, <1>8

\* The row of a fresh id: no booking yet, and no other request is about it.
LEMMA ReserveServedKeepsIInv ==
    ASSUME IInv, NEW t \in Tasks, NEW k \in 1 .. MaxAttempts, <<t, k>> \in net,
           task[t].op = "create",
           Reserve(task[t].booking, task[t].flight, task[t].seats),
           Respond(t, k, "OK")
    PROVE  IInv' /\ Moves(task[t].booking, "absent", "held")
<1> USE DEF IInv
<1> DEFINE b == task[t].booking
           f == task[t].flight
           n == task[t].seats
<1>p. /\ b \in Bookings /\ f \in Flights /\ n \in Int /\ n > 0
      /\ reservation[b].status = "NONE" /\ booking[b].status = "NONE"
      /\ b # NoBooking /\ b \in issued
      /\ \A x \in Tasks \ {t} : task[x].op = "create" => task[x].booking # b
  <2>1. b \in Bookings /\ f \in Flights /\ n > 0 /\ reservation[b].status = "NONE"
    BY DEF CallsFit, Reserve
  <2>3. n \in Int
    BY SeatsAreInt
  <2>4. booking[b] \in BookingRows /\ PhaseOf(b) # "broken"
    BY <2>1 DEF TypeOK, StepsJustified
  <2>5. booking[b].status = "NONE"
    BY <2>1, <2>4 DEF PhaseOf, BookingRows
  <2> QED
    BY <2>1, <2>3, <2>5 DEF IdsUnique
<1>u. /\ available' = [available EXCEPT ![f] = @ - n]
      /\ reservation' = [reservation EXCEPT ![b] = ActiveRow(f, n)]
      /\ UNCHANGED <<booking, issued, task, pc, attempt, outcome>>
      /\ net' \subseteq net
  BY DEF Reserve, Respond
<1>o. /\ reservation'[b] = ActiveRow(f, n)
      /\ \A c \in Bookings \ {b} : reservation'[c] = reservation[c]
      /\ \A x \in Tasks : answer'[x] = answer[x] \/ (x = t /\ answer'[x] = "OK")
      /\ answer' \in [Tasks -> Codes]
  BY <1>p, <1>u DEF TypeOK, InventoryTypeOK, Respond, Codes
<1>f. /\ PhaseOf(b) = "absent" 
      /\ \A c \in Bookings : PhaseOf(c)' = IF c = b THEN "held" ELSE PhaseOf(c)
  BY <1>p, <1>u, <1>o DEF PhaseOf, ActiveRow
<1>1. TypeOK'
  <2>1. InventoryTypeOK'
    BY <1>p, <1>u DEF TypeOK, InventoryTypeOK, ActiveRow, Rows
  <2> QED
    BY <1>u, <1>o, <2>1 DEF TypeOK
<1>2. RowsWellFormed'
  BY <1>p, <1>o DEF RowsWellFormed, ActiveRow
<1>3. CallsFit'
  BY <1>u DEF CallsFit
<1>4. IdsUnique'
  BY <1>p, <1>u, <1>o DEF IdsUnique
<1>5. RowsMatch'
  BY <1>p, <1>u, <1>o DEF RowsMatch, ActiveRow, IdsUnique
<1>6. StepsJustified'
  <2>1. \A x \in Tasks : pc[x] \in {"reserve", "store"} /\ x # t => task[x].booking \in Bookings \ {b}
    BY <1>p DEF CallsFit
  <2>2. \A x \in Tasks : pc[x] \in {"release", "mark"} => task[x].booking \in Bookings \ {b}
    BY <1>p DEF CallsFit, StepsJustified
  <2>3. pc[t] \notin {"release", "mark"}
    BY DEF CallsFit
  <2> QED
    BY <1>u, <1>o, <1>f, <2>1, <2>2, <2>3 DEF StepsJustified, ActiveRow
<1>7. AnswersHold'
  <2>1. \A x \in Tasks : outcome[x] \in {"200", "201"} => task[x].booking \in Bookings \ {b}
    BY <1>p DEF CallsFit, AnswersHold
  <2> QED
    BY <1>u, <1>o, <2>1 DEF AnswersHold
<1> QED
  BY <1>p, <1>f, <1>1, <1>2, <1>3, <1>4, <1>5, <1>6, <1>7 DEF Moves

LEMMA ReleaseServedKeepsIInv ==
    ASSUME IInv, NEW t \in Tasks, NEW k \in 1 .. MaxAttempts, <<t, k>> \in net,
           task[t].op = "cancel", Release(task[t].booking), Respond(t, k, "OK")
    PROVE  IInv' /\ Moves(task[t].booking, "confirmed", "released")
<1> USE DEF IInv
<1> DEFINE b == task[t].booking
           g == reservation[b].flight
<1>p. /\ b \in Bookings /\ reservation[b].status = "ACTIVE"
      /\ booking[b].status = "CONFIRMED"
      /\ g \in Flights /\ reservation[b] \in Rows /\ b \in issued
  <2>1. b \in Bookings /\ reservation[b].status = "ACTIVE" /\ booking[b].status # "NONE"
    BY DEF CallsFit, StepsJustified, Release
  <2>2. booking[b] \in BookingRows /\ PhaseOf(b) # "broken" /\ reservation[b] \in Rows
    BY <2>1 DEF TypeOK, InventoryTypeOK, StepsJustified
  <2>3. booking[b].status = "CONFIRMED"
    BY <2>1, <2>2 DEF PhaseOf, BookingRows
  <2>4. b \in issued
    BY <2>1 DEF IdsUnique, NoBookingRow
  <2> QED
    BY <2>1, <2>2, <2>3, <2>4 DEF RowsWellFormed
<1>u. /\ available' = [available EXCEPT ![g] = @ + reservation[b].seats]
      /\ reservation' = [reservation EXCEPT ![b].status = "RELEASED"]
      /\ UNCHANGED <<booking, issued, task, pc, attempt, outcome>>
      /\ net' \subseteq net
  BY DEF Release, Respond
<1>o. /\ reservation'[b] \in Rows /\ reservation'[b].status = "RELEASED"
      /\ reservation'[b].flight = g /\ reservation'[b].seats = reservation[b].seats
      /\ \A c \in Bookings \ {b} : reservation'[c] = reservation[c]
      /\ \A x \in Tasks : answer'[x] = answer[x] \/ (x = t /\ answer'[x] = "OK")
      /\ answer' \in [Tasks -> Codes]
  BY <1>p, <1>u DEF TypeOK, InventoryTypeOK, Respond, Codes, Rows
<1>f. /\ PhaseOf(b) = "confirmed" 
      /\ \A c \in Bookings : PhaseOf(c)' = IF c = b THEN "released" ELSE PhaseOf(c)
  BY <1>p, <1>u, <1>o DEF PhaseOf
<1>1. TypeOK'
  <2>1. available' \in [Flights -> Int] /\ reservation' \in [Bookings -> Rows]
    BY <1>p, <1>u DEF TypeOK, InventoryTypeOK, Rows
  <2> QED
    BY <1>u, <1>o, <2>1 DEF TypeOK, InventoryTypeOK
<1>2. RowsWellFormed'
  BY <1>p, <1>o DEF RowsWellFormed
<1>3. CallsFit'
  BY <1>u DEF CallsFit
<1>4. IdsUnique'
  BY <1>p, <1>u, <1>o DEF IdsUnique
<1>5. RowsMatch'
  BY <1>p, <1>u, <1>o DEF RowsMatch
<1>6. StepsJustified'
  <2>1. \A x \in Tasks : pc[x] \in {"reserve", "store"} => task[x].booking \in Bookings \ {b}
    BY <1>p DEF CallsFit, StepsJustified
  <2>2. \A x \in Tasks : pc[x] \in {"release", "mark"} => task[x].booking \in Bookings
    BY DEF CallsFit
  <2>3. pc[t] # "reserve"
    BY DEF CallsFit
  <2> QED
    BY <1>u, <1>o, <1>f, <2>1, <2>2, <2>3 DEF StepsJustified
<1>7. AnswersHold'
  <2>1. \A x \in Tasks : outcome[x] \in {"200", "201"} => task[x].booking \in Bookings
    BY DEF CallsFit
  <2> QED
    BY <1>p, <1>u, <1>o, <2>1 DEF AnswersHold
<1> QED
  BY <1>p, <1>f, <1>1, <1>2, <1>3, <1>4, <1>5, <1>6, <1>7 DEF Moves

-----------------------------------------------------------------------------
\* In between, bookings stay where they are.
Rests == \A c \in Bookings : PhaseOf(c)' = PhaseOf(c)

Travels(b) ==
    \/ Moves(b, "absent", "held")
    \/ Moves(b, "held", "confirmed")
    \/ Moves(b, "confirmed", "released")
    \/ Moves(b, "released", "cancelled")

LEMMA UntouchedRests == ASSUME UNCHANGED <<booking, reservation>> PROVE Rests
BY DEF Rests, PhaseOf

LEMMA ServeReserveKeepsIInv ==
    ASSUME IInv, NEW t \in Tasks, NEW k \in 1 .. MaxAttempts, ServeReserve(t, k)
    PROVE  IInv' /\ (Rests \/ Travels(task[t].booking))
<1>1. CASE Reserve(task[t].booking, task[t].flight, task[t].seats) /\ Respond(t, k, "OK")
  BY <1>1, ReserveServedKeepsIInv DEF ServeReserve, Travels
<1>2. CASE /\ \E code \in ReserveRefusals(t, k) : Respond(t, k, code)
           /\ UNCHANGED <<available, reservation>>
  <2>1. IInv'
    BY <1>2, ReserveRefusedKeepsIInv DEF ServeReserve
  <2>2. Rests
    BY <1>2, UntouchedRests DEF Respond
  <2> QED
    BY <2>1, <2>2
<1> QED
  BY <1>1, <1>2 DEF ServeReserve

LEMMA ServeReleaseKeepsIInv ==
    ASSUME IInv, NEW t \in Tasks, NEW k \in 1 .. MaxAttempts, ServeRelease(t, k)
    PROVE  IInv' /\ (Rests \/ Travels(task[t].booking))
<1>1. CASE Release(task[t].booking) /\ Respond(t, k, "OK")
  BY <1>1, ReleaseServedKeepsIInv DEF ServeRelease, Travels
<1>2. CASE /\ reservation[task[t].booking].status # "ACTIVE"
           /\ Respond(t, k, "NOT_FOUND")
           /\ UNCHANGED <<available, reservation>>
  <2>1. IInv'
    BY <1>2, ReleaseRefusedKeepsIInv DEF ServeRelease
  <2>2. Rests
    BY <1>2, UntouchedRests DEF Respond
  <2> QED
    BY <2>1, <2>2
<1> QED
  BY <1>1, <1>2 DEF ServeRelease

\* A step of one request, whatever the other end does meanwhile.
LEMMA TaskStepKeepsIInv ==
    ASSUME IInv, NEW t \in Tasks,
           \/ \E f \in Flights \cup {NoFlight}, n \in SeatCounts : StartCreate(t, f, n)
           \/ \E b \in Bookings : StartCancel(t, b)
           \/ FetchFlight(t) \/ ReserveAnswered(t) \/ StoreBooking(t)
           \/ ReleaseAnswered(t) \/ MarkCancelled(t)
           \/ Retry(t) \/ ConnectionBreaks(t) \/ Die(t)
    PROVE  IInv' /\ (Rests \/ Travels(task[t].booking))
<1>1. ASSUME NEW f \in Flights \cup {NoFlight}, NEW n \in SeatCounts, StartCreate(t, f, n)
      PROVE  IInv' /\ Rests
  BY <1>1, StartCreateKeepsIInv, UntouchedRests DEF StartCreate
<1>2. ASSUME NEW b \in Bookings, StartCancel(t, b)
      PROVE  IInv' /\ Rests
  BY <1>2, StartCancelKeepsIInv, UntouchedRests DEF StartCancel
<1>3. CASE FetchFlight(t)
  BY <1>3, FetchFlightKeepsIInv, UntouchedRests DEF FetchFlight
<1>4. CASE ReserveAnswered(t)
  BY <1>4, ReserveAnsweredKeepsIInv, UntouchedRests DEF ReserveAnswered
<1>5. CASE StoreBooking(t)
  BY <1>5, StoreBookingKeepsIInv DEF Travels
<1>6. CASE ReleaseAnswered(t)
  BY <1>6, ReleaseAnsweredKeepsIInv, UntouchedRests DEF ReleaseAnswered
<1>7. CASE MarkCancelled(t)
  BY <1>7, MarkCancelledKeepsIInv DEF Travels, Rests
<1>8. CASE Retry(t)
  BY <1>8, RetryKeepsIInv, UntouchedRests DEF Retry
<1>9. CASE ConnectionBreaks(t)
  BY <1>9, ConnectionBreaksKeepsIInv, UntouchedRests DEF ConnectionBreaks
<1>10. CASE Die(t)
  BY <1>10, DieKeepsIInv, UntouchedRests DEF Die
<1> QED
  BY <1>1, <1>2, <1>3, <1>4, <1>5, <1>6, <1>7, <1>8, <1>9, <1>10

LEMMA StutterKeepsIInv == ASSUME IInv, UNCHANGED vars PROVE IInv' /\ Rests
<1> USE DEF vars, IInv
<1>1. Rests
  BY UntouchedRests
<1>2. TypeOK'
  BY DEF TypeOK, InventoryTypeOK
<1>3. UNCHANGED tables
  BY DEF tables
<1>4. CallsFit'
  BY DEF CallsFit
<1>5. IInv'
  BY <1>2, <1>3, <1>4, TablesKept DEF StepsJustified
<1> QED
  BY <1>1, <1>5

\* Every step keeps the invariant, and takes at most one booking one phase further.
LEMMA NextKeepsIInv ==
    ASSUME IInv, [Next]_vars
    PROVE  IInv' /\ (Rests \/ \E t \in Tasks : Travels(task[t].booking))
<1>1. ASSUME NEW t \in Tasks, NEW k \in 1 .. MaxAttempts,
             ServeReserve(t, k) \/ ServeRelease(t, k)
      PROVE  IInv' /\ (Rests \/ Travels(task[t].booking))
  BY <1>1, ServeReserveKeepsIInv, ServeReleaseKeepsIInv
<1>2. ASSUME NEW t \in Tasks, NEW k \in 1 .. MaxAttempts, LoseAttempt(t, k)
      PROVE  IInv' /\ Rests
  BY <1>2, LoseAttemptKeepsIInv, UntouchedRests DEF LoseAttempt, Respond
<1>3. CASE UNCHANGED vars
  BY <1>3, StutterKeepsIInv
<1> QED
  BY <1>1, <1>2, <1>3, TaskStepKeepsIInv DEF Next

-----------------------------------------------------------------------------
\* What each step may rely on when it crosses between the databases, for any number
\* of requests and attempts (create_booking, cancel_booking).
THEOREM BookingServiceInvariant == Spec => []IInv
<1>1. IInv /\ [Next]_vars => IInv'
  BY NextKeepsIInv
<1> QED
  BY BookingInitIInv, <1>1, PTL DEF Spec

\* 201 and 200 stay true for ever, whatever attempt is executed late
\* (create_booking's and cancel_booking's last statements).
THEOREM AnswersStayTrue == Spec => []AnswersHold
<1>1. IInv => AnswersHold
  BY DEF IInv
<1> QED
  BY BookingServiceInvariant, <1>1, PTL

LEMMA MovesAdvance ==
    ASSUME NEW b \in Bookings, NEW from, NEW to, Moves(b, from, to)
    PROVE  Lifecycle!Advance(b, from, to)
BY DEF Moves, Lifecycle!Advance

\* A booking goes from held to confirmed to released to cancelled over the two
\* databases, never back and never past a phase, whatever is lost, late or killed.
THEOREM BookingImplementsLifecycle == Spec => LifecycleImplemented
<1>1. Init => Lifecycle!LifecycleInit
  <2> SUFFICES ASSUME Init, NEW b \in Bookings PROVE PhaseOf(b) = "absent"
    BY DEF Lifecycle!LifecycleInit
  <2> QED
    BY DEF Init, InventoryInit, PhaseOf, NoRow, NoBookingRow
<1>2. ASSUME IInv, [Next]_vars
      PROVE  [Lifecycle!LifecycleNext]_[b \in Bookings |-> PhaseOf(b)]
  <2>1. CASE Rests
    BY <2>1 DEF Rests
  <2>2. ASSUME NEW t \in Tasks, Travels(task[t].booking)
        PROVE  Lifecycle!LifecycleNext
    <3>1. PICK b \in Bookings : b = task[t].booking
      BY <2>2 DEF Travels, Moves
    <3>2. Travels(b)
      BY <2>2, <3>1 DEF Travels, Moves
    <3> QED
      BY <3>2, MovesAdvance DEF Travels, Lifecycle!LifecycleNext
  <2> QED
    BY <1>2, <2>1, <2>2, NextKeepsIInv
<1>3. IInv /\ [Next]_vars => [Lifecycle!LifecycleNext]_[b \in Bookings |-> PhaseOf(b)]
  BY <1>2
<1> QED
  BY <1>1, <1>3, BookingServiceInvariant, PTL
     DEF Spec, LifecycleImplemented, Lifecycle!LifecycleSpec

\* What the requests do to the flight database is what SeatInventory allows.
THEOREM BookingImplementsInventory == Spec => InventorySpec
<1>1. Init => InventoryInit
  BY DEF Init
<1>2. ASSUME IInv, NEW t \in Tasks, NEW k \in 1 .. MaxAttempts, ServeReserve(t, k)
      PROVE  [InventoryNext]_inventory
  <2>1. ASSUME Reserve(task[t].booking, task[t].flight, task[t].seats)
        PROVE  InventoryNext
    <3>1. task[t].booking \in Bookings /\ task[t].flight \in Flights
      BY <1>2 DEF ServeReserve, IInv, CallsFit
    <3>2. task[t].seats \in SeatCounts \cup {0}
      BY <1>2 DEF IInv, TypeOK, TaskRecords
    <3>3. task[t].seats \in SeatCounts
      BY <2>1, <3>2 DEF Reserve
    <3> QED
      BY <2>1, <3>1, <3>3 DEF InventoryNext
  <2> QED
    BY <1>2, <2>1 DEF ServeReserve, inventory
<1>3. ASSUME IInv, NEW t \in Tasks, NEW k \in 1 .. MaxAttempts, ServeRelease(t, k)
      PROVE  [InventoryNext]_inventory
  <2>1. task[t].booking \in Bookings
    BY <1>3 DEF ServeRelease, IInv, CallsFit
  <2> QED
    BY <1>3, <2>1 DEF ServeRelease, InventoryNext, inventory
<1>4. IInv /\ [Next]_vars => [InventoryNext]_inventory
  <2> SUFFICES ASSUME IInv, [Next]_vars PROVE [InventoryNext]_inventory
    OBVIOUS
  <2>1. ASSUME NEW t \in Tasks,
               \/ \E f \in Flights \cup {NoFlight}, n \in SeatCounts : StartCreate(t, f, n)
               \/ \E b \in Bookings : StartCancel(t, b)
               \/ FetchFlight(t) \/ ReserveAnswered(t) \/ StoreBooking(t)
               \/ ReleaseAnswered(t) \/ MarkCancelled(t)
               \/ Retry(t) \/ ConnectionBreaks(t) \/ Die(t)
        PROVE  UNCHANGED inventory
    BY <2>1 DEF StartCreate, StartCancel, FetchFlight, ReserveAnswered, StoreBooking,
                ReleaseAnswered, MarkCancelled, Retry, ConnectionBreaks, Die, inventory
  <2>2. ASSUME NEW t \in Tasks, NEW k \in 1 .. MaxAttempts, LoseAttempt(t, k)
        PROVE  UNCHANGED inventory
    BY <2>2 DEF LoseAttempt, inventory
  <2>3. CASE UNCHANGED vars
    BY <2>3 DEF vars, inventory
  <2> QED
    BY <1>2, <1>3, <2>1, <2>2, <2>3 DEF Next
<1> QED
  BY <1>1, <1>4, BookingServiceInvariant, PTL DEF Spec, InventorySpec

-----------------------------------------------------------------------------
\* Seats went back for a request only, and a request that has an attempt on its way has
\* begun its call.
ReleasesAsked ==
    /\ \A b \in Bookings : reservation[b].status = "RELEASED" => CancelBegun(b)
    /\ \A t \in Tasks, k \in 1 .. MaxAttempts : <<t, k>> \in net => attempt[t] > 0

\* What a request does with its own place, its call and its subject.
LEMMA OwnStep ==
    ASSUME IInv, NEW t \in Tasks,
           \/ \E f \in Flights \cup {NoFlight}, n \in SeatCounts : StartCreate(t, f, n)
           \/ \E b \in Bookings : StartCancel(t, b)
           \/ FetchFlight(t) \/ ReserveAnswered(t) \/ StoreBooking(t)
           \/ ReleaseAnswered(t) \/ MarkCancelled(t)
           \/ Retry(t) \/ ConnectionBreaks(t) \/ Die(t)
    PROVE  /\ reservation' = reservation
           /\ task' = task \/ (task[t].op # "cancel" /\ \A u \in Tasks \ {t} : task'[u] = task[u])
           /\ \/ attempt' = attempt /\ net' = net
              \/ \E k \in 1 .. MaxAttempts : /\ attempt' = [attempt EXCEPT ![t] = k]
                                             /\ net' = net \cup {<<t, k>>}
<1> DEFINE Goal ==
        /\ reservation' = reservation
        /\ task' = task \/ (task[t].op # "cancel" /\ \A u \in Tasks \ {t} : task'[u] = task[u])
        /\ \/ attempt' = attempt /\ net' = net
           \/ \E k \in 1 .. MaxAttempts : /\ attempt' = [attempt EXCEPT ![t] = k]
                                          /\ net' = net \cup {<<t, k>>}
<1>0. 1 \in 1 .. MaxAttempts
  OBVIOUS
<1>1. ASSUME NEW f \in Flights \cup {NoFlight}, NEW n \in SeatCounts, StartCreate(t, f, n)
      PROVE  Goal
  <2>1. task[t].op = "none"
    BY <1>1 DEF StartCreate, IInv, CallsFit, NoTask
  <2> QED
    BY <1>1, <2>1 DEF StartCreate, NoCall, IInv, TypeOK
<1>2. ASSUME NEW b \in Bookings, StartCancel(t, b)
      PROVE  Goal
  <2>1. task[t].op = "none"
    BY <1>2 DEF StartCancel, IInv, CallsFit, NoTask
  <2>2. \A u \in Tasks \ {t} : task'[u] = task[u]
    BY <1>2 DEF StartCancel, IInv, TypeOK
  <2> QED
    BY <1>0, <1>2, <2>1, <2>2 DEF StartCancel, NoCall, SendFirst
<1>3. CASE FetchFlight(t)
  <2>1. task[t].op = "create"
    BY <1>3 DEF FetchFlight, IInv, CallsFit
  <2>2. \A u \in Tasks \ {t} : task'[u] = task[u]
    BY <1>3 DEF FetchFlight, IInv, TypeOK
  <2> QED
    BY <1>0, <1>3, <2>1, <2>2 DEF FetchFlight, NoCall, SendFirst
<1>4. CASE Retry(t)
  <2>1. attempt[t] + 1 \in 1 .. MaxAttempts
    BY <1>4 DEF Retry, MoreAttempts, IInv, TypeOK
  <2> QED
    BY <1>4, <2>1 DEF Retry
<1>5. CASE ReserveAnswered(t) \/ StoreBooking(t) \/ ReleaseAnswered(t) \/ MarkCancelled(t)
           \/ ConnectionBreaks(t) \/ Die(t)
  BY <1>5 DEF ReserveAnswered, StoreBooking, ReleaseAnswered, MarkCancelled,
              ConnectionBreaks, Die, NoCall
<1> QED
  BY <1>1, <1>2, <1>3, <1>4, <1>5

\* What is under way stays so, and a cancellation that has begun remains on record.
LEMMA OwnStepKeepsAsked ==
    ASSUME IInv, ReleasesAsked, NEW t \in Tasks, reservation' = reservation,
           task' = task \/ (task[t].op # "cancel" /\ \A u \in Tasks \ {t} : task'[u] = task[u]),
           \/ attempt' = attempt /\ net' = net
           \/ \E k \in 1 .. MaxAttempts : /\ attempt' = [attempt EXCEPT ![t] = k]
                                          /\ net' = net \cup {<<t, k>>}
    PROVE  ReleasesAsked'
<1>1. \A u \in Tasks : attempt[u] > 0 => attempt'[u] > 0
  BY DEF IInv, TypeOK
<1>2. \A u \in Tasks : task[u].op = "cancel" => task'[u] = task[u]
  BY DEF IInv, TypeOK
<1>3. \A u \in Tasks, k \in 1 .. MaxAttempts :
         <<u, k>> \in net' => <<u, k>> \in net \/ attempt'[u] > 0
  BY DEF IInv, TypeOK
<1> QED
  BY <1>1, <1>2, <1>3 DEF ReleasesAsked, CancelBegun

\* The flight database releases only on behalf of a cancellation.
LEMMA ServedStepKeepsAsked ==
    ASSUME IInv, ReleasesAsked, NEW t \in Tasks, NEW k \in 1 .. MaxAttempts,
           ServeReserve(t, k) \/ ServeRelease(t, k) \/ LoseAttempt(t, k)
    PROVE  ReleasesAsked'
<1>1. task' = task /\ attempt' = attempt /\ net' \subseteq net /\ <<t, k>> \in net
  BY DEF ServeReserve, ServeRelease, LoseAttempt, Respond
<1>2. \A c \in Bookings : CancelBegun(c) => CancelBegun(c)'
  BY <1>1 DEF CancelBegun
<1>3. ASSUME NEW c \in Bookings, reservation'[c].status = "RELEASED"
      PROVE  CancelBegun(c)
  <2>1. CASE reservation'[c] = reservation[c]
    BY <1>3, <2>1 DEF ReleasesAsked
  <2>2. CASE ServeRelease(t, k) /\ Release(task[t].booking)
    <3>1. task[t].op = "cancel" /\ attempt[t] > 0
      BY <1>1, <2>2 DEF ServeRelease, ReleasesAsked
    <3>2. c = task[t].booking \/ reservation'[c] = reservation[c]
      BY <2>2 DEF Release, IInv, TypeOK, InventoryTypeOK
    <3> QED
      BY <2>1, <3>1, <3>2 DEF CancelBegun
  <2>3. CASE Reserve(task[t].booking, task[t].flight, task[t].seats)
    BY <1>3, <2>1, <2>3 DEF Reserve, ActiveRow, IInv, TypeOK, InventoryTypeOK
  <2> QED
    BY <2>1, <2>2, <2>3 DEF ServeReserve, ServeRelease, LoseAttempt
<1> QED
  BY <1>1, <1>2, <1>3 DEF ReleasesAsked

LEMMA ReleasesAlwaysAsked == Spec => []ReleasesAsked
<1>1. Init => ReleasesAsked
  BY DEF Init, InventoryInit, NoRow, ReleasesAsked
<1>2. ASSUME IInv, ReleasesAsked, [Next]_vars PROVE ReleasesAsked'
  <2>1. CASE UNCHANGED vars
    BY <1>2, <2>1 DEF vars, ReleasesAsked, CancelBegun
  <2>2. ASSUME NEW t \in Tasks,
               \/ \E f \in Flights \cup {NoFlight}, n \in SeatCounts : StartCreate(t, f, n)
               \/ \E b \in Bookings : StartCancel(t, b)
               \/ FetchFlight(t) \/ ReserveAnswered(t) \/ StoreBooking(t)
               \/ ReleaseAnswered(t) \/ MarkCancelled(t)
               \/ Retry(t) \/ ConnectionBreaks(t) \/ Die(t)
        PROVE  ReleasesAsked'
    BY <1>2, <2>2, OwnStep, OwnStepKeepsAsked
  <2> QED
    BY <1>2, <2>1, <2>2, ServedStepKeepsAsked DEF Next
<1>3. IInv /\ ReleasesAsked /\ [Next]_vars => ReleasesAsked'
  BY <1>2
<1> QED
  BY <1>1, <1>3, BookingServiceInvariant, PTL DEF Spec

\* Nobody loses a seat without having asked for it, for any traffic: bookings that table
\* bookings calls CONFIRMED and nobody has begun to cancel, and the seats on offer, fit
\* into the aircraft (create_booking, cancel_booking over reserve_seats and
\* release_reservation).
THEOREM CancelsAloneOversell == Spec => []OnlyCancelsOversell
<1>1. ASSUME IInv, ReleasesAsked, InventoryInv PROVE OnlyCancelsOversell
  <2> SUFFICES ASSUME NEW f \in Flights
               PROVE  available[f] + Cardinality(KeptSeats(f)) <= Total[f]
    BY DEF OnlyCancelsOversell
  <2>1. KeptSeats(f) \subseteq HeldSeats(f)
    <3>1. ASSUME NEW b \in Bookings, booking[b].status = "CONFIRMED",
                 booking[b].flight = f, ~CancelBegun(b)
          PROVE  b \in Holders(f) /\ booking[b].seats = reservation[b].seats
      <4>1. reservation[b] \in Rows /\ PhaseOf(b) # "broken"
        BY <1>1 DEF IInv, TypeOK, InventoryTypeOK, StepsJustified
      <4>2. reservation[b].status # "RELEASED"
        BY <1>1, <3>1 DEF ReleasesAsked
      <4>3. reservation[b].status = "ACTIVE"
        BY <3>1, <4>1, <4>2 DEF PhaseOf, Rows
      <4> QED
        BY <1>1, <3>1, <4>3 DEF IInv, RowsMatch, Holders
    <3> QED
      BY <3>1 DEF KeptSeats, HeldSeats, SeatsOf
  <2>2. /\ IsFiniteSet(HeldSeats(f)) /\ available[f] \in Nat
        /\ available[f] + Cardinality(HeldSeats(f)) = Total[f]
    BY <1>1 DEF InventoryInv
  <2>3. /\ Cardinality(KeptSeats(f)) <= Cardinality(HeldSeats(f))
        /\ IsFiniteSet(KeptSeats(f))
    BY <2>1, <2>2, FS_Subset, Zenon
  <2>4. Cardinality(HeldSeats(f)) \in Nat /\ Cardinality(KeptSeats(f)) \in Nat
    BY <2>2, <2>3, FS_CardinalityType
  <2> QED
    BY <2>2, <2>3, <2>4
<1> QED
  BY <1>1, BookingServiceInvariant, ReleasesAlwaysAsked, BookingImplementsInventory,
     InventoryInvAlways, PTL
=============================================================================
