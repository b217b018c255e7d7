------------------------------ MODULE Reminders -----------------------------
(***************************************************************************)
(* The reminders of reservations that expire in about four hours           *)
(* (notifications.send_ttl_reminders).  Beat starts a run every ten        *)
(* minutes, whether or not the last one has ended.  A run selects the      *)
(* reservations whose time is near; for each it looks for a log row,       *)
(* commits one, and queues the e-mail, which another task sends.           *)
(***************************************************************************)
EXTENDS Integers

CONSTANTS
    Booked,         \* reservations that wait for a payment
    Worker,         \* runs of the task at the same time
    MaxRuns,        \* bound on the runs
    MaxFailures     \* bound on killed runs and e-mails that fail

ASSUME RemindersAssumption == MaxRuns \in Nat /\ MaxFailures \in Nat

VARIABLES
    near,       \* reservations whose expiry lies in the window, and that wait
    logs,       \* rows of notification_log
    turn,       \* what each run has left, and the reservation it works on
    mails,      \* e-mails that are queued
    received,   \* e-mails that were sent
    doubled,    \* reservations that two overlapping runs both took
    lost,       \* reservations whose reminder a failure lost
    runs, failures

reminderVars == <<near, logs, turn, mails, received, doubled, lost, runs, failures>>

NoTurn == [at |-> "idle"]

\* The window opens or closes for a reservation; paying closes it too.
Pass(r) ==
    /\ near' = IF r \in near THEN near \ {r} ELSE near \cup {r}
    /\ UNCHANGED <<logs, turn, mails, received, doubled, lost, runs, failures>>

\* The first query.
Begin(w) ==
    /\ turn[w] = NoTurn
    /\ runs < MaxRuns
    /\ runs' = runs + 1
    /\ turn' = [turn EXCEPT ![w] = [at |-> "loop", left |-> near]]
    /\ UNCHANGED <<near, logs, mails, received, doubled, lost, failures>>

\* Mutant: a reservation counts as reminded once its e-mail was sent.
RemindedIfReceived(r) == received[r] > 0

\* There is a log row.
Reminded(r) == logs[r] > 0

\* The query for the next reservation: skip it, or go on to log it.
Look(w, r) ==
    /\ turn[w].at = "loop" /\ r \in turn[w].left
    /\ turn' = [turn EXCEPT ![w] =
                  IF Reminded(r) THEN [turn[w] EXCEPT !.left = @ \ {r}]
                  ELSE [at |-> "log", left |-> turn[w].left \ {r}, of |-> r, alone |-> TRUE]]
    /\ UNCHANGED <<near, logs, mails, received, doubled, lost, runs, failures>>

\* The commit of the row, which no key refuses.  Runs that have looked and not
\* yet logged the same reservation will log it again.
Log(w) ==
    /\ turn[w].at = "log"
    /\ LET r == turn[w].of
       IN  /\ logs' = [logs EXCEPT ![r] = @ + 1]
           /\ doubled' = IF turn[w].alone THEN doubled ELSE doubled \cup {r}
           /\ turn' = [v \in Worker |->
                         IF v = w THEN [at |-> "send", left |-> turn[w].left, of |-> r]
                         ELSE IF turn[v].at = "log" /\ turn[v].of = r
                              THEN [turn[v] EXCEPT !.alone = FALSE]
                              ELSE turn[v]]
    /\ UNCHANGED <<near, mails, received, lost, runs, failures>>

\* Mutant: the e-mail of the last reservation is not queued.
SendAllButLast(w) ==
    /\ turn[w].at = "send"
    /\ mails' = IF turn[w].left = {} THEN mails ELSE [mails EXCEPT ![turn[w].of] = @ + 1]
    /\ turn' = [turn EXCEPT ![w] = [at |-> "loop", left |-> @.left]]
    /\ UNCHANGED <<near, logs, received, doubled, lost, runs, failures>>

\* send_recordatorio_ttl_email.delay.
Send(w) ==
    /\ turn[w].at = "send"
    /\ mails' = [mails EXCEPT ![turn[w].of] = @ + 1]
    /\ turn' = [turn EXCEPT ![w] = [at |-> "loop", left |-> @.left]]
    /\ UNCHANGED <<near, logs, received, doubled, lost, runs, failures>>

End(w) ==
    /\ turn[w].at = "loop" /\ turn[w].left = {}
    /\ turn' = [turn EXCEPT ![w] = NoTurn]
    /\ UNCHANGED <<near, logs, mails, received, doubled, lost, runs, failures>>

\* The worker process is killed; a row that was logged stays logged.
Killed(w) ==
    /\ turn[w] # NoTurn /\ failures < MaxFailures
    /\ failures' = failures + 1
    /\ lost' = IF turn[w].at = "send" THEN lost \cup {turn[w].of} ELSE lost
    /\ turn' = [turn EXCEPT ![w] = NoTurn]
    /\ UNCHANGED <<near, logs, mails, received, doubled, runs>>

\* The e-mail task, which does not ask whether the reservation still waits,
\* and is not retried.
Mail(r, fails) ==
    /\ mails[r] > 0
    /\ fails => failures < MaxFailures
    /\ mails' = [mails EXCEPT ![r] = @ - 1]
    /\ received' = IF fails THEN received ELSE [received EXCEPT ![r] = @ + 1]
    /\ lost' = IF fails THEN lost \cup {r} ELSE lost
    /\ failures' = IF fails THEN failures + 1 ELSE failures
    /\ UNCHANGED <<near, logs, turn, doubled, runs>>

-----------------------------------------------------------------------------
RemindersInit ==
    /\ near = {}
    /\ logs = [r \in Booked |-> 0]
    /\ turn = [w \in Worker |-> NoTurn]
    /\ mails = [r \in Booked |-> 0]
    /\ received = [r \in Booked |-> 0]
    /\ doubled = {} /\ lost = {}
    /\ runs = 0 /\ failures = 0

Work(w) == (\E r \in Booked : Look(w, r)) \/ Log(w) \/ Send(w) \/ End(w)

RemindersNext ==
    \/ \E w \in Worker : Begin(w) \/ Work(w) \/ Killed(w)
    \/ \E r \in Booked : Pass(r) \/ \E fails \in BOOLEAN : Mail(r, fails)

\* A run that began goes on until it ends or is killed, and a queued e-mail is
\* taken from the queue: the worker process is up.
RemindersFairness ==
    /\ \A w \in Worker : WF_reminderVars(Work(w))
    /\ \A r \in Booked : WF_reminderVars(\E fails \in BOOLEAN : Mail(r, fails))

RemindersSpec == RemindersInit /\ [][RemindersNext]_reminderVars /\ RemindersFairness

-----------------------------------------------------------------------------
(* Properties.                                                             *)

\* Types; and every e-mail is accounted for by a row that was logged before.
RemindersTypeOK ==
    /\ near \subseteq Booked /\ doubled \subseteq Booked /\ lost \subseteq Booked
    /\ \A w \in Worker : turn[w].at \in {"idle", "loop", "log", "send"}
    /\ \A r \in Booked : mails[r] >= 0 /\ mails[r] + received[r] <= logs[r]

\* A customer is reminded twice only where two runs overlapped
\* (send_ttl_reminders: "que no tengan ya un recordatorio enviado").
RemindedOnce == \A r \in Booked : received[r] > 1 => r \in doubled

\* What the log calls sent is sent, unless a failure came between: the row is
\* committed first and no later run tries again.
LoggedIsSent == \A r \in Booked : logs[r] > 0 ~> received[r] > 0 \/ r \in lost

\* The reminders (notifications/tasks.py:171-209).
RemindersInv == RemindersTypeOK /\ RemindedOnce

=============================================================================
