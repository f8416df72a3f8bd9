---------------------------- MODULE Appointments ----------------------------
(***************************************************************************)
(* Appointments and their messages.  The MCP server reports a booking      *)
(* (createFromMcp), possibly more than once; the request that inserts the  *)
(* row sends the confirmation.  A cron runs every minute on EVERY pod      *)
(* (dispatchDueReminders): it reads the upcoming rows once, then claims,   *)
(* sends and records each reminder that is due, one after the other, from  *)
(* the row as it read it.                                                  *)
(*                                                                         *)
(* A row's `reminderStates` maps an offset key ("1440", "60") to the fate  *)
(* of that reminder; "none" stands for a key that is absent.  Time counts  *)
(* units of DUE_WINDOW_MS (30 seconds).                                    *)
(***************************************************************************)
EXTENDS Integers

CONSTANTS
  Appts,      \* the bookings of one bot
  Start,      \* [Appts -> Nat], startAt
  Keys,       \* ALLOWED_REMINDER_OFFSETS, as keys of reminderStates
  Minutes,    \* [Keys -> Nat], an offset in units of time
  Hops,       \* requests of the MCP server, retries included
  For,        \* [Hops -> Appts], the booking a request reports
  Ticks,      \* cron ticks that can be under way at once, on any pod
  Window,     \* DUE_WINDOW_MS
  Scan,       \* SCAN_WINDOW_MINUTES
  Period,     \* the longest time between the starts of two ticks
  MaxTick,    \* bound on the age of a running tick
  Horizon,    \* bound on the clock
  Failures    \* whether pods die and database calls fail

\* A tick never gets so old that another offset of the same booking falls due
\* within its life: the offsets are 23 hours apart.
ASSUME TimeAssumption ==
  /\ Start \in [Appts -> Nat] /\ Minutes \in [Keys -> Nat]
  /\ Window \in Nat /\ MaxTick \in Nat /\ Scan \in Nat /\ Period \in Nat /\ Horizon \in Nat
  /\ \A k, l \in Keys : k # l => \/ Minutes[k] - Minutes[l] > 2 * Window + MaxTick
                                 \/ Minutes[l] - Minutes[k] > 2 * Window + MaxTick

ASSUME NamesAssumption ==
  /\ For \in [Hops -> Appts]
  /\ Failures \in BOOLEAN
  /\ "confirm" \notin Keys

States == {"none", "pending", "sent", "failed"}
Reminders == Appts \X Keys
Confirmations == Appts \X {"confirm"}
Messages == Reminders \cup Confirmations
NoJob == <<>>

VARIABLES
  now,        \* the clock
  lastStart,  \* when the latest tick started
  enabled,    \* appointmentReminderOffsets of the bot
  created,    \* the bookings that have an Appointment row
  states,     \* reminderStates of each row
  booked,     \* the bookings whose BOOKING flow has reached BOOKED
  hop,        \* how far each request of the MCP server is
  pc, at, seen, todo, cur, outcome,   \* the local state of each tick
  tried,      \* history: how often a message was handed to SmsService
  delivered,  \* history: the messages the provider accepted
  steady      \* history: the reminders the code has every chance to send

tickVars == <<pc, at, seen, todo, cur, outcome>>
sends    == <<tried, delivered>>
vars     == <<now, lastStart, enabled, created, states, booked, hop,
              tickVars, sends, steady>>

Target(a, k) == Start[a] - Minutes[k]
Near(x, y, d) == x - y <= d /\ y - x <= d

Blank == [a \in Appts |-> [k \in Keys |-> "none"]]

-----------------------------------------------------------------------------
(* History.  A reminder stays `steady` as long as its row exists and its   *)
(* offset is enabled from the moment its window opens until the last tick  *)
(* that can have found it due is over.                                     *)

Watched(a, k, t) == /\ Target(a, k) - Window <= t
                    /\ t <= Target(a, k) + Window + MaxTick

StillSteady(t, rows, keys) ==
  {j \in steady : Watched(j[1], j[2], t) => j[1] \in rows /\ j[2] \in keys}

Init ==
  /\ now = 0 /\ lastStart = 0
  /\ enabled \in SUBSET Keys
  /\ created = {} /\ states = Blank /\ booked = {}
  /\ hop = [h \in Hops |-> "new"]
  /\ pc = [i \in Ticks |-> "idle"]
  /\ at = [i \in Ticks |-> 0]
  /\ seen = [i \in Ticks |-> Blank]
  /\ todo = [i \in Ticks |-> {}]
  /\ cur = [i \in Ticks |-> NoJob]
  /\ outcome = [i \in Ticks |-> "none"]
  /\ tried = [m \in Messages |-> 0]
  /\ delivered = {}
  /\ steady = {j \in Reminders : ~Failures /\ Target(j[1], j[2]) - Window > 0}

-----------------------------------------------------------------------------
(* createFromMcp                                                           *)

HopGoes(h, from, to) == hop[h] = from /\ hop' = [hop EXCEPT ![h] = to]

\* The insert under the unique key (botId, calendarEventId).
Insert(h) ==
  /\ HopGoes(h, "new", "confirm")
  /\ For[h] \notin created
  /\ created' = created \cup {For[h]}
  /\ UNCHANGED <<now, lastStart, enabled, states, booked, tickVars, sends, steady>>

\* P2002: the row is there already; no second confirmation.
InsertRefused(h) ==
  /\ HopGoes(h, "new", "over")
  /\ For[h] \in created
  /\ UNCHANGED <<now, lastStart, enabled, created, states, booked, tickVars, sends, steady>>

\* Any other error propagates, with or without the row written.
InsertFails(h) ==
  /\ Failures
  /\ HopGoes(h, "new", "over")
  /\ created' \in {created, created \cup {For[h]}}
  /\ UNCHANGED <<now, lastStart, enabled, states, booked, tickVars, sends, steady>>

\* The provider accepts a message or not; an error may hide an acceptance.
Hand(m, ok) ==
  /\ tried' = [tried EXCEPT ![m] = @ + 1]
  /\ delivered' \in IF ok THEN {delivered \cup {m}} ELSE {delivered, delivered \cup {m}}

\* The confirmation is best effort: its failure is swallowed.
Confirm(h) ==
  /\ HopGoes(h, "confirm", "flow")
  /\ \E ok \in BOOLEAN : Hand(<<For[h], "confirm">>, ok)
  /\ UNCHANGED <<now, lastStart, enabled, created, states, booked, tickVars, steady>>

\* safeTransition to BOOKED: refused and swallowed when the flow is elsewhere.
Book(h) ==
  /\ HopGoes(h, "flow", "over")
  /\ booked' \in {booked, booked \cup {For[h]}}
  /\ UNCHANGED <<now, lastStart, enabled, created, states, tickVars, sends, steady>>

HopDies(h) ==
  /\ Failures
  /\ \E from \in {"confirm", "flow"} : HopGoes(h, from, "over")
  /\ UNCHANGED <<now, lastStart, enabled, created, states, booked, tickVars, sends, steady>>

\* The owner ticks other boxes in the bot's settings.
UpdateReminderOffsets ==
  /\ enabled' \in SUBSET Keys \ {enabled}
  /\ steady' = StillSteady(now, created, enabled')
  /\ UNCHANGED <<now, lastStart, created, states, booked, hop, tickVars, sends>>

-----------------------------------------------------------------------------
(* dispatchDueReminders                                                    *)

Goes(i, from, to) == pc[i] = from /\ pc' = [pc EXCEPT ![i] = to]

\* The tick takes the time once ...
TickStarts(i) ==
  /\ Goes(i, "idle", "scan")
  /\ at' = [at EXCEPT ![i] = now]
  /\ lastStart' = now
  /\ UNCHANGED <<now, enabled, created, states, booked, hop, seen, todo, cur, outcome,
                 sends, steady>>

\* Which reminders of the rows it read are upcoming, unhandled and due.
InScan(a, t) == t < Start[a] /\ Start[a] < t + Scan

\* Mutations: a narrower window; one that also catches up on missed targets.
InNarrowWindow(a, k, t) == Near(Target(a, k), t, Window - 1)
DueOrMissed(a, k, t) == Target(a, k) - t <= Window

InDueWindow(a, k, t) == Near(Target(a, k), t, Window)

Due(t) == {j \in created \X enabled : /\ InScan(j[1], t)
                                      /\ states[j[1]][j[2]] = "none"
                                      /\ InDueWindow(j[1], j[2], t)}

\* ... and then reads the upcoming rows with the bot's offsets.
TickScans(i) ==
  /\ Goes(i, "scan", "loop")
  /\ seen' = [seen EXCEPT ![i] = states]
  /\ todo' = [todo EXCEPT ![i] = Due(at[i])]
  /\ UNCHANGED <<now, lastStart, enabled, created, states, booked, hop, at, cur, outcome,
                 sends, steady>>

\* claimOffset: one UPDATE that matches only while the key is absent.
\* Mutation: the claim without its condition.
ClaimAnyway(a, k) == TRUE
Claimable(a, k) == states[a][k] = "none"
Mark(a, k, s) == [states EXCEPT ![a][k] = s]

ClaimWon(i, a, k) ==
  /\ Goes(i, "loop", "send")
  /\ <<a, k>> \in todo[i] /\ Claimable(a, k)
  /\ states' = Mark(a, k, "pending")
  /\ todo' = [todo EXCEPT ![i] = @ \ {<<a, k>>}]
  /\ cur' = [cur EXCEPT ![i] = <<a, k>>]
  /\ UNCHANGED <<now, lastStart, enabled, created, booked, hop, at, seen, outcome,
                 sends, steady>>

\* No row matched, or the call failed; a failed call may have claimed the key.
ClaimNotWon(i, a, k) ==
  /\ pc[i] = "loop" /\ <<a, k>> \in todo[i]
  /\ \/ ~Claimable(a, k) /\ UNCHANGED states
     \/ Failures /\ UNCHANGED states
     \/ Failures /\ Claimable(a, k) /\ states' = Mark(a, k, "pending")
  /\ todo' = [todo EXCEPT ![i] = @ \ {<<a, k>>}]
  /\ UNCHANGED <<now, lastStart, enabled, created, booked, hop, pc, at, seen, cur, outcome,
                 sends, steady>>

\* dispatchOne: an error of the provider is the outcome `failed`.
\* Mutation: the error is swallowed.
FateSent(ok) == "sent"
Fate(ok) == IF ok THEN "sent" ELSE "failed"

Send(i) ==
  /\ Goes(i, "send", "record")
  /\ \E ok \in BOOLEAN :
       /\ Hand(cur[i], ok)
       /\ outcome' = [outcome EXCEPT ![i] = Fate(ok)]
  /\ UNCHANGED <<now, lastStart, enabled, created, states, booked, hop, at, seen, todo, cur,
                 steady>>

\* recordOutcome writes the WHOLE map: the one the tick read, with one key set.
Merged(i) ==
  [states EXCEPT ![cur[i][1]] = [seen[i][cur[i][1]] EXCEPT ![cur[i][2]] = outcome[i]]]

\* Mutations: the job is not put down; only a success is recorded.
RecordAndHold(i) ==
  /\ Goes(i, "record", "loop")
  /\ states' = Merged(i)
  /\ outcome' = [outcome EXCEPT ![i] = "none"]
  /\ UNCHANGED <<now, lastStart, enabled, created, booked, hop, at, seen, todo, cur, sends, steady>>

RecordSentOnly(i) ==
  /\ Goes(i, "record", "loop")
  /\ states' = IF outcome[i] = "sent" THEN Merged(i) ELSE states
  /\ cur' = [cur EXCEPT ![i] = NoJob]
  /\ outcome' = [outcome EXCEPT ![i] = "none"]
  /\ UNCHANGED <<now, lastStart, enabled, created, booked, hop, at, seen, todo, sends, steady>>

Record(i) ==
  /\ Goes(i, "record", "loop")
  /\ \/ states' = Merged(i)
     \/ Failures /\ UNCHANGED states
  /\ cur' = [cur EXCEPT ![i] = NoJob]
  /\ outcome' = [outcome EXCEPT ![i] = "none"]
  /\ UNCHANGED <<now, lastStart, enabled, created, booked, hop, at, seen, todo, sends, steady>>

Forget(i) ==
  /\ pc' = [pc EXCEPT ![i] = "idle"]
  /\ at' = [at EXCEPT ![i] = 0]
  /\ seen' = [seen EXCEPT ![i] = Blank]
  /\ todo' = [todo EXCEPT ![i] = {}]
  /\ cur' = [cur EXCEPT ![i] = NoJob]
  /\ outcome' = [outcome EXCEPT ![i] = "none"]
  /\ UNCHANGED <<now, lastStart, enabled, created, states, booked, hop, sends, steady>>

TickEnds(i) == pc[i] = "loop" /\ todo[i] = {} /\ Forget(i)

\* The pod dies, or the query of the rows throws.
TickDies(i) == Failures /\ pc[i] # "idle" /\ Forget(i)

-----------------------------------------------------------------------------
(* Time, and the whole system                                              *)

Advance ==
  /\ now < Horizon
  /\ now - lastStart < Period
  /\ \A i \in Ticks : pc[i] # "idle" => now - at[i] < MaxTick
  /\ now' = now + 1
  /\ steady' = StillSteady(now + 1, created, enabled)
  /\ UNCHANGED <<lastStart, enabled, created, states, booked, hop, tickVars, sends>>

HopStep(h) == \/ Insert(h) \/ InsertRefused(h) \/ InsertFails(h)
              \/ Confirm(h) \/ Book(h) \/ HopDies(h)

\* The steps a tick takes by itself once it has started.
TickGoesOn(i) == \/ TickScans(i) \/ Send(i) \/ Record(i) \/ TickEnds(i)
                 \/ \E a \in Appts, k \in Keys : ClaimWon(i, a, k) \/ ClaimNotWon(i, a, k)

Next == \/ \E h \in Hops : HopStep(h)
        \/ \E i \in Ticks : TickStarts(i) \/ TickGoesOn(i) \/ TickDies(i)
        \/ UpdateReminderOffsets
        \/ Advance

Spec == Init /\ [][Next]_vars

\* A started tick goes on: its loop only awaits calls that return or throw.
FairSpec == Spec /\ \A i \in Ticks : WF_vars(TickGoesOn(i))

-----------------------------------------------------------------------------
(* Properties                                                              *)

Running(i) == pc[i] \in {"loop", "send", "record"}
Busy(i) == pc[i] \in {"send", "record"}

\* Every variable has its type, and a tick works on a job exactly while it
\* sends or records, a job that was due when the tick started: the local
\* variables of dispatchDueReminders (appointment-reminder.service.ts:53-118).
TypeOK ==
  /\ now \in Nat /\ lastStart \in Nat
  /\ enabled \in SUBSET Keys /\ created \in SUBSET Appts /\ booked \in SUBSET Appts
  /\ states \in [Appts -> [Keys -> States]]
  /\ hop \in [Hops -> {"new", "confirm", "flow", "over"}]
  /\ pc \in [Ticks -> {"idle", "scan", "loop", "send", "record"}]
  /\ at \in [Ticks -> Nat]
  /\ seen \in [Ticks -> [Appts -> [Keys -> States]]]
  /\ todo \in [Ticks -> SUBSET Reminders]
  /\ cur \in [Ticks -> Reminders \cup {NoJob}]
  /\ outcome \in [Ticks -> States]
  /\ tried \in [Messages -> Nat] /\ delivered \in SUBSET Messages
  /\ steady \in SUBSET Reminders
  /\ \A i \in Ticks : cur[i] # NoJob => Busy(i)

\* A confirmation is claimed by inserting the row, a reminder by its key.
Claimed == (created \X {"confirm"}) \cup {j \in Reminders : states[j[1]][j[2]] # "none"}

Contract == INSTANCE AtMostOnce WITH Jobs <- Messages, claimed <- Claimed, tried <- tried

\* Pods, ticks, retried requests, crashes and lost writes notwithstanding, no
\* message is handed to the provider twice, none without a claim, and no claim
\* is lost: recordOutcome writes a map that may be older than another tick's
\* claim (appointment-reminder.service.ts:221).
ImplementsAtMostOnce == Contract!Spec

\* A recorded outcome stays: no tick writes its older copy of the map over it
\* (appointment-reminder.service.ts:215-226).
Recorded(s) == s \in {"sent", "failed"}
OutcomesAreFinal ==
  [][\A a \in Appts, k \in Keys :
       Recorded(states[a][k]) => states'[a][k] = states[a][k]]_vars

\* What the row says of a reminder is true: `sent` was accepted, and `failed`
\* was tried (dispatchOne, appointment-reminder.service.ts:155-177).
OutcomesAreTrue ==
  \A a \in Appts, k \in Keys :
    /\ states[a][k] = "sent" => <<a, k>> \in delivered
    /\ states[a][k] = "failed" => tried[<<a, k>>] = 1

\* Ticks start so often that one falls in every window, and a booking is in the
\* scan, and still to come, while one of its windows is open.
OnTime ==
  /\ Period <= 2 * Window
  /\ \A k \in Keys : Window < Minutes[k] /\ Minutes[k] + Window < Scan

\* "That window ensures every scheduled slot gets exactly one dispatch attempt"
\* (appointment-reminder.service.ts:7-9), for a slot the code had every chance
\* to serve.  It holds when nothing fails and ticks start at most two windows
\* apart; one late tick is enough to lose a reminder.
SlotGetsOneAttempt ==
  \A j \in steady :
    now > Target(j[1], j[2]) + Window + MaxTick => tried[j] = 1

\* When nothing fails, a claim does not stay `pending`
\* (appointment-reminder.service.ts:110-115): there comes a time when each reminder
\* of the booking has its outcome, or is unclaimed and was never attempted.
ClaimsAreResolved ==
  \A a \in Appts :
    (\E k \in Keys : states[a][k] = "pending")
      ~> (\A k \in Keys : Recorded(states[a][k]) \/ (states[a][k] = "none" /\ tried[<<a, k>>] = 0))
=============================================================================
