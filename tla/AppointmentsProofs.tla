------------------------- MODULE AppointmentsProofs -------------------------
(* Proofs about Appointments for any bookings, offsets, requests, ticks
   and bounds that meet its assumptions.
   
   The danger is recordOutcome, which writes the whole map of a row as the
   tick read it.  The invariant Copies bounds how a running tick's copy
   can differ from the row: only at reminders whose target is near the
   start of the tick.  The offsets lie further apart, so besides the key
   it sets, a tick writes back what the row holds anyway. *)
EXTENDS Appointments, TLAPS

USE DEF Reminders, Confirmations, Messages

Ages ==
  \A i \in Ticks : pc[i] # "idle" => at[i] <= now /\ now <= at[i] + MaxTick

Lists ==
  \A i \in Ticks :
    /\ ~Running(i) => todo[i] = {}
    /\ \A a \in Appts, k \in Keys : <<a, k>> \in todo[i] => InDueWindow(a, k, at[i])

Owners ==
  /\ \A i \in Ticks : Busy(i) => cur[i] \in Reminders
  /\ \A i \in Ticks, a \in Appts, k \in Keys :
       Busy(i) /\ cur[i] = <<a, k>> =>
         /\ InDueWindow(a, k, at[i])
         /\ states[a][k] = "pending"
         /\ pc[i] = "send" => tried[<<a, k>>] = 0
         /\ pc[i] = "record" => /\ tried[<<a, k>>] = 1
                                /\ Recorded(outcome[i])
                                /\ outcome[i] = "sent" => <<a, k>> \in delivered
  /\ \A i, j \in Ticks : Busy(i) /\ Busy(j) /\ cur[i] = cur[j] => i = j

Copies ==
  \A i \in Ticks : Running(i) =>
    \A a \in Appts, k \in Keys :
      seen[i][a][k] # states[a][k] => Near(Target(a, k), at[i], Window + MaxTick)

Rows ==
  \A a \in Appts, k \in Keys :
    /\ states[a][k] = "none" => tried[<<a, k>>] = 0
    /\ states[a][k] = "sent" => tried[<<a, k>>] = 1 /\ <<a, k>> \in delivered
    /\ states[a][k] = "failed" => tried[<<a, k>>] = 1

Confirmers ==
  /\ \A h \in Hops : hop[h] = "confirm" =>
       For[h] \in created /\ tried[<<For[h], "confirm">>] = 0
  /\ \A h, g \in Hops : hop[h] = "confirm" /\ hop[g] = "confirm" /\ For[h] = For[g] => h = g
  /\ \A a \in Appts : a \notin created => tried[<<a, "confirm">>] = 0

IInv == TypeOK /\ Ages /\ Lists /\ Owners /\ Copies /\ Rows /\ Confirmers

--------------------
(* What the helpers do *)

\* Setting one key of one row changes that key only.
LEMMA MarkEffect ==
  ASSUME TypeOK, NEW a \in Appts, NEW k \in Keys, NEW s \in States
  PROVE  /\ Mark(a, k, s) \in [Appts -> [Keys -> States]]
         /\ Mark(a, k, s)[a][k] = s
         /\ \A b \in Appts, l \in Keys :
              <<b, l>> # <<a, k>> => Mark(a, k, s)[b][l] = states[b][l]
<1>0. states \in [Appts -> [Keys -> States]] BY DEF TypeOK
<1>1. Mark(a, k, s) \in [Appts -> [Keys -> States]] BY <1>0 DEF Mark
<1>2. Mark(a, k, s)[a][k] = s BY <1>0 DEF Mark
<1>3. ASSUME NEW b \in Appts, NEW l \in Keys, <<b, l>> # <<a, k>>
      PROVE  Mark(a, k, s)[b][l] = states[b][l]
 <2>1. CASE b # a BY <1>0, <2>1 DEF Mark
 <2>2. CASE b = a /\ l # k BY <1>0, <2>2 DEF Mark
 <2> QED BY <1>3, <2>1, <2>2
<1> QED BY <1>1, <1>2, <1>3

\* Handing over one message counts that message only.
LEMMA HandEffect ==
  ASSUME TypeOK, NEW m \in Messages, NEW ok \in BOOLEAN, Hand(m, ok)
  PROVE  /\ tried' \in [Messages -> Nat] /\ delivered' \in SUBSET Messages
         /\ tried'[m] = tried[m] + 1
         /\ \A n \in Messages : n # m => tried'[n] = tried[n]
         /\ ok => m \in delivered'
         /\ delivered \subseteq delivered'
BY DEF Hand, TypeOK

\* The offsets are so far apart that what is near the start of a tick for one
\* of them is not for another.
LEMMA OffsetsApart ==
  ASSUME NEW a \in Appts, NEW k \in Keys, NEW l \in Keys, NEW t \in Nat,
         Near(Target(a, k), t, Window), Near(Target(a, l), t, Window + MaxTick)
  PROVE  k = l
<1>1. Start[a] \in Nat /\ Minutes[k] \in Nat /\ Minutes[l] \in Nat BY TimeAssumption
<1>2. Window \in Nat /\ MaxTick \in Nat BY TimeAssumption
<1>3. k # l => \/ Minutes[k] - Minutes[l] > 2 * Window + MaxTick
               \/ Minutes[l] - Minutes[k] > 2 * Window + MaxTick
  BY TimeAssumption
<1> QED BY <1>1, <1>2, <1>3 DEF Near, Target

\* Two ticks under way at once started close together.
LEMMA NearbyTicks ==
  ASSUME TypeOK, Ages, NEW i \in Ticks, NEW j \in Ticks, pc[i] # "idle", pc[j] # "idle",
         NEW a \in Appts, NEW k \in Keys, InDueWindow(a, k, at[j])
  PROVE  Near(Target(a, k), at[i], Window + MaxTick)
<1>1. at[i] \in Nat /\ at[j] \in Nat /\ now \in Nat BY DEF TypeOK
<1>2. /\ at[i] <= now /\ now <= at[i] + MaxTick
      /\ at[j] <= now /\ now <= at[j] + MaxTick
  BY DEF Ages
<1>3. Start[a] \in Nat /\ Minutes[k] \in Nat /\ Window \in Nat /\ MaxTick \in Nat BY TimeAssumption
<1> QED BY <1>1, <1>2, <1>3 DEF InDueWindow, Near, Target

\* recordOutcome sets one key of one row, however old the tick's copy is.
LEMMA RecordEffect ==
  ASSUME IInv, NEW i \in Ticks, pc[i] = "record",
         NEW a \in Appts, NEW k \in Keys, cur[i] = <<a, k>>
  PROVE  /\ Merged(i) \in [Appts -> [Keys -> States]]
         /\ Merged(i)[a][k] = outcome[i]
         /\ \A b \in Appts, l \in Keys : <<b, l>> # <<a, k>> => Merged(i)[b][l] = states[b][l]
<1> DEFINE row == [seen[i][a] EXCEPT ![k] = outcome[i]]
<1>1. Merged(i) = [states EXCEPT ![a] = row] BY DEF Merged
<1>2. states \in [Appts -> [Keys -> States]] /\ seen[i][a] \in [Keys -> States]
      /\ outcome[i] \in States
  BY DEF IInv, TypeOK
<1>3. row \in [Keys -> States] /\ row[k] = outcome[i]
      /\ \A l \in Keys : l # k => row[l] = seen[i][a][l]
  BY <1>2
<1>4. ASSUME NEW l \in Keys, l # k
      PROVE  seen[i][a][l] = states[a][l]
 <2>1. Near(Target(a, k), at[i], Window) BY DEF IInv, Owners, Busy, InDueWindow
 <2>2. at[i] \in Nat BY DEF IInv, TypeOK
 <2>3. ~Near(Target(a, l), at[i], Window + MaxTick) BY <1>4, <2>1, <2>2, OffsetsApart
 <2> QED BY <2>3 DEF IInv, Copies, Running
<1> HIDE DEF row
<1>5. /\ Merged(i) \in [Appts -> [Keys -> States]]
      /\ Merged(i)[a] = row
      /\ \A b \in Appts : b # a => Merged(i)[b] = states[b]
  BY <1>1, <1>2, <1>3
<1>6. ASSUME NEW b \in Appts, NEW l \in Keys, <<b, l>> # <<a, k>>
      PROVE  Merged(i)[b][l] = states[b][l]
 <2>1. CASE b # a BY <2>1, <1>5
 <2>2. CASE b = a /\ l # k BY <2>2, <1>3, <1>4, <1>5
 <2> QED BY <1>6, <2>1, <2>2
<1> QED BY <1>3, <1>5, <1>6

--------------------
(* The invariant is inductive *)

\* The inductive invariant holds at the start.
LEMMA InitInv == Init => IInv
<1> SUFFICES ASSUME Init PROVE IInv OBVIOUS
<1>0. /\ states = Blank /\ Blank \in [Appts -> [Keys -> States]]
      /\ \A a \in Appts, k \in Keys : states[a][k] = "none"
  BY DEF Init, Blank, States
<1>1. TypeOK BY <1>0, TimeAssumption, NamesAssumption DEF Init, TypeOK, States
<1>2. Ages /\ Lists BY DEF Init, Ages, Lists, Running
<1>3. Owners /\ Copies BY DEF Init, Owners, Copies, Running, Busy
<1>4. Rows /\ Confirmers BY <1>0 DEF Init, Rows, Confirmers
<1> QED BY <1>1, <1>2, <1>3, <1>4 DEF IInv

\* Steps of a request of the MCP server concern its confirmation only.
LEMMA HopInv ==
  ASSUME IInv, NEW h \in Hops, HopStep(h)
  PROVE  IInv'
<1> USE NamesAssumption
<1>0. TypeOK /\ Ages /\ Lists /\ Owners /\ Copies /\ Rows /\ Confirmers BY DEF IInv
<1>1. CASE Insert(h) \/ InsertRefused(h) \/ InsertFails(h)
 <2>1. TypeOK' BY <1>0, <1>1 DEF TypeOK, Insert, InsertRefused, InsertFails, HopGoes, tickVars, sends, Busy
 <2>2. Ages' /\ Lists' /\ Copies'
   BY <1>0, <1>1 DEF Ages, Lists, Copies, Insert, InsertRefused, InsertFails, HopGoes,
                     tickVars, sends, Running
 <2>3. Owners' /\ Rows'
   BY <1>0, <1>1 DEF Owners, Rows, Insert, InsertRefused, InsertFails, HopGoes,
                     tickVars, sends, Busy
 <2>4. Confirmers'
  <3>0. hop \in [Hops -> {"new", "confirm", "flow", "over"}] /\ For[h] \in Appts
        /\ tried' = tried /\ created \subseteq created'
    BY <1>0, <1>1 DEF TypeOK, Insert, InsertRefused, InsertFails, HopGoes, sends
  <3>1. CASE Insert(h)
   <4>1. For[h] \notin created /\ created' = created \cup {For[h]}
         /\ hop' = [hop EXCEPT ![h] = "confirm"]
     BY <3>1 DEF Insert, HopGoes
   <4>2. \A g \in Hops : hop[g] = "confirm" => For[g] # For[h] BY <1>0, <4>1 DEF Confirmers
   <4>3. tried[<<For[h], "confirm">>] = 0 BY <1>0, <3>0, <4>1 DEF Confirmers
   <4> QED BY <1>0, <3>0, <4>1, <4>2, <4>3 DEF Confirmers
  <3>2. CASE InsertRefused(h) \/ InsertFails(h)
   <4>1. \A g \in Hops : hop'[g] = "confirm" => hop[g] = "confirm"
     BY <3>0, <3>2 DEF InsertRefused, InsertFails, HopGoes
   <4> QED BY <1>0, <3>0, <4>1 DEF Confirmers
  <3> QED BY <1>1, <3>1, <3>2
 <2> QED BY <2>1, <2>2, <2>3, <2>4 DEF IInv
<1>2. CASE Confirm(h)
 <2>1. PICK ok \in BOOLEAN : Hand(<<For[h], "confirm">>, ok) BY <1>2 DEF Confirm
 <2>2. <<For[h], "confirm">> \in Messages OBVIOUS
 <2>3. /\ tried' \in [Messages -> Nat] /\ delivered' \in SUBSET Messages
       /\ \A n \in Messages : n # <<For[h], "confirm">> => tried'[n] = tried[n]
       /\ delivered \subseteq delivered'
   BY <1>0, <2>1, <2>2, HandEffect
 <2>4. \A a \in Appts, k \in Keys : tried'[<<a, k>>] = tried[<<a, k>>] BY <2>3
 <2>5. TypeOK' BY <1>0, <1>2, <2>3 DEF TypeOK, Confirm, HopGoes, tickVars, Busy
 <2>6. Ages' /\ Lists' /\ Copies' BY <1>0, <1>2 DEF Ages, Lists, Copies, Confirm, HopGoes, tickVars, Running
 <2>7. Owners' /\ Rows' BY <1>0, <1>2, <2>3, <2>4 DEF Owners, Rows, Confirm, HopGoes, tickVars, Busy
 <2>8. Confirmers'
  <3>1. created' = created /\ hop[h] = "confirm" /\ hop' = [hop EXCEPT ![h] = "flow"] BY <1>2 DEF Confirm, HopGoes
  <3>2. \A a \in Appts : a # For[h] => tried'[<<a, "confirm">>] = tried[<<a, "confirm">>] BY <2>3
  <3>3. hop \in [Hops -> {"new", "confirm", "flow", "over"}] BY <1>0 DEF TypeOK
  <3> QED BY <1>0, <3>1, <3>2, <3>3 DEF Confirmers
 <2> QED BY <2>5, <2>6, <2>7, <2>8 DEF IInv
<1>3. CASE Book(h) \/ HopDies(h)
 <2>1. TypeOK' BY <1>0, <1>3 DEF TypeOK, Book, HopDies, HopGoes, tickVars, sends, Busy
 <2>2. Ages' /\ Lists' /\ Copies' BY <1>0, <1>3 DEF Ages, Lists, Copies, Book, HopDies, HopGoes, tickVars, Running
 <2>3. Owners' /\ Rows' BY <1>0, <1>3 DEF Owners, Rows, Book, HopDies, HopGoes, tickVars, sends, Busy
 <2>4. Confirmers'
  <3>1. /\ hop \in [Hops -> {"new", "confirm", "flow", "over"}]
        /\ created' = created /\ tried' = tried
    BY <1>0, <1>3 DEF TypeOK, Book, HopDies, sends
  <3>2. \A g \in Hops : hop'[g] = "confirm" => hop[g] = "confirm" BY <1>3, <3>1 DEF Book, HopDies, HopGoes
  <3> QED BY <1>0, <3>1, <3>2 DEF Confirmers
 <2> QED BY <2>1, <2>2, <2>3, <2>4 DEF IInv
<1> QED BY <1>1, <1>2, <1>3 DEF HopStep

\* The owner's settings and the clock.
LEMMA OutsideInv ==
  ASSUME IInv, UpdateReminderOffsets \/ Advance \/ UNCHANGED vars
  PROVE  IInv'
<1>0. TypeOK /\ Ages /\ Lists /\ Owners /\ Copies /\ Rows /\ Confirmers BY DEF IInv
<1>1. TypeOK' BY <1>0 DEF TypeOK, UpdateReminderOffsets, Advance, vars, tickVars, sends, StillSteady, Busy
<1>2. Ages'
  BY <1>0, TimeAssumption
  DEF Ages, TypeOK, UpdateReminderOffsets, Advance, vars, tickVars
<1>3. Lists' /\ Copies' BY <1>0 DEF Lists, Copies, UpdateReminderOffsets, Advance, vars, tickVars, Running
<1>4. Owners' /\ Rows' /\ Confirmers'
  BY <1>0 DEF Owners, Rows, Confirmers, UpdateReminderOffsets, Advance, vars, tickVars, sends, Busy
<1> QED BY <1>1, <1>2, <1>3, <1>4 DEF IInv

\* A tick takes the time, reads the rows, and ends or dies.
LEMMA TickFrameInv ==
  ASSUME IInv, NEW i \in Ticks, TickStarts(i) \/ TickScans(i) \/ TickEnds(i) \/ TickDies(i)
  PROVE  IInv'
<1>0. TypeOK /\ Ages /\ Lists /\ Owners /\ Copies /\ Rows /\ Confirmers BY DEF IInv
<1>1. CASE TickStarts(i)
 <2>1. TypeOK' BY <1>0, <1>1 DEF TypeOK, TickStarts, Goes, sends, Busy
 <2>2. Ages' BY <1>0, <1>1, TimeAssumption DEF Ages, TypeOK, TickStarts, Goes
 <2>3. Lists' /\ Copies' BY <1>0, <1>1 DEF Lists, Copies, TypeOK, TickStarts, Goes, Running
 <2>4. Owners' BY <1>0, <1>1 DEF Owners, TypeOK, TickStarts, Goes, sends, Busy
 <2>5. Rows' /\ Confirmers' BY <1>0, <1>1 DEF Rows, Confirmers, TickStarts, sends
 <2> QED BY <2>1, <2>2, <2>3, <2>4, <2>5 DEF IInv
<1>2. CASE TickScans(i)
 <2>1. Due(at[i]) \subseteq Reminders BY <1>0 DEF Due, TypeOK
 <2>2. \A a \in Appts, k \in Keys : <<a, k>> \in Due(at[i]) => InDueWindow(a, k, at[i]) BY DEF Due
 <2>3. TypeOK' BY <1>0, <1>2, <2>1 DEF TypeOK, TickScans, Goes, sends, Busy
 <2>4. Ages' BY <1>0, <1>2 DEF Ages, TypeOK, TickScans, Goes
 <2>5. Lists' BY <1>0, <1>2, <2>2 DEF Lists, TypeOK, TickScans, Goes, Running
 <2>6. Copies' BY <1>0, <1>2 DEF Copies, TypeOK, TickScans, Goes, Running
 <2>7. Owners' BY <1>0, <1>2 DEF Owners, TypeOK, TickScans, Goes, sends, Busy
 <2>8. Rows' /\ Confirmers' BY <1>0, <1>2 DEF Rows, Confirmers, TickScans, sends
 <2> QED BY <2>3, <2>4, <2>5, <2>6, <2>7, <2>8 DEF IInv
<1>3. CASE TickEnds(i) \/ TickDies(i)
 <2>0. Forget(i) BY <1>3 DEF TickEnds, TickDies
 <2>1. Blank \in [Appts -> [Keys -> States]] /\ "none" \in States BY DEF Blank, States
 <2>2. TypeOK' BY <1>0, <2>0, <2>1 DEF TypeOK, Forget, sends, Busy
 <2>3. Ages' /\ Lists' /\ Copies' BY <1>0, <2>0 DEF Ages, Lists, Copies, TypeOK, Forget, Running
 <2>4. Owners'
  <3>1. ASSUME NEW j \in Ticks, Busy(j)'
        PROVE  Busy(j) /\ pc'[j] = pc[j] /\ cur'[j] = cur[j] /\ at'[j] = at[j]
               /\ outcome'[j] = outcome[j]
    BY <1>0, <2>0, <3>1 DEF Forget, TypeOK, Busy
  <3>2. states' = states /\ tried' = tried /\ delivered' = delivered BY <2>0 DEF Forget, sends
  <3> QED BY <1>0, <3>1, <3>2 DEF Owners, InDueWindow
 <2>5. Rows' /\ Confirmers' BY <1>0, <2>0 DEF Rows, Confirmers, Forget, sends
 <2> QED BY <2>2, <2>3, <2>4, <2>5 DEF IInv
<1> QED BY <1>1, <1>2, <1>3

\* The effect of a claim on the row, shared by the claims that are won and
\* those whose answer is lost.
LEMMA ClaimEffect ==
  ASSUME IInv, NEW i \in Ticks, pc[i] = "loop",
         NEW a \in Appts, NEW k \in Keys, <<a, k>> \in todo[i],
         Claimable(a, k), states' = Mark(a, k, "pending"),
         UNCHANGED <<now, at, seen, created, hop, sends>>,
         \A j \in Ticks : Running(j)' => Running(j)
  PROVE  /\ states' \in [Appts -> [Keys -> States]]
         /\ states'[a][k] = "pending"
         /\ \A b \in Appts, l \in Keys : <<b, l>> # <<a, k>> => states'[b][l] = states[b][l]
         /\ InDueWindow(a, k, at[i])
         /\ tried[<<a, k>>] = 0
         /\ \A j \in Ticks : Busy(j) => cur[j] # <<a, k>>
         /\ Copies' /\ Rows' /\ Confirmers'
<1>0. TypeOK /\ Ages /\ Lists /\ Owners /\ Copies /\ Rows /\ Confirmers BY DEF IInv
<1>1. /\ states' \in [Appts -> [Keys -> States]]
      /\ states'[a][k] = "pending"
      /\ \A b \in Appts, l \in Keys : <<b, l>> # <<a, k>> => states'[b][l] = states[b][l]
 <2>1. "pending" \in States BY DEF States
 <2> QED BY <1>0, <2>1, MarkEffect
<1>2. InDueWindow(a, k, at[i]) BY <1>0 DEF Lists
<1>3. states[a][k] = "none" BY DEF Claimable
<1>4. tried[<<a, k>>] = 0 BY <1>0, <1>3 DEF Rows
<1>5. \A j \in Ticks : Busy(j) => cur[j] # <<a, k>> BY <1>0, <1>3 DEF Owners
<1>6. Copies'
 <2> SUFFICES ASSUME NEW j \in Ticks, Running(j)', NEW b \in Appts, NEW l \in Keys,
                     seen'[j][b][l] # states'[b][l]
              PROVE  Near(Target(b, l), at'[j], Window + MaxTick)
   BY DEF Copies, Near, Target
 <2>1. Running(j) /\ seen' = seen /\ at' = at OBVIOUS
 <2>2. CASE <<b, l>> = <<a, k>>
  <3>1. pc[i] # "idle" /\ pc[j] # "idle" BY <2>1 DEF Running
  <3>2. Near(Target(a, k), at[j], Window + MaxTick) BY <1>0, <1>2, <3>1, NearbyTicks
  <3> QED BY <2>1, <2>2, <3>2
 <2>3. CASE <<b, l>> # <<a, k>> BY <1>0, <1>1, <2>1, <2>3 DEF Copies
 <2> QED BY <2>2, <2>3
<1>7. Rows'
 <2> SUFFICES ASSUME NEW b \in Appts, NEW l \in Keys
              PROVE  /\ states'[b][l] = "none" => tried[<<b, l>>] = 0
                     /\ states'[b][l] = "sent" =>
                          tried[<<b, l>>] = 1 /\ <<b, l>> \in delivered
                     /\ states'[b][l] = "failed" => tried[<<b, l>>] = 1
   BY DEF Rows, sends
 <2>1. CASE <<b, l>> = <<a, k>> BY <1>1, <2>1
 <2>2. CASE <<b, l>> # <<a, k>> BY <1>0, <1>1, <2>2 DEF Rows
 <2> QED BY <2>1, <2>2
<1>8. Confirmers' BY <1>0 DEF Confirmers, sends
<1> QED BY <1>1, <1>2, <1>4, <1>5, <1>6, <1>7, <1>8

\* A claim, won or not, keeps the inductive invariant.
LEMMA ClaimInv ==
  ASSUME IInv, NEW i \in Ticks, NEW a \in Appts, NEW k \in Keys,
         ClaimWon(i, a, k) \/ ClaimNotWon(i, a, k)
  PROVE  IInv'
<1>0. TypeOK /\ Ages /\ Lists /\ Owners /\ Copies /\ Rows /\ Confirmers BY DEF IInv
<1>1. pc[i] = "loop" /\ <<a, k>> \in todo[i] BY DEF ClaimWon, ClaimNotWon, Goes
<1>2. todo' = [todo EXCEPT ![i] = @ \ {<<a, k>>}]
      /\ UNCHANGED <<now, lastStart, enabled, at, seen, created, booked, hop, outcome,
                     sends, steady>>
  BY DEF ClaimWon, ClaimNotWon
<1>3. \A j \in Ticks : Running(j)' <=> Running(j) BY <1>0 DEF ClaimWon, ClaimNotWon, Goes, Running, TypeOK
<1>4. \A j \in Ticks : pc'[j] = "idle" <=> pc[j] = "idle" BY <1>0 DEF ClaimWon, ClaimNotWon, Goes, TypeOK
<1>5. Ages' BY <1>0, <1>2, <1>4 DEF Ages
<1>6. Lists' BY <1>0, <1>2, <1>3 DEF Lists, TypeOK
<1>7. CASE ClaimWon(i, a, k)
 <2>1. states' = Mark(a, k, "pending") /\ Claimable(a, k)
       /\ pc' = [pc EXCEPT ![i] = "send"] /\ cur' = [cur EXCEPT ![i] = <<a, k>>]
   BY <1>7 DEF ClaimWon, Goes
 <2>2. /\ states' \in [Appts -> [Keys -> States]]
       /\ states'[a][k] = "pending"
       /\ \A b \in Appts, l \in Keys : <<b, l>> # <<a, k>> => states'[b][l] = states[b][l]
       /\ InDueWindow(a, k, at[i])
       /\ tried[<<a, k>>] = 0
       /\ \A j \in Ticks : Busy(j) => cur[j] # <<a, k>>
       /\ Copies' /\ Rows' /\ Confirmers'
   BY <1>1, <1>2, <1>3, <2>1, ClaimEffect
 <2>3. TypeOK' BY <1>0, <1>2, <2>1, <2>2 DEF TypeOK, sends, Busy
 <2>4. Owners'
  <3>1. \A j \in Ticks : j # i => pc'[j] = pc[j] /\ cur'[j] = cur[j] BY <1>0, <2>1 DEF TypeOK
  <3>2. pc'[i] = "send" /\ cur'[i] = <<a, k>> BY <1>0, <2>1 DEF TypeOK
  <3>3. \A j \in Ticks : Busy(j)' => cur'[j] \in Reminders BY <1>0, <3>1, <3>2 DEF Owners, Busy
  <3>4. ASSUME NEW j \in Ticks, NEW b \in Appts, NEW l \in Keys,
               Busy(j)', cur'[j] = <<b, l>>
        PROVE  /\ InDueWindow(b, l, at[j])
               /\ states'[b][l] = "pending"
               /\ pc'[j] = "send" => tried[<<b, l>>] = 0
               /\ pc'[j] = "record" => /\ tried[<<b, l>>] = 1
                                       /\ Recorded(outcome[j])
                                       /\ outcome[j] = "sent" => <<b, l>> \in delivered
   <4>1. CASE j = i BY <2>2, <3>2, <3>4, <4>1
   <4>2. CASE j # i
    <5>1. Busy(j) /\ cur[j] = <<b, l>> /\ pc'[j] = pc[j] BY <3>1, <3>4, <4>2 DEF Busy
    <5>2. <<b, l>> # <<a, k>> BY <2>2, <5>1
    <5> QED BY <1>0, <2>2, <5>1, <5>2 DEF Owners
   <4> QED BY <4>1, <4>2
  <3>5. \A j, g \in Ticks : Busy(j)' /\ Busy(g)' /\ cur'[j] = cur'[g] => j = g
    BY <1>0, <2>2, <3>1, <3>2 DEF Owners, Busy
  <3>6. \A j \in Ticks : Recorded(outcome[j])' <=> Recorded(outcome[j]) BY <1>2 DEF Recorded
  <3> QED BY <1>2, <3>3, <3>4, <3>5, <3>6 DEF Owners, InDueWindow, Near, Target, sends
 <2> QED BY <1>5, <1>6, <2>2, <2>3, <2>4 DEF IInv
<1>8. CASE ClaimNotWon(i, a, k)
 <2>0. UNCHANGED <<pc, cur>> BY <1>8 DEF ClaimNotWon
 <2>1. CASE UNCHANGED states
  <3>1. TypeOK' BY <1>0, <1>2, <2>0, <2>1 DEF TypeOK, sends, Busy
  <3>2. Owners' /\ Copies' /\ Rows' /\ Confirmers'
    BY <1>0, <1>2, <2>0, <2>1 DEF Owners, Copies, Rows, Confirmers, sends, Busy, Running
  <3> QED BY <1>5, <1>6, <3>1, <3>2 DEF IInv
 <2>2. CASE Claimable(a, k) /\ states' = Mark(a, k, "pending")
  <3>1. /\ states' \in [Appts -> [Keys -> States]]
        /\ \A b \in Appts, l \in Keys : <<b, l>> # <<a, k>> => states'[b][l] = states[b][l]
        /\ \A j \in Ticks : Busy(j) => cur[j] # <<a, k>>
        /\ Copies' /\ Rows' /\ Confirmers'
    BY <1>1, <1>2, <1>3, <2>2, ClaimEffect
  <3>2. TypeOK' BY <1>0, <1>2, <2>0, <3>1 DEF TypeOK, sends, Busy
  <3>3. Owners'
   <4>1. ASSUME NEW j \in Ticks, NEW b \in Appts, NEW l \in Keys,
                Busy(j), cur[j] = <<b, l>>
         PROVE  states'[b][l] = states[b][l]
     BY <3>1, <4>1
   <4> QED BY <1>0, <1>2, <2>0, <4>1 DEF Owners, sends, Busy
  <3> QED BY <1>5, <1>6, <3>1, <3>2, <3>3 DEF IInv
 <2> QED BY <1>8, <2>1, <2>2 DEF ClaimNotWon
<1> QED BY <1>7, <1>8

\* Sending keeps the inductive invariant.
LEMMA SendInv ==
  ASSUME IInv, NEW i \in Ticks, Send(i)
  PROVE  IInv'
<1>0. TypeOK /\ Ages /\ Lists /\ Owners /\ Copies /\ Rows /\ Confirmers BY DEF IInv
<1>1. pc[i] = "send" /\ pc' = [pc EXCEPT ![i] = "record"]
      /\ UNCHANGED <<now, lastStart, enabled, created, states, booked, hop, at, seen, todo,
                     cur, steady>>
  BY DEF Send, Goes
<1>2. PICK ok \in BOOLEAN : Hand(cur[i], ok) /\ outcome' = [outcome EXCEPT ![i] = Fate(ok)] BY DEF Send
<1>3. PICK a \in Appts, k \in Keys : cur[i] = <<a, k>> BY <1>0, <1>1 DEF Owners, Busy
<1>4. /\ InDueWindow(a, k, at[i])
      /\ states[a][k] = "pending"
      /\ tried[<<a, k>>] = 0
  BY <1>0, <1>1, <1>3 DEF Owners, Busy
<1>5. /\ tried' \in [Messages -> Nat] /\ delivered' \in SUBSET Messages
      /\ tried'[<<a, k>>] = 1
      /\ \A n \in Messages : n # <<a, k>> => tried'[n] = tried[n]
      /\ ok => <<a, k>> \in delivered'
      /\ delivered \subseteq delivered'
 <2>1. <<a, k>> \in Messages OBVIOUS
 <2>2. Hand(<<a, k>>, ok) BY <1>2, <1>3
 <2>3. /\ tried' \in [Messages -> Nat] /\ delivered' \in SUBSET Messages
       /\ tried'[<<a, k>>] = tried[<<a, k>>] + 1
       /\ \A n \in Messages : n # <<a, k>> => tried'[n] = tried[n]
       /\ ok => <<a, k>> \in delivered'
       /\ delivered \subseteq delivered'
   BY <1>0, <2>1, <2>2, HandEffect
 <2> QED BY <1>4, <2>3
<1>6. Fate(ok) \in States /\ Recorded(Fate(ok)) /\ (Fate(ok) = "sent" => ok) BY DEF Fate, States, Recorded
<1>7. /\ \A j \in Ticks : j # i => pc'[j] = pc[j] /\ outcome'[j] = outcome[j]
      /\ pc'[i] = "record" /\ outcome'[i] = Fate(ok)
  BY <1>0, <1>1, <1>2 DEF TypeOK
<1>8. TypeOK' BY <1>0, <1>1, <1>2, <1>5, <1>6 DEF TypeOK, Busy
<1>9. Ages' /\ Lists' /\ Copies' BY <1>0, <1>1, <1>7 DEF Ages, Lists, Copies, Running
<1>10. Owners'
 <2>1. \A j \in Ticks : Busy(j)' <=> Busy(j) BY <1>1, <1>7 DEF Busy
 <2>2. ASSUME NEW j \in Ticks, NEW b \in Appts, NEW l \in Keys, Busy(j), cur[j] = <<b, l>>
       PROVE  /\ InDueWindow(b, l, at[j])
              /\ states[b][l] = "pending"
              /\ pc'[j] = "send" => tried'[<<b, l>>] = 0
              /\ pc'[j] = "record" => /\ tried'[<<b, l>>] = 1
                                      /\ Recorded(outcome'[j])
                                      /\ outcome'[j] = "sent" => <<b, l>> \in delivered'
  <3>1. CASE j = i BY <1>3, <1>4, <1>5, <1>6, <1>7, <2>2, <3>1
  <3>2. CASE j # i
   <4>1. Busy(i) BY <1>1 DEF Busy
   <4>2. <<b, l>> # <<a, k>> BY <1>0, <1>3, <2>2, <3>2, <4>1 DEF Owners
   <4>3. tried'[<<b, l>>] = tried[<<b, l>>] BY <1>5, <4>2
   <4> QED BY <1>0, <1>5, <1>7, <2>2, <3>2, <4>3 DEF Owners
  <3> QED BY <3>1, <3>2
 <2> QED BY <1>0, <1>1, <2>1, <2>2 DEF Owners, InDueWindow, Near, Target, Recorded
<1>11. Rows'
 <2> SUFFICES ASSUME NEW b \in Appts, NEW l \in Keys
              PROVE  /\ states[b][l] = "none" => tried'[<<b, l>>] = 0
                     /\ states[b][l] = "sent" =>
                          tried'[<<b, l>>] = 1 /\ <<b, l>> \in delivered'
                     /\ states[b][l] = "failed" => tried'[<<b, l>>] = 1
   BY <1>1 DEF Rows
 <2>1. CASE <<b, l>> = <<a, k>> BY <1>4, <2>1
 <2>2. CASE <<b, l>> # <<a, k>>
  <3>1. tried'[<<b, l>>] = tried[<<b, l>>] BY <1>5, <2>2
  <3> QED BY <1>0, <1>5, <3>1 DEF Rows
 <2> QED BY <2>1, <2>2
<1>12. Confirmers'
 <2>1. \A b \in Appts : tried'[<<b, "confirm">>] = tried[<<b, "confirm">>] BY <1>5, NamesAssumption
 <2> QED BY <1>0, <1>1, <2>1, NamesAssumption DEF Confirmers
<1> QED BY <1>8, <1>9, <1>10, <1>11, <1>12 DEF IInv

\* Recording what a send came to keeps the inductive invariant.
LEMMA RecordInv ==
  ASSUME IInv, NEW i \in Ticks, Record(i)
  PROVE  IInv'
<1>0. TypeOK /\ Ages /\ Lists /\ Owners /\ Copies /\ Rows /\ Confirmers BY DEF IInv
<1>1. pc[i] = "record" /\ pc' = [pc EXCEPT ![i] = "loop"]
      /\ cur' = [cur EXCEPT ![i] = NoJob] /\ outcome' = [outcome EXCEPT ![i] = "none"]
      /\ UNCHANGED <<now, lastStart, enabled, created, booked, hop, at, seen, todo, sends,
                     steady>>
      /\ (states' = Merged(i) \/ states' = states)
  BY DEF Record, Goes
<1>2. PICK a \in Appts, k \in Keys : cur[i] = <<a, k>> BY <1>0, <1>1 DEF Owners, Busy
<1>3. /\ InDueWindow(a, k, at[i])
      /\ states[a][k] = "pending"
      /\ tried[<<a, k>>] = 1
      /\ Recorded(outcome[i])
      /\ outcome[i] = "sent" => <<a, k>> \in delivered
  BY <1>0, <1>1, <1>2 DEF Owners, Busy
<1>4. /\ states' \in [Appts -> [Keys -> States]]
      /\ states'[a][k] \in {outcome[i], "pending"}
      /\ \A b \in Appts, l \in Keys : <<b, l>> # <<a, k>> => states'[b][l] = states[b][l]
 <2>1. CASE states' = Merged(i) BY <1>1, <1>2, <2>1, RecordEffect
 <2>2. CASE states' = states BY <1>0, <1>3, <2>2 DEF TypeOK
 <2> QED BY <1>1, <2>1, <2>2
<1>5. /\ \A j \in Ticks : j # i => pc'[j] = pc[j] /\ cur'[j] = cur[j]
                                   /\ outcome'[j] = outcome[j]
      /\ pc'[i] = "loop" /\ cur'[i] = NoJob
  BY <1>0, <1>1 DEF TypeOK
<1>6. \A j \in Ticks : Running(j)' <=> Running(j) BY <1>1, <1>5 DEF Running
<1>7. TypeOK'
 <2>1. "none" \in States BY DEF States
 <2>2. \A j \in Ticks : cur'[j] # NoJob => Busy(j)' BY <1>0, <1>5 DEF TypeOK, Busy
 <2> QED BY <1>0, <1>1, <1>4, <2>1, <2>2 DEF TypeOK, sends
<1>8. Ages' /\ Lists' BY <1>0, <1>1, <1>5, <1>6 DEF Ages, Lists
<1>9. Owners'
 <2>1. ASSUME NEW j \in Ticks, Busy(j)'
       PROVE  j # i /\ Busy(j) /\ pc'[j] = pc[j] /\ cur'[j] = cur[j]
              /\ outcome'[j] = outcome[j] /\ at'[j] = at[j] /\ cur[j] # <<a, k>>
  <3>1. j # i BY <1>5, <2>1 DEF Busy
  <3>2. Busy(i) /\ Busy(j) BY <1>1, <1>5, <2>1, <3>1 DEF Busy
  <3> QED BY <1>0, <1>1, <1>2, <1>5, <3>1, <3>2 DEF Owners
 <2>2. ASSUME NEW j \in Ticks, NEW b \in Appts, NEW l \in Keys, Busy(j)', cur[j] = <<b, l>>
       PROVE  states'[b][l] = states[b][l]
   BY <1>4, <2>1, <2>2
 <2>3. tried' = tried /\ delivered' = delivered BY <1>1 DEF sends
 <2> QED BY <1>0, <2>1, <2>2, <2>3 DEF Owners, InDueWindow, Near, Target, Recorded
<1>10. Copies'
 <2> SUFFICES ASSUME NEW j \in Ticks, Running(j), NEW b \in Appts, NEW l \in Keys,
                     seen[j][b][l] # states'[b][l]
              PROVE  Near(Target(b, l), at[j], Window + MaxTick)
   BY <1>1, <1>6 DEF Copies, Near, Target
 <2>1. CASE <<b, l>> = <<a, k>>
  <3>1. pc[i] # "idle" /\ pc[j] # "idle" BY <1>1 DEF Running
  <3>2. Near(Target(a, k), at[j], Window + MaxTick) BY <1>0, <1>3, <3>1, NearbyTicks
  <3> QED BY <2>1, <3>2
 <2>2. CASE <<b, l>> # <<a, k>> BY <1>0, <1>4, <2>2 DEF Copies
 <2> QED BY <2>1, <2>2
<1>11. Rows'
 <2> SUFFICES ASSUME NEW b \in Appts, NEW l \in Keys
              PROVE  /\ states'[b][l] = "none" => tried[<<b, l>>] = 0
                     /\ states'[b][l] = "sent" =>
                          tried[<<b, l>>] = 1 /\ <<b, l>> \in delivered
                     /\ states'[b][l] = "failed" => tried[<<b, l>>] = 1
   BY <1>1 DEF Rows, sends
 <2>1. CASE <<b, l>> = <<a, k>> BY <1>3, <1>4, <2>1 DEF Recorded
 <2>2. CASE <<b, l>> # <<a, k>> BY <1>0, <1>4, <2>2 DEF Rows
 <2> QED BY <2>1, <2>2
<1>12. Confirmers' BY <1>0, <1>1 DEF Confirmers, sends
<1> QED BY <1>7, <1>8, <1>9, <1>10, <1>11, <1>12 DEF IInv

\* Every step keeps the inductive invariant.
LEMMA StepInv == IInv /\ [Next]_vars => IInv'
<1> SUFFICES ASSUME IInv, [Next]_vars PROVE IInv' OBVIOUS
<1>1. ASSUME NEW h \in Hops, HopStep(h) PROVE IInv' BY <1>1, HopInv
<1>2. ASSUME NEW i \in Ticks, TickStarts(i) \/ TickGoesOn(i) \/ TickDies(i) PROVE IInv'
 <2>1. CASE TickStarts(i) \/ TickScans(i) \/ TickEnds(i) \/ TickDies(i) BY <2>1, TickFrameInv
 <2>2. CASE \E a \in Appts, k \in Keys : ClaimWon(i, a, k) \/ ClaimNotWon(i, a, k) BY <2>2, ClaimInv
 <2>3. CASE Send(i) BY <2>3, SendInv
 <2>4. CASE Record(i) BY <2>4, RecordInv
 <2> QED BY <1>2, <2>1, <2>2, <2>3, <2>4 DEF TickGoesOn
<1>3. CASE UpdateReminderOffsets \/ Advance \/ UNCHANGED vars BY <1>3, OutsideInv
<1> QED BY <1>1, <1>2, <1>3 DEF Next

\* The inductive invariant holds in every reachable state, for any appointments,
\* offsets and pods (dispatchDueReminders, scheduleReminders).
THEOREM Invariance == Spec => []IInv
BY InitInv, StepInv, PTL DEF Spec

\* Every variable keeps its type, and a tick works on a job exactly while it
\* sends or records (appointment-reminder.service.ts:53-118).
THEOREM TypeCorrect == Spec => []TypeOK
<1>1. IInv => TypeOK BY DEF IInv
<1> QED BY <1>1, Invariance, PTL

\* What a row says of a reminder is true (appointment-reminder.service.ts:155-177).
THEOREM OutcomesTrue == Spec => []OutcomesAreTrue
<1>1. IInv => OutcomesAreTrue BY DEF IInv, Rows, OutcomesAreTrue
<1> QED BY <1>1, Invariance, PTL

--------------------
(* What a step may do to the row *)

\* A step changes at most one reminder of the rows: it claims an absent one or
\* replaces `pending` by an outcome.
ChangesNoRow == UNCHANGED states
ClaimsOne == \E a \in Appts, k \in Keys :
  /\ states[a][k] = "none" /\ states'[a][k] = "pending"
  /\ \A b \in Appts, l \in Keys : <<b, l>> # <<a, k>> => states'[b][l] = states[b][l]
ResolvesOne == \E a \in Appts, k \in Keys :
  /\ states[a][k] = "pending" /\ Recorded(states'[a][k])
  /\ \A b \in Appts, l \in Keys : <<b, l>> # <<a, k>> => states'[b][l] = states[b][l]

\* A claim turns one unclaimed offset to pending.
LEMMA ClaimStep ==
  ASSUME IInv, NEW a \in Appts, NEW k \in Keys, Claimable(a, k),
         states' = Mark(a, k, "pending")
  PROVE  /\ states[a][k] = "none" /\ states'[a][k] = "pending"
         /\ \A b \in Appts, l \in Keys : <<b, l>> # <<a, k>> => states'[b][l] = states[b][l]
<1>1. TypeOK /\ "pending" \in States BY DEF IInv, States
<1> QED BY <1>1, MarkEffect DEF Claimable

\* A recorded outcome resolves one claim.
LEMMA RecordStep ==
  ASSUME IInv, NEW i \in Ticks, Record(i), states' # states
  PROVE  ResolvesOne
<1>1. pc[i] = "record" /\ states' = Merged(i) BY DEF Record, Goes
<1>2. PICK a \in Appts, k \in Keys : cur[i] = <<a, k>> BY <1>1 DEF IInv, Owners, Busy
<1>3. states[a][k] = "pending" /\ Recorded(outcome[i]) BY <1>1, <1>2 DEF IInv, Owners, Busy
<1>4. /\ states'[a][k] = outcome[i]
      /\ \A b \in Appts, l \in Keys : <<b, l>> # <<a, k>> => states'[b][l] = states[b][l]
  BY <1>1, <1>2, RecordEffect
<1> QED BY <1>3, <1>4 DEF ResolvesOne

\* The steps by what they do to the rows: nothing, one claim, one result.
LEMMA RowSteps == IInv /\ [Next]_vars => ChangesNoRow \/ ClaimsOne \/ ResolvesOne
<1> SUFFICES ASSUME IInv, [Next]_vars, states' # states PROVE ClaimsOne \/ ResolvesOne BY DEF ChangesNoRow
<1>1. ASSUME NEW h \in Hops, HopStep(h) PROVE FALSE
  BY <1>1 DEF HopStep, Insert, InsertRefused, InsertFails, Confirm, Book, HopDies
<1>2. ASSUME NEW i \in Ticks, TickStarts(i) \/ TickGoesOn(i) \/ TickDies(i)
      PROVE  ClaimsOne \/ ResolvesOne
 <2>1. CASE \E a \in Appts, k \in Keys : ClaimWon(i, a, k) \/ ClaimNotWon(i, a, k)
  <3>1. PICK a \in Appts, k \in Keys : ClaimWon(i, a, k) \/ ClaimNotWon(i, a, k) BY <2>1
  <3>2. Claimable(a, k) /\ states' = Mark(a, k, "pending") BY <3>1 DEF ClaimWon, ClaimNotWon
  <3> QED BY <3>2, ClaimStep DEF ClaimsOne
 <2>2. CASE Record(i) BY <2>2, RecordStep
 <2>3. CASE TickStarts(i) \/ TickScans(i) \/ Send(i) \/ TickEnds(i) \/ TickDies(i)
   BY <2>3 DEF TickStarts, TickScans, Send, TickEnds, TickDies, Forget
 <2> QED BY <1>2, <2>1, <2>2, <2>3 DEF TickGoesOn
<1>3. CASE UpdateReminderOffsets \/ Advance \/ UNCHANGED vars BY <1>3 DEF UpdateReminderOffsets, Advance, vars
<1> QED BY <1>1, <1>2, <1>3 DEF Next

\* No tick writes an older copy of the map over a recorded outcome
\* (appointment-reminder.service.ts:215-226).
THEOREM OutcomesFinal == Spec => OutcomesAreFinal
<1>1. IInv /\ [Next]_vars =>
        [\A a \in Appts, k \in Keys :
           Recorded(states[a][k]) => states'[a][k] = states[a][k]]_vars
  BY RowSteps DEF ChangesNoRow, ClaimsOne, ResolvesOne, Recorded
<1> QED BY <1>1, Invariance, PTL DEF Spec, OutcomesAreFinal

--------------------
(* Refinement of AtMostOnce *)

\* The initial states are initial states of AtMostOnce.
LEMMA InitRefines == Init => Contract!Init
<1> SUFFICES ASSUME Init PROVE Contract!Init OBVIOUS
<1>1. \A j \in Reminders : states[j[1]][j[2]] = "none" BY DEF Init, Blank
<1>2. Claimed = {} BY <1>1 DEF Init, Claimed
<1> QED BY <1>2 DEF Init, Contract!Init

\* Inserting a row or claiming an offset claims one message.
LEMMA InsertClaims ==
  ASSUME NEW a \in Appts, a \notin created, created' = created \cup {a},
         UNCHANGED <<states, tried>>
  PROVE  Contract!Claim(<<a, "confirm">>)
<1>1. <<a, "confirm">> \notin Claimed BY NamesAssumption DEF Claimed
<1>2. Claimed' = Claimed \cup {<<a, "confirm">>} BY DEF Claimed
<1> QED BY <1>1, <1>2 DEF Contract!Claim

\* A step that claims one offset of a row claims one message.
LEMMA OffsetClaims ==
  ASSUME IInv, ClaimsOne, UNCHANGED <<created, tried>>
  PROVE  \E m \in Messages : Contract!Claim(m)
<1>1. PICK a \in Appts, k \in Keys :
        /\ states[a][k] = "none" /\ states'[a][k] = "pending"
        /\ \A b \in Appts, l \in Keys : <<b, l>> # <<a, k>> => states'[b][l] = states[b][l]
  BY DEF ClaimsOne
<1>2. <<a, k>> \notin Claimed BY <1>1, NamesAssumption DEF Claimed
<1>3. \A j \in Reminders :
        states'[j[1]][j[2]] # "none" <=> states[j[1]][j[2]] # "none" \/ j = <<a, k>>
  BY <1>1
<1>4. Claimed' = Claimed \cup {<<a, k>>} BY <1>3 DEF Claimed
<1> QED BY <1>2, <1>4 DEF Contract!Claim

\* An outcome leaves the claim as it is.
LEMMA OutcomeKeepsClaims ==
  ASSUME ResolvesOne, UNCHANGED created
  PROVE  UNCHANGED Claimed
<1>1. \A j \in Reminders : states'[j[1]][j[2]] # "none" <=> states[j[1]][j[2]] # "none" BY DEF ResolvesOne, Recorded
<1> QED BY <1>1 DEF Claimed

\* Handing over a claimed message that was never handed over is a Try.
LEMMA HandTries ==
  ASSUME TypeOK, NEW m \in Messages, NEW ok \in BOOLEAN, Hand(m, ok),
         m \in Claimed, tried[m] = 0, UNCHANGED <<created, states>>
  PROVE  Contract!Try(m)
<1>1. tried' = [tried EXCEPT ![m] = 1] BY DEF Hand, TypeOK
<1>2. UNCHANGED Claimed BY DEF Claimed
<1> QED BY <1>1, <1>2 DEF Contract!Try

\* Every step is a step of AtMostOnce or leaves its state alone.
LEMMA StepRefines == IInv /\ [Next]_vars => [Contract!Next]_<<Claimed, tried>>
<1> SUFFICES ASSUME IInv, [Next]_vars
             PROVE  Contract!Next \/ UNCHANGED <<Claimed, tried>>
  OBVIOUS
<1>0. ASSUME UNCHANGED <<created, states, tried>>
      PROVE  UNCHANGED <<Claimed, tried>>
  BY <1>0 DEF Claimed
<1>1. ASSUME NEW h \in Hops, HopStep(h)
      PROVE  Contract!Next \/ UNCHANGED <<Claimed, tried>>
 <2>0. For[h] \in Appts /\ <<For[h], "confirm">> \in Messages BY NamesAssumption
 <2>1. CASE Insert(h) \/ InsertRefused(h) \/ InsertFails(h)
  <3>1. UNCHANGED <<states, tried>> BY <2>1 DEF Insert, InsertRefused, InsertFails, sends
  <3>2. created' = created \/ (For[h] \notin created /\ created' = created \cup {For[h]})
    BY <2>1 DEF Insert, InsertRefused, InsertFails
  <3> QED BY <1>0, <2>0, <3>1, <3>2, InsertClaims DEF Contract!Next
 <2>2. CASE Confirm(h)
  <3>1. PICK ok \in BOOLEAN : Hand(<<For[h], "confirm">>, ok) BY <2>2 DEF Confirm
  <3>2. TypeOK /\ For[h] \in created /\ tried[<<For[h], "confirm">>] = 0
    BY <2>2 DEF IInv, Confirmers, Confirm, HopGoes
  <3>3. <<For[h], "confirm">> \in Claimed BY <3>2 DEF Claimed
  <3>4. UNCHANGED <<created, states>> BY <2>2 DEF Confirm
  <3> QED BY <2>0, <3>1, <3>2, <3>3, <3>4, HandTries DEF Contract!Next
 <2>3. CASE Book(h) \/ HopDies(h) BY <1>0, <2>3 DEF Book, HopDies, sends
 <2> QED BY <1>1, <2>1, <2>2, <2>3 DEF HopStep
<1>2. ASSUME NEW i \in Ticks, Send(i)
      PROVE  Contract!Next
 <2>1. PICK a \in Appts, k \in Keys : cur[i] = <<a, k>> BY <1>2 DEF IInv, Owners, Busy, Send, Goes
 <2>2. states[a][k] = "pending" /\ tried[<<a, k>>] = 0 /\ TypeOK BY <1>2, <2>1 DEF IInv, Owners, Busy, Send, Goes
 <2>3. <<a, k>> \in Messages /\ <<a, k>> \in Claimed BY <2>2 DEF Claimed
 <2>4. PICK ok \in BOOLEAN : Hand(<<a, k>>, ok) BY <1>2, <2>1 DEF Send
 <2>5. UNCHANGED <<created, states>> BY <1>2 DEF Send
 <2> QED BY <2>2, <2>3, <2>4, <2>5, HandTries DEF Contract!Next
<1>3. ASSUME UNCHANGED <<created, tried>>
      PROVE  Contract!Next \/ UNCHANGED <<Claimed, tried>>
 <2>1. ChangesNoRow \/ ClaimsOne \/ ResolvesOne BY RowSteps
 <2> QED BY <1>0, <1>3, <2>1, OffsetClaims, OutcomeKeepsClaims DEF ChangesNoRow, Contract!Next
<1>4. ASSUME NEW i \in Ticks, TickStarts(i) \/ TickGoesOn(i) \/ TickDies(i), ~Send(i)
      PROVE  UNCHANGED <<created, tried>>
  BY <1>4 DEF TickStarts, TickGoesOn, TickScans, ClaimWon, ClaimNotWon, Record, TickEnds,
              TickDies, Forget, sends
<1>5. CASE UpdateReminderOffsets \/ Advance \/ UNCHANGED vars
  BY <1>3, <1>5 DEF UpdateReminderOffsets, Advance, vars, sends
<1> QED BY <1>1, <1>2, <1>3, <1>4, <1>5 DEF Next

\* The senders implement the contract: whatever the interleaving of pods, ticks,
\* requests and failures, no message is handed over twice or without a claim, and
\* no claim is lost (appointment-reminder.service.ts:188-226,
\* appointment.service.ts:155-209).
THEOREM Refinement == Spec => ImplementsAtMostOnce
<1>1. Init => Contract!Init BY InitRefines
<1>2. IInv /\ [Next]_vars => [Contract!Next]_<<Claimed, tried>> BY StepRefines
<1> QED BY <1>1, <1>2, Invariance, PTL DEF Spec, Contract!Spec, ImplementsAtMostOnce

--------------------
(* Every slot gets one attempt *)

Opens(a, k) == Target(a, k) - Window

\* Somebody has claimed the reminder, or a tick is on its way that will find it,
\* or has it on its list.
Served(a, k) ==
  \/ states[a][k] # "none"
  \/ \E i \in Ticks : \/ pc[i] = "scan" /\ InDueWindow(a, k, at[i])
                      \/ Running(i) /\ <<a, k>> \in todo[i]

\* Who has claimed a reminder hands it over.
HandedOver(a, k) ==
  states[a][k] # "none" =>
    tried[<<a, k>>] = 1 \/ \E i \in Ticks : pc[i] = "send" /\ cur[i] = <<a, k>>

\* What is known of a slot that the code has every chance to serve.
Slot(a, k) ==
  /\ ~Failures /\ Opens(a, k) > 0
  /\ Watched(a, k, now) => a \in created /\ k \in enabled
  /\ lastStart >= Opens(a, k) => Served(a, k)
  /\ HandedOver(a, k)

Paced == lastStart <= now /\ now <= lastStart + Period
SlotInv == Paced /\ \A a \in Appts, k \in Keys : <<a, k>> \in steady => Slot(a, k)

\* Times are numbers.
LEMMA TimesAreNumbers ==
  ASSUME NEW a \in Appts, NEW k \in Keys
  PROVE  /\ Start[a] \in Nat /\ Minutes[k] \in Nat /\ Target(a, k) \in Int /\ Opens(a, k) \in Int
         /\ Window \in Nat /\ MaxTick \in Nat /\ Scan \in Nat /\ Period \in Nat
BY TimeAssumption DEF Target, Opens

\* A slot stays what it is where its reminder, the clock and the settings do.
LEMMA SlotStays ==
  ASSUME NEW a \in Appts, NEW k \in Keys, Slot(a, k),
         now' = now, a \in created => a \in created', k \in enabled => k \in enabled',
         lastStart' = lastStart \/ Served(a, k)', Served(a, k) => Served(a, k)', HandedOver(a, k)'
  PROVE  Slot(a, k)'
BY DEF Slot, Watched, Target, Opens

\* A request of the MCP server leaves the reminders alone.
LEMMA SlotHop ==
  ASSUME IInv, SlotInv, NEW h \in Hops, HopStep(h)
  PROVE  SlotInv'
<1>1. /\ UNCHANGED <<now, lastStart, enabled, states, tickVars, steady>>
      /\ created \subseteq created'
  BY DEF HopStep, Insert, InsertRefused, InsertFails, Confirm, Book, HopDies
<1>2. ASSUME NEW a \in Appts, NEW k \in Keys  PROVE tried'[<<a, k>>] = tried[<<a, k>>]
 <2>1. CASE Confirm(h)
  <3>1. PICK ok \in BOOLEAN : Hand(<<For[h], "confirm">>, ok) BY <2>1 DEF Confirm
  <3>2. <<For[h], "confirm">> \in Messages /\ <<a, k>> # <<For[h], "confirm">> BY NamesAssumption
  <3> QED BY <3>1, <3>2, HandEffect DEF IInv
 <2>2. CASE ~Confirm(h) BY <2>2 DEF HopStep, Insert, InsertRefused, InsertFails, Book, HopDies, sends
 <2> QED BY <2>1, <2>2
<1>3. ASSUME NEW a \in Appts, NEW k \in Keys, <<a, k>> \in steady'
      PROVE  Slot(a, k)'
 <2>1. Slot(a, k) BY <1>1, <1>3 DEF SlotInv
 <2>2. (Served(a, k) => Served(a, k)') /\ HandedOver(a, k)'
   BY <1>1, <1>2, <2>1 DEF Slot, Served, HandedOver, Running, tickVars
 <2> QED BY <1>1, <2>1, <2>2, SlotStays
<1> QED BY <1>1, <1>3 DEF SlotInv, Paced

\* The owner's settings, and the clock.
LEMMA SlotOutside ==
  ASSUME IInv, SlotInv, UpdateReminderOffsets \/ Advance \/ UNCHANGED vars
  PROVE  SlotInv'
<1>1. UNCHANGED <<lastStart, states, created, tickVars, sends>> BY DEF UpdateReminderOffsets, Advance, vars
<1>2. ASSUME NEW a \in Appts, NEW k \in Keys, <<a, k>> \in steady'
      PROVE  Slot(a, k)'
 <2>1. /\ <<a, k>> \in steady
       /\ Watched(a, k, now)' => a \in created' /\ k \in enabled'
  <3>1. CASE UpdateReminderOffsets BY <1>2, <3>1 DEF UpdateReminderOffsets, StillSteady, Watched, Target
  <3>2. CASE Advance BY <1>2, <3>2 DEF Advance, StillSteady, Watched, Target
  <3>3. CASE UNCHANGED vars BY <1>2, <3>3 DEF vars, SlotInv, Slot, Watched, Target
  <3> QED BY <3>1, <3>2, <3>3
 <2>2. Slot(a, k) BY <2>1 DEF SlotInv
 <2> QED BY <1>1, <2>1, <2>2 DEF Slot, Served, HandedOver, Running, tickVars, sends, Opens, Target, InDueWindow, Near
<1>3. Paced'
 <2>1. now \in Nat /\ lastStart \in Nat /\ Period \in Nat BY TimeAssumption DEF IInv, TypeOK
 <2> QED BY <2>1 DEF UpdateReminderOffsets, Advance, vars, SlotInv, Paced
<1> QED BY <1>2, <1>3 DEF SlotInv

\* A tick takes the time: the first one since a window opened falls in it.
LEMMA SlotStarts ==
  ASSUME OnTime, IInv, SlotInv, NEW i \in Ticks, TickStarts(i)
  PROVE  SlotInv'
<1>1. /\ pc[i] = "idle" /\ pc' = [pc EXCEPT ![i] = "scan"] /\ at' = [at EXCEPT ![i] = now] /\ lastStart' = now
      /\ UNCHANGED <<now, enabled, created, states, todo, cur, tried, steady>>
  BY DEF TickStarts, Goes, sends
<1>2. /\ pc \in [Ticks -> {"idle", "scan", "loop", "send", "record"}] /\ at \in [Ticks -> Nat]
      /\ now \in Nat /\ lastStart \in Nat
  BY DEF IInv, TypeOK
<1>3. pc'[i] = "scan" /\ at'[i] = now /\ \A j \in Ticks : j # i => pc'[j] = pc[j] /\ at'[j] = at[j] BY <1>1, <1>2
<1>4. ASSUME NEW a \in Appts, NEW k \in Keys, <<a, k>> \in steady'
      PROVE  Slot(a, k)'
 <2>1. Slot(a, k) BY <1>1, <1>4 DEF SlotInv
 <2>2. Served(a, k) => Served(a, k)' BY <1>1, <1>3 DEF Served, Running, InDueWindow, Near, Target
 <2>3. HandedOver(a, k)' BY <1>1, <1>3, <2>1 DEF Slot, HandedOver
 <2>4. lastStart' >= Opens(a, k) => Served(a, k)'
  <3>1. CASE lastStart >= Opens(a, k) BY <2>1, <2>2, <3>1 DEF Slot
  <3>2. CASE ~(lastStart >= Opens(a, k)) /\ now >= Opens(a, k)
   <4>1. now <= lastStart + Period /\ Period <= 2 * Window BY DEF SlotInv, Paced, OnTime
   <4>2. InDueWindow(a, k, now) BY <1>2, <3>2, <4>1, TimesAreNumbers DEF InDueWindow, Near, Opens
   <4> QED BY <1>1, <1>3, <4>2 DEF Served, InDueWindow, Near, Target
  <3> QED BY <1>1, <3>1, <3>2
 <2> QED BY <1>1, <2>1, <2>3, <2>4 DEF Slot, Watched, Target, Opens
<1>5. Paced' BY <1>1, <1>2, TimeAssumption DEF Paced
<1> QED BY <1>4, <1>5 DEF SlotInv

\* A tick reads the rows: a slot that waits for it is due, and on its list.
LEMMA SlotScans ==
  ASSUME OnTime, IInv, SlotInv, NEW i \in Ticks, TickScans(i)
  PROVE  SlotInv'
<1>1. /\ pc[i] = "scan" /\ pc' = [pc EXCEPT ![i] = "loop"] /\ todo' = [todo EXCEPT ![i] = Due(at[i])]
      /\ UNCHANGED <<now, lastStart, enabled, created, states, at, cur, tried, steady>>
  BY DEF TickScans, Goes, sends
<1>2. /\ pc \in [Ticks -> {"idle", "scan", "loop", "send", "record"}] /\ at \in [Ticks -> Nat] /\ now \in Nat
      /\ todo \in [Ticks -> SUBSET Reminders]
  BY DEF IInv, TypeOK
<1>3. /\ pc'[i] = "loop" /\ todo'[i] = Due(at[i])
      /\ \A j \in Ticks : j # i => pc'[j] = pc[j] /\ todo'[j] = todo[j]
  BY <1>1, <1>2
<1>4. ASSUME NEW a \in Appts, NEW k \in Keys, <<a, k>> \in steady'
      PROVE  Slot(a, k)'
 <2>1. Slot(a, k) BY <1>1, <1>4 DEF SlotInv
 <2>2. HandedOver(a, k)' BY <1>1, <1>3, <2>1 DEF Slot, HandedOver
 <2>3. ASSUME InDueWindow(a, k, at[i]), states[a][k] = "none"
       PROVE  <<a, k>> \in Due(at[i])
  <3>1. at[i] <= now /\ now <= at[i] + MaxTick /\ at[i] \in Nat BY <1>1, <1>2 DEF IInv, Ages
  <3>2. Watched(a, k, now) BY <1>2, <2>3, <3>1, TimesAreNumbers DEF Watched, InDueWindow, Near
  <3>3. a \in created /\ k \in enabled BY <2>1, <3>2 DEF Slot
  <3>4. Window < Minutes[k] /\ Minutes[k] + Window < Scan BY DEF OnTime
  <3>5. InScan(a, at[i]) BY <2>3, <3>1, <3>4, TimesAreNumbers DEF InScan, InDueWindow, Near, Target
  <3> QED BY <2>3, <3>3, <3>5 DEF Due
 <2>4. Served(a, k) => Served(a, k)' BY <1>1, <1>3, <2>3 DEF Served, Running, InDueWindow, Near, Target
 <2> QED BY <1>1, <2>1, <2>2, <2>4, SlotStays
<1> QED BY <1>1, <1>4 DEF SlotInv, Paced

\* A tick claims a reminder, or finds it claimed.
LEMMA SlotClaims ==
  ASSUME IInv, SlotInv, NEW i \in Ticks, NEW b \in Appts, NEW l \in Keys, ClaimWon(i, b, l) \/ ClaimNotWon(i, b, l)
  PROVE  SlotInv'
<1>1. /\ pc[i] = "loop" /\ todo' = [todo EXCEPT ![i] = @ \ {<<b, l>>}]
      /\ UNCHANGED <<now, lastStart, enabled, created, at, tried, steady>>
  BY DEF ClaimWon, ClaimNotWon, Goes, sends
<1>2. /\ pc \in [Ticks -> {"idle", "scan", "loop", "send", "record"}] /\ todo \in [Ticks -> SUBSET Reminders]
      /\ cur \in [Ticks -> Reminders \cup {NoJob}] /\ "pending" \in States /\ TypeOK
  BY DEF IInv, TypeOK, States
<1>3. /\ todo'[i] = todo[i] \ {<<b, l>>}
      /\ \A j \in Ticks : j # i => todo'[j] = todo[j]
  BY <1>1, <1>2
<1>4. ASSUME NEW a \in Appts, NEW k \in Keys, <<a, k>> \in steady'
      PROVE  Slot(a, k)'
 <2>1. Slot(a, k) /\ ~Failures BY <1>1, <1>4 DEF SlotInv, Slot
 <2>2. CASE ClaimWon(i, b, l)
  <3>1. /\ Claimable(b, l) /\ states' = Mark(b, l, "pending")
        /\ pc' = [pc EXCEPT ![i] = "send"] /\ cur' = [cur EXCEPT ![i] = <<b, l>>]
    BY <2>2 DEF ClaimWon, Goes
  <3>2. /\ pc'[i] = "send" /\ cur'[i] = <<b, l>>
        /\ \A j \in Ticks : j # i => pc'[j] = pc[j] /\ cur'[j] = cur[j]
    BY <1>2, <3>1
  <3>3. /\ states'[b][l] = "pending"
        /\ \A c \in Appts, m \in Keys : <<c, m>> # <<b, l>> => states'[c][m] = states[c][m]
    BY <3>1, ClaimStep
  <3>4. CASE <<a, k>> = <<b, l>>
   <4>1. Served(a, k)' /\ HandedOver(a, k)' BY <3>2, <3>3, <3>4 DEF Served, HandedOver
   <4> QED BY <1>1, <2>1, <4>1, SlotStays
  <3>5. CASE <<a, k>> # <<b, l>>
   <4>1. states'[a][k] = states[a][k] BY <3>3, <3>5
   <4>2. HandedOver(a, k)' BY <1>1, <2>1, <3>2, <4>1 DEF Slot, HandedOver
   <4>3. Served(a, k) => Served(a, k)' BY <1>1, <1>3, <3>2, <3>5, <4>1 DEF Served, Running, InDueWindow, Near, Target
   <4> QED BY <1>1, <2>1, <4>2, <4>3, SlotStays
  <3> QED BY <3>4, <3>5
 <2>3. CASE ClaimNotWon(i, b, l)
  <3>1. states' = states /\ pc' = pc /\ cur' = cur /\ states[b][l] # "none" BY <2>1, <2>3 DEF ClaimNotWon, Claimable
  <3>2. Served(a, k) => Served(a, k)' BY <1>1, <1>3, <3>1 DEF Served, Running, InDueWindow, Near, Target
  <3>3. HandedOver(a, k)' BY <1>1, <2>1, <3>1 DEF Slot, HandedOver
  <3> QED BY <1>1, <2>1, <3>2, <3>3, SlotStays
 <2> QED BY <2>2, <2>3
<1> QED BY <1>1, <1>4 DEF SlotInv, Paced

\* A tick hands its reminder over.
LEMMA SlotSends ==
  ASSUME IInv, SlotInv, NEW i \in Ticks, Send(i)
  PROVE  SlotInv'
<1>1. /\ pc[i] = "send" /\ pc' = [pc EXCEPT ![i] = "record"]
      /\ UNCHANGED <<now, lastStart, enabled, created, states, at, todo, cur, steady>>
  BY DEF Send, Goes
<1>2. pc \in [Ticks -> {"idle", "scan", "loop", "send", "record"}] /\ TypeOK BY DEF IInv, TypeOK
<1>3. pc'[i] = "record" /\ \A j \in Ticks : j # i => pc'[j] = pc[j] BY <1>1, <1>2
<1>4. PICK b \in Appts, l \in Keys : cur[i] = <<b, l>> BY <1>1 DEF IInv, Owners, Busy
<1>5. tried[<<b, l>>] = 0 /\ <<b, l>> \in Messages BY <1>1, <1>4 DEF IInv, Owners, Busy
<1>6. PICK ok \in BOOLEAN : Hand(<<b, l>>, ok) BY <1>4 DEF Send
<1>7. tried'[<<b, l>>] = 1 /\ \A m \in Messages : m # <<b, l>> => tried'[m] = tried[m] BY <1>2, <1>5, <1>6, HandEffect
<1>8. ASSUME NEW a \in Appts, NEW k \in Keys, <<a, k>> \in steady'
      PROVE  Slot(a, k)'
 <2>1. Slot(a, k) BY <1>1, <1>8 DEF SlotInv
 <2>2. Served(a, k) => Served(a, k)' BY <1>1, <1>3 DEF Served, Running, InDueWindow, Near, Target
 <2>3. HandedOver(a, k)' BY <1>1, <1>3, <1>4, <1>7, <2>1 DEF Slot, HandedOver
 <2> QED BY <1>1, <2>1, <2>2, <2>3, SlotStays
<1> QED BY <1>1, <1>8 DEF SlotInv, Paced

\* A tick records an outcome, and ends.
LEMMA SlotRecords ==
  ASSUME IInv, SlotInv, NEW i \in Ticks, Record(i) \/ TickEnds(i) \/ TickDies(i)
  PROVE  SlotInv'
<1>1. UNCHANGED <<now, lastStart, enabled, created, tried, steady>> BY DEF Record, TickEnds, TickDies, Forget, sends
<1>2. /\ pc \in [Ticks -> {"idle", "scan", "loop", "send", "record"}] /\ TypeOK
      /\ todo \in [Ticks -> SUBSET Reminders] /\ at \in [Ticks -> Nat]
      /\ cur \in [Ticks -> Reminders \cup {NoJob}]
  BY DEF IInv, TypeOK
<1>3. ASSUME NEW a \in Appts, NEW k \in Keys, <<a, k>> \in steady'
      PROVE  Slot(a, k)'
 <2>1. Slot(a, k) /\ ~Failures BY <1>1, <1>3 DEF SlotInv, Slot
 <2>2. CASE Record(i)
  <3>1. /\ pc[i] = "record" /\ pc' = [pc EXCEPT ![i] = "loop"] /\ at' = at /\ todo' = todo
        /\ cur' = [cur EXCEPT ![i] = NoJob] /\ states' = Merged(i)
    BY <2>1, <2>2 DEF Record, Goes
  <3>2. /\ pc'[i] = "loop" /\ \A j \in Ticks : j # i => pc'[j] = pc[j] /\ cur'[j] = cur[j] BY <1>2, <3>1
  <3>3. states[a][k] # "none" <=> states'[a][k] # "none"
   <4>1. CASE states' = states BY <4>1
   <4>2. CASE states' # states BY <2>2, <4>2, RecordStep DEF ResolvesOne, Recorded
   <4> QED BY <4>1, <4>2
  <3>4. Served(a, k) => Served(a, k)' BY <3>1, <3>2, <3>3 DEF Served, Running, InDueWindow, Near, Target
  <3>5. HandedOver(a, k)' BY <1>1, <2>1, <3>1, <3>2, <3>3 DEF Slot, HandedOver
  <3> QED BY <1>1, <2>1, <3>4, <3>5, SlotStays
 <2>3. CASE TickEnds(i) \/ TickDies(i)
  <3>1. pc[i] = "loop" /\ todo[i] = {} /\ Forget(i) BY <2>1, <2>3 DEF TickEnds, TickDies
  <3>2. /\ states' = states /\ pc' = [pc EXCEPT ![i] = "idle"] /\ at' = [at EXCEPT ![i] = 0]
        /\ todo' = [todo EXCEPT ![i] = {}] /\ cur' = [cur EXCEPT ![i] = NoJob]
    BY <3>1 DEF Forget
  <3>3. \A j \in Ticks : j # i => pc'[j] = pc[j] /\ at'[j] = at[j] /\ todo'[j] = todo[j] /\ cur'[j] = cur[j]
    BY <1>2, <3>2
  <3>4. Served(a, k) => Served(a, k)' BY <3>1, <3>2, <3>3 DEF Served, Running, InDueWindow, Near, Target
  <3>5. HandedOver(a, k)' BY <1>1, <2>1, <3>1, <3>2, <3>3 DEF Slot, HandedOver
  <3> QED BY <1>1, <2>1, <3>4, <3>5, SlotStays
 <2> QED BY <2>2, <2>3
<1> QED BY <1>1, <1>3 DEF SlotInv, Paced

\* Slots are served whatever is done.
LEMMA SlotStep == OnTime /\ IInv /\ SlotInv /\ [Next]_vars => SlotInv'
<1> SUFFICES ASSUME OnTime, IInv, SlotInv, [Next]_vars PROVE SlotInv' OBVIOUS
<1>1. ASSUME NEW h \in Hops, HopStep(h) PROVE SlotInv' BY <1>1, SlotHop
<1>2. ASSUME NEW i \in Ticks, TickStarts(i) \/ TickGoesOn(i) \/ TickDies(i) PROVE SlotInv'
  BY <1>2, SlotStarts, SlotScans, SlotClaims, SlotSends, SlotRecords DEF TickGoesOn
<1>3. CASE UpdateReminderOffsets \/ Advance \/ UNCHANGED vars BY <1>3, SlotOutside
<1> QED BY <1>1, <1>2, <1>3 DEF Next

\* No slot is followed whose window is open at the beginning.
LEMMA SlotInit == Init => SlotInv
<1> SUFFICES ASSUME Init PROVE SlotInv OBVIOUS
<1>1. now = 0 /\ lastStart = 0 /\ states = Blank /\ steady = {j \in Reminders : ~Failures /\ Target(j[1], j[2]) - Window > 0}
  BY DEF Init
<1>2. Paced BY <1>1, TimeAssumption DEF Paced
<1>3. ASSUME NEW a \in Appts, NEW k \in Keys, <<a, k>> \in steady
      PROVE  Slot(a, k)
 <2>1. ~Failures /\ Opens(a, k) > 0 BY <1>1, <1>3 DEF Opens
 <2>2. ~(now >= Opens(a, k)) /\ ~(lastStart >= Opens(a, k)) /\ ~Watched(a, k, now)
   BY <1>1, <2>1, TimesAreNumbers DEF Opens, Watched
 <2>3. HandedOver(a, k) BY <1>1 DEF HandedOver, Blank
 <2> QED BY <2>1, <2>2, <2>3 DEF Slot
<1> QED BY <1>2, <1>3 DEF SlotInv

\* When the window and the ticks in it are over, the reminder was tried.
LEMMA SlotThen ==
  ASSUME OnTime, IInv, SlotInv
  PROVE  SlotGetsOneAttempt
<1> SUFFICES ASSUME NEW j \in steady, now > Target(j[1], j[2]) + Window + MaxTick
             PROVE  tried[j] = 1
  BY DEF SlotGetsOneAttempt
<1>1. PICK a \in Appts, k \in Keys : j = <<a, k>> BY DEF IInv, TypeOK
<1>2. Slot(a, k) /\ now <= lastStart + Period /\ Period <= 2 * Window BY <1>1 DEF SlotInv, Paced, OnTime
<1>3. now \in Nat /\ lastStart \in Nat /\ at \in [Ticks -> Nat] /\ now > Target(a, k) + Window + MaxTick
  BY <1>1 DEF IInv, TypeOK
<1>4. lastStart >= Opens(a, k) BY <1>2, <1>3, TimesAreNumbers DEF Opens
<1>5. ASSUME NEW i \in Ticks, pc[i] # "idle"  PROVE ~InDueWindow(a, k, at[i])
  BY <1>3, <1>5, TimesAreNumbers DEF IInv, Ages, InDueWindow, Near
<1>6. states[a][k] # "none"
 <2>1. Served(a, k) BY <1>2, <1>4 DEF Slot
 <2> QED BY <1>5, <2>1 DEF Served, Running, IInv, Lists
<1>7. ~\E i \in Ticks : pc[i] = "send" /\ cur[i] = <<a, k>> BY <1>5 DEF IInv, Owners, Busy
<1> QED BY <1>1, <1>2, <1>6, <1>7 DEF Slot, HandedOver

\* Every slot the code has every chance to serve gets exactly one attempt, on any
\* number of pods (appointment-reminder.service.ts:7-9).
THEOREM SlotsGetOneAttempt == OnTime => (Spec => []SlotGetsOneAttempt)
<1> SUFFICES ASSUME OnTime PROVE Spec => []SlotGetsOneAttempt OBVIOUS
<1>1. Init => SlotInv BY SlotInit
<1>2. IInv /\ SlotInv /\ [Next]_vars => SlotInv' BY SlotStep
<1>3. IInv /\ SlotInv => SlotGetsOneAttempt BY SlotThen
<1> QED BY <1>1, <1>2, <1>3, Invariance, PTL DEF Spec
=============================================================================
