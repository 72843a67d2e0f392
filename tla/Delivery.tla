------------------------------ MODULE Delivery ------------------------------
(***************************************************************************)
(* What the gateway tells its operators: integrations/webhook.py queues    *)
(* events and one worker posts them, with retries and a circuit breaker;   *)
(* core/alerting.py raises two alarms of its own.                          *)
(*                                                                         *)
(* An event is known by its deduplication key; which event is lost is not  *)
(* recorded, so the queue is a number.  A call of _post_webhook waits for  *)
(* a DNS lookup and for Redis and is resumed in a later step.  Durations   *)
(* count down with PassTime.                                               *)
(***************************************************************************)
EXTENDS Integers

CONSTANTS
  Calls,               \* bound: calls of _post_webhook at a time
  Keys,                \* reason and track key of an event
  Nameless,            \* the key of the events that have neither
  Alarms,              \* threat_index, ban_rate
  BacklogMax,          \* the queue's maxsize
  Attempts,            \* len(delays)
  CB_THRESHOLD,
  CB_RESET,            \* _CB_RESET_SECS, as ticks
  DEDUP,               \* ex=300, as ticks
  ALERT_COOLDOWN       \* ALERT_COOLDOWN_SECS, as ticks

ASSUME DeliveryAssumption ==
  /\ Nameless \in Keys
  /\ {BacklogMax, Attempts, CB_THRESHOLD, CB_RESET, DEDUP} \subseteq Nat \ {0}
  /\ ALERT_COOLDOWN \in Nat

VARIABLES
  receiver,   \* WEBHOOK_URL: "up", "down", or "barred" by _webhook_url_safe
  calls,      \* calls[c]: the key _post_webhook was called with, or "none"
  claimed,    \* claimed[k]: how long Redis keeps the key, for all gateways
  backlog,    \* _WEBHOOK_QUEUE
  worker,     \* what _webhook_worker is at: "idle", "checking" or "posting"
  attempt,    \* the attempts it has made
  circuit,    \* _CB_FAILURES, as far as the threshold, and _CB_OPEN_UNTIL
  outcome,    \* history: what became of the event taken last
  rounds,     \* the alarms the loop has still to look at in this round
  alarm,      \* the alarm whose _post_webhook the loop awaits
  silent      \* silent[a]: what is left of the cooldown of alarm a

deliveryVars == <<receiver, calls, claimed, backlog, worker, attempt, circuit,
                  outcome, rounds, alarm, silent>>
workerVars == <<worker, attempt, circuit, outcome>>
alarmVars == <<rounds, alarm, silent>>

-----------------------------------------------------------------------------
(***************************************************************************)
(* _post_webhook                                                           *)
(***************************************************************************)

Idle == "none"

\* A ban (scoring.py) or a leak (proxy) calls it in a task.
Announce(c, k) ==
  /\ calls[c] = Idle
  /\ calls' = [calls EXCEPT ![c] = k]
  /\ UNCHANGED <<receiver, claimed, backlog, workerVars, alarmVars>>

\* A full queue loses the event.
Backlogged == IF backlog < BacklogMax THEN backlog + 1 ELSE backlog

\* SET NX EX 300 found no key, or failed: it may have been applied all the
\* same.  The event is queued after that.
Claimed(k) == [claimed EXCEPT ![k] = DEDUP]

Post(k) ==
  \/ /\ receiver = "barred"
     /\ UNCHANGED <<claimed, backlog>>
  \/ /\ receiver # "barred" /\ claimed[k] > 0          \* a duplicate
     /\ UNCHANGED <<claimed, backlog>>
  \/ /\ receiver # "barred" /\ claimed[k] = 0
     /\ claimed' = Claimed(k) /\ backlog' = Backlogged
  \/ /\ receiver # "barred"                            \* Redis failed, or is absent
     /\ UNCHANGED claimed /\ backlog' = Backlogged

PostEnds(c) ==
  /\ calls[c] # Idle
  /\ Post(calls[c])
  /\ calls' = [calls EXCEPT ![c] = Idle]
  /\ UNCHANGED <<receiver, workerVars, alarmVars>>

\* Another gateway announces the same.
ClaimElsewhere(k) ==
  /\ claimed[k] = 0
  /\ claimed' = Claimed(k)
  /\ UNCHANGED <<receiver, calls, backlog, workerVars, alarmVars>>

-----------------------------------------------------------------------------
(***************************************************************************)
(* The worker                                                              *)
(***************************************************************************)

Broken == circuit.openLeft > 0

\* Fault: an event dropped counts as a failure.
SkippedCounts == [circuit EXCEPT !.openLeft = CB_RESET]

\* While the circuit is open events are dropped.
Skipped == circuit

Take ==
  /\ worker = "idle" /\ backlog > 0
  /\ backlog' = backlog - 1
  /\ IF Broken
     THEN /\ outcome' = "lost" /\ circuit' = Skipped
          /\ UNCHANGED worker
     ELSE /\ outcome' = "open" /\ worker' = "checking"
          /\ UNCHANGED circuit
  /\ UNCHANGED <<receiver, calls, claimed, attempt, alarmVars>>

\* The URL is looked up again; when it may not be posted to the event is lost.
Check ==
  /\ worker = "checking"
  /\ IF receiver = "barred"
     THEN worker' = "idle" /\ outcome' = "lost"
     ELSE worker' = "posting" /\ UNCHANGED outcome
  /\ attempt' = 0
  /\ UNCHANGED <<receiver, calls, claimed, backlog, circuit, alarmVars>>

\* The failures are not forgotten when the circuit closes: then one more
\* opens it again.
AfterLoss ==
  LET failures == IF circuit.failures < CB_THRESHOLD
                  THEN circuit.failures + 1 ELSE CB_THRESHOLD
  IN [failures |-> failures,
      openLeft |-> IF failures = CB_THRESHOLD THEN CB_RESET ELSE circuit.openLeft]

AfterDelivery == [circuit EXCEPT !.failures = 0]

\* An answer below 500 counts as delivered, whatever it says.
Deliver ==
  /\ worker = "posting" /\ receiver = "up"
  /\ worker' = "idle" /\ outcome' = "delivered"
  /\ circuit' = AfterDelivery
  /\ UNCHANGED <<receiver, calls, claimed, backlog, attempt, alarmVars>>

\* A timeout, an error or an answer of 500 or above: three times and out.
Miss ==
  /\ worker = "posting" /\ receiver # "up"
  /\ IF attempt + 1 < Attempts
     THEN attempt' = attempt + 1 /\ UNCHANGED <<worker, circuit, outcome>>
     ELSE /\ worker' = "idle" /\ outcome' = "lost"
          /\ circuit' = AfterLoss
          /\ attempt' = 0
  /\ UNCHANGED <<receiver, calls, claimed, backlog, alarmVars>>

-----------------------------------------------------------------------------
(***************************************************************************)
(* The alarms                                                              *)
(***************************************************************************)

\* Every 30 s the loop looks at the alarms, one after the other.
Round ==
  /\ rounds = {} /\ alarm = Idle
  /\ rounds' = Alarms
  /\ UNCHANGED <<receiver, calls, claimed, backlog, workerVars, alarm, silent>>

\* Below its threshold, or within its cooldown.
Quiet(a) ==
  /\ alarm = Idle /\ a \in rounds
  /\ rounds' = rounds \ {a}
  /\ UNCHANGED <<receiver, calls, claimed, backlog, workerVars, alarm, silent>>

Raise(a) ==
  /\ alarm = Idle /\ a \in rounds /\ silent[a] = 0
  /\ alarm' = a /\ rounds' = rounds \ {a}
  /\ UNCHANGED <<receiver, calls, claimed, backlog, workerVars, silent>>

\* The cooldown starts whether the alarm was queued or not.
Raised ==
  /\ alarm # Idle
  /\ Post(Nameless)
  /\ silent' = [silent EXCEPT ![alarm] = ALERT_COOLDOWN]
  /\ alarm' = Idle
  /\ UNCHANGED <<receiver, calls, workerVars, rounds>>

-----------------------------------------------------------------------------

Less(n) == IF n > 0 THEN n - 1 ELSE 0

PassTime ==
  /\ claimed' = [k \in Keys |-> Less(claimed[k])]
  /\ circuit' = [circuit EXCEPT !.openLeft = Less(@)]
  /\ silent' = [a \in Alarms |-> Less(silent[a])]
  /\ <<claimed, circuit, silent>> # <<claimed', circuit', silent'>>
  /\ UNCHANGED <<receiver, calls, backlog, worker, attempt, outcome, rounds, alarm>>

Becomes(r) ==
  /\ r # receiver /\ receiver' = r
  /\ UNCHANGED <<calls, claimed, backlog, workerVars, alarmVars>>

DeliveryInit ==
  /\ receiver = "up" /\ claimed = [k \in Keys |-> 0]
  /\ calls = [c \in Calls |-> Idle]
  /\ backlog = 0 /\ worker = "idle" /\ attempt = 0
  /\ circuit = [failures |-> 0, openLeft |-> 0]
  /\ outcome = "none"
  /\ rounds = {} /\ alarm = Idle
  /\ silent = [a \in Alarms |-> 0]

\* All but the receiver and the keys in Redis is memory of the process.
ProcessEnds ==
  /\ calls' = [c \in Calls |-> Idle]
  /\ backlog' = 0 /\ worker' = "idle" /\ attempt' = 0
  /\ circuit' = [failures |-> 0, openLeft |-> 0]
  /\ outcome' = "none"
  /\ rounds' = {} /\ alarm' = Idle
  /\ silent' = [a \in Alarms |-> 0]
  /\ UNCHANGED <<receiver, claimed>>

Works == Take \/ Check \/ Deliver \/ Miss

DeliveryNext ==
  \/ \E c \in Calls : (\E k \in Keys : Announce(c, k)) \/ PostEnds(c)
  \/ \E k \in Keys : ClaimElsewhere(k)
  \/ Works
  \/ Round \/ (\E a \in Alarms : Quiet(a) \/ Raise(a)) \/ Raised
  \/ PassTime
  \/ \E r \in {"up", "down", "barred"} : Becomes(r)
  \/ ProcessEnds

DeliverySpec == DeliveryInit /\ [][DeliveryNext]_deliveryVars

\* The worker is one task whose every await has a limit, and time passes.
DeliveryFairness ==
  /\ WF_deliveryVars(Works)
  /\ WF_deliveryVars(PassTime)

-----------------------------------------------------------------------------

DeliveryTypeOK ==
  /\ receiver \in {"up", "down", "barred"}
  /\ calls \in [Calls -> Keys \cup {Idle}]
  /\ claimed \in [Keys -> 0 .. DEDUP]
  /\ backlog \in 0 .. BacklogMax
  /\ worker \in {"idle", "checking", "posting"} /\ attempt \in 0 .. Attempts - 1
  /\ circuit \in [failures : 0 .. CB_THRESHOLD, openLeft : 0 .. CB_RESET]
  /\ outcome \in {"none", "open", "delivered", "lost"}
  /\ rounds \subseteq Alarms /\ alarm \in Alarms \cup {Idle}
  /\ silent \in [Alarms -> 0 .. ALERT_COOLDOWN]

\* The circuit opens only after CB_THRESHOLD events were lost with none
\* delivered in between, and while it is open nothing is being posted: no late
\* answer finds it open.
OpenMeansLost ==
  Broken => /\ circuit.failures = CB_THRESHOLD
            /\ worker = "idle" /\ outcome = "lost"

\* Once an event has been taken for delivery, none is lost as long as the
\* receiver stays up: what it failed before does not open the circuit again.
HeardWhileUp ==
  [][receiver = "up" /\ receiver' = "up" /\ outcome # "lost"
     => outcome' # "lost"]_deliveryVars

\* When the receiver stays up the operators are heard from again: after some
\* time no event that the worker takes is lost, however many were dropped and
\* however late the failures of the time before arrive.
HeardAgain ==
  (<>[](receiver = "up") /\ []<>(worker # "idle" \/ backlog > 0))
    => <>[](outcome # "lost")

=============================================================================
