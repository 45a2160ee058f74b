----------------------------- MODULE RateLimiter -----------------------------
(***************************************************************************)
(* Client.wait: the admission of HTTP requests.  Callers (the handlers of  *)
(* a Terraform run, which call the provider in parallel) reserve slots one *)
(* interval apart under the client's mutex, release it, and sleep until    *)
(* their slot or until their context is done.  Time is the monotonic clock *)
(* of the process, which may advance any amount between two steps.         *)
(***************************************************************************)
EXTENDS Integers, FiniteSets

CONSTANTS
    Callers,    \* goroutines that share one Client
    Interval    \* the client's interval, in clock ticks

ASSUME IntervalAssumption == Interval \in Nat \ {0}

VARIABLES
    now,        \* the clock
    next,       \* Client.next: the earliest slot still free
    pc,         \* [Callers -> ...]: idle, check, reserve, sleep
    slot,       \* [Callers -> Nat]: the slot a sleeping caller holds
    ticket,     \* history, [Callers -> Nat]: the number of its reservation
    done,       \* [Callers -> BOOLEAN]: the caller's context is done
    tickets,    \* history: how many slots were reserved
    log         \* history: the admissions, with the time of each

vars == <<now, next, pc, slot, ticket, done, tickets, log>>

Admissions == [ticket : Nat, slot : Nat, at : Nat]

TypeOK ==
    /\ now \in Nat
    /\ next \in Nat
    /\ pc \in [Callers -> {"idle", "check", "reserve", "sleep"}]
    /\ slot \in [Callers -> Nat]
    /\ ticket \in [Callers -> Nat]
    /\ done \in [Callers -> BOOLEAN]
    /\ tickets \in Nat
    /\ log \subseteq Admissions

Init ==
    /\ now = 0 /\ next = 0
    /\ pc = [c \in Callers |-> "idle"]
    /\ slot = [c \in Callers |-> 0]
    /\ ticket = [c \in Callers |-> 0]
    /\ done = [c \in Callers |-> FALSE]
    /\ tickets = 0 /\ log = {}

-----------------------------------------------------------------------------
\* A caller comes with a request of its own, under a context of its own.
Arrive(c) ==
    /\ pc[c] = "idle"
    /\ pc' = [pc EXCEPT ![c] = "check"]
    /\ done' = [done EXCEPT ![c] = FALSE]
    /\ UNCHANGED <<now, next, slot, ticket, tickets, log>>

\* wait returns an error; slot and ticket are no longer looked at.
Refuse(c) ==
    /\ pc' = [pc EXCEPT ![c] = "idle"]
    /\ slot' = [slot EXCEPT ![c] = 0]
    /\ ticket' = [ticket EXCEPT ![c] = 0]
    /\ UNCHANGED <<now, next, done, tickets, log>>

Check(c) ==
    /\ pc[c] = "check"
    /\ \/ done[c] /\ Refuse(c)
       \/ /\ ~done[c]
          /\ pc' = [pc EXCEPT ![c] = "reserve"]
          /\ UNCHANGED <<now, next, slot, ticket, done, tickets, log>>

\* The slot a caller gets: the free one, or now if that is already past.
\* (Fault: the delay until the slot is taken for the slot.)
FreeSlot_Delay == next - now
FreeSlot == IF next < now THEN now ELSE next

\* The critical section.  (Fault: the next slot is counted from the clock.)
Reserve_FromClock(c) ==
    /\ pc[c] = "reserve"
    /\ slot' = [slot EXCEPT ![c] = FreeSlot]
    /\ ticket' = [ticket EXCEPT ![c] = tickets]
    /\ next' = now + Interval
    /\ tickets' = tickets + 1
    /\ pc' = [pc EXCEPT ![c] = "sleep"]
    /\ UNCHANGED <<now, done, log>>

Reserve(c) ==
    /\ pc[c] = "reserve"
    /\ slot' = [slot EXCEPT ![c] = FreeSlot]
    /\ ticket' = [ticket EXCEPT ![c] = tickets]
    /\ next' = FreeSlot + Interval
    /\ tickets' = tickets + 1
    /\ pc' = [pc EXCEPT ![c] = "sleep"]
    /\ UNCHANGED <<now, done, log>>

\* The timer has fired, perhaps late, and the context is checked once more.
\* (Fault: the timer is not waited for.)
Due_Early(c) == pc[c] = "sleep"
Due(c) == pc[c] = "sleep" /\ slot[c] <= now

Admit(c) ==
    /\ Due(c) /\ ~done[c]
    /\ log' = log \cup {[ticket |-> ticket[c], slot |-> slot[c], at |-> now]}
    /\ pc' = [pc EXCEPT ![c] = "idle"]
    /\ slot' = [slot EXCEPT ![c] = 0]
    /\ ticket' = [ticket EXCEPT ![c] = 0]
    /\ UNCHANGED <<now, next, done, tickets>>

\* A sleeping caller whose context is done leaves; its slot stays reserved.
\* (Faults: the sleep ends only with the timer; the slot is handed back.)
Abandon_Late(c) == Due(c) /\ done[c] /\ Refuse(c)

Abandon_Refunds(c) ==
    /\ pc[c] = "sleep" /\ done[c]
    /\ next' = IF next < Interval THEN 0 ELSE next - Interval
    /\ pc' = [pc EXCEPT ![c] = "idle"]
    /\ slot' = [slot EXCEPT ![c] = 0]
    /\ ticket' = [ticket EXCEPT ![c] = 0]
    /\ UNCHANGED <<now, done, tickets, log>>

Abandon(c) == pc[c] = "sleep" /\ done[c] /\ Refuse(c)

Cancel(c) ==
    /\ pc[c] # "idle" /\ ~done[c]
    /\ done' = [done EXCEPT ![c] = TRUE]
    /\ UNCHANGED <<now, next, pc, slot, ticket, tickets, log>>

\* The clock, as fine or as coarse as the run makes Interval.
Tick ==
    /\ now' = now + 1
    /\ UNCHANGED <<next, pc, slot, ticket, done, tickets, log>>

Wait(c) == Check(c) \/ Reserve(c) \/ Admit(c) \/ Abandon(c)

Next == Tick \/ \E c \in Callers : Arrive(c) \/ Wait(c) \/ Cancel(c)

Spec == Init /\ [][Next]_vars

\* Goroutines are scheduled, so a caller that can go on does.  Nothing is said of
\* the clock: what is promised to a cancelled caller must not depend on it.
FairSpec == Spec /\ \A c \in Callers : WF_vars(Wait(c))

-----------------------------------------------------------------------------
\* Reserved slots, used, abandoned or still slept for, are one interval apart
\* in the order of their reservation, whichever callers hold them.
SlotsSpaced ==
    /\ \A a, b \in log : a.ticket < b.ticket => a.slot + Interval <= b.slot
    /\ \A c \in Callers, a \in log : pc[c] = "sleep" =>
        /\ ticket[c] < a.ticket => slot[c] + Interval <= a.slot
        /\ a.ticket < ticket[c] => a.slot + Interval <= slot[c]
    /\ \A c, d \in Callers :
        pc[c] = "sleep" /\ pc[d] = "sleep" /\ ticket[c] < ticket[d] =>
            slot[c] + Interval <= slot[d]

\* No sequence of arrivals, late timers and cancellations makes the client use
\* more than its quota: the n-th reservation is not admitted before n intervals
\* have passed, and no reservation is admitted twice, so at most t / Interval + 1
\* requests are admitted up to any time t.
QuotaKept ==
    /\ \A a \in log : a.ticket * Interval <= a.at
    /\ \A a, b \in log : a.ticket = b.ticket => a = b

\* A caller whose context is done, before or after it reserved a slot, returns
\* without waiting for that slot: the clock need not advance for it, and the
\* slots that others have reserved before it do not matter.
CancelledReturns == \A c \in Callers : (pc[c] # "idle" /\ done[c]) ~> pc[c] = "idle"

\* What docs/index.md says: admissions themselves are one interval apart.
AdmissionsSpaced ==
    \A a, b \in log : a.ticket < b.ticket => a.at + Interval <= b.at
=============================================================================
