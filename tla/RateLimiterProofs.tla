-------------------------- MODULE RateLimiterProofs --------------------------
(***************************************************************************)
(* Client.wait for any number of callers and any interval: reserved slots  *)
(* are one interval apart, and the client keeps its quota.                 *)
(***************************************************************************)
EXTENDS RateLimiter, TLAPS

Sleeps(c) == pc[c] = "sleep"

\* What the reservations behind us leave: every slot handed out is at least one
\* interval before next, and its number fits in the time before it.
Handed(t, s) == t < tickets /\ s + Interval <= next /\ t * Interval <= s

SlotsHanded ==
    /\ tickets * Interval <= next
    /\ \A c \in Callers : Sleeps(c) => Handed(ticket[c], slot[c])
    /\ \A a \in log : Handed(a.ticket, a.slot) /\ a.slot <= a.at

\* A reservation belongs to one sleeper or to one admission.
TicketsUnique ==
    /\ \A c, d \in Callers : Sleeps(c) /\ Sleeps(d) /\ ticket[c] = ticket[d] => c = d
    /\ \A c \in Callers, a \in log : Sleeps(c) => ticket[c] # a.ticket
    /\ \A a, b \in log : a.ticket = b.ticket => a = b

IInv == TypeOK /\ SlotsHanded /\ TicketsUnique /\ SlotsSpaced

-----------------------------------------------------------------------------
\* Every variable keeps its type; in particular next never falls below zero.
THEOREM TypeCorrect == Spec => []TypeOK
<1>1. Init => TypeOK
    BY DEF Init, TypeOK
<1>2. TypeOK /\ [Next]_vars => TypeOK'
    <2> SUFFICES ASSUME TypeOK, [Next]_vars PROVE TypeOK'
        OBVIOUS
    <2> USE IntervalAssumption DEF TypeOK
    <2>1. CASE Tick
        BY <2>1 DEF Tick
    <2>2. ASSUME NEW c \in Callers, Arrive(c) PROVE TypeOK'
        BY <2>2 DEF Arrive
    <2>3. ASSUME NEW c \in Callers, Check(c) PROVE TypeOK'
        BY <2>3 DEF Check, Refuse
    <2>4. ASSUME NEW c \in Callers, Reserve(c) PROVE TypeOK'
        <3>1. FreeSlot \in Nat
            BY DEF FreeSlot
        <3> QED BY <2>4, <3>1 DEF Reserve
    <2>5. ASSUME NEW c \in Callers, Admit(c) PROVE TypeOK'
        BY <2>5 DEF Admit, Admissions
    <2>6. ASSUME NEW c \in Callers, Abandon(c) PROVE TypeOK'
        BY <2>6 DEF Abandon, Refuse
    <2>7. ASSUME NEW c \in Callers, Cancel(c) PROVE TypeOK'
        BY <2>7 DEF Cancel
    <2>8. CASE UNCHANGED vars
        BY <2>8 DEF vars
    <2> QED BY <2>1, <2>2, <2>3, <2>4, <2>5, <2>6, <2>7, <2>8 DEF Next, Wait
<1> QED BY <1>1, <1>2, PTL DEF Spec

-----------------------------------------------------------------------------
\* A step that only takes callers out of their sleep, or moves the clock, keeps
\* what is said of the remaining sleepers.
LEMMA FewerSleepers ==
    ASSUME IInv, TypeOK', UNCHANGED <<next, tickets, log>>,
           \A c \in Callers : Sleeps(c)' =>
               Sleeps(c) /\ slot'[c] = slot[c] /\ ticket'[c] = ticket[c]
    PROVE  (SlotsHanded /\ TicketsUnique /\ SlotsSpaced)'
<1>1. SlotsHanded'
    BY DEF IInv, SlotsHanded, Handed, Sleeps
<1>2. TicketsUnique'
    BY DEF IInv, TicketsUnique, Sleeps
<1>3. SlotsSpaced'
    BY DEF IInv, SlotsSpaced, Sleeps
<1> QED BY <1>1, <1>2, <1>3

\* The new slot is free: not before next, and not before now.
LEMMA FreeSlotIsFree ==
    ASSUME TypeOK
    PROVE  FreeSlot \in Nat /\ next <= FreeSlot /\ now <= FreeSlot
BY DEF TypeOK, FreeSlot

\* A reservation comes one interval after every earlier one.
LEMMA ReserveKeeps ==
    ASSUME IInv, NEW c \in Callers, Reserve(c)
    PROVE  (SlotsHanded /\ TicketsUnique /\ SlotsSpaced)'
<1> USE IntervalAssumption
<1>1. /\ FreeSlot \in Nat /\ next <= FreeSlot
      /\ next' = FreeSlot + Interval /\ tickets' = tickets + 1 /\ log' = log
      /\ slot' = [slot EXCEPT ![c] = FreeSlot]
      /\ ticket' = [ticket EXCEPT ![c] = tickets]
      /\ pc' = [pc EXCEPT ![c] = "sleep"]
      /\ pc[c] = "reserve"
    BY FreeSlotIsFree DEF IInv, Reserve
<1>2. /\ next \in Nat /\ tickets \in Nat /\ Interval \in Nat /\ Interval > 0
      /\ slot \in [Callers -> Nat] /\ ticket \in [Callers -> Nat]
      /\ pc \in [Callers -> {"idle", "check", "reserve", "sleep"}]
      /\ \A a \in log : a.ticket \in Nat /\ a.slot \in Nat /\ a.at \in Nat
    BY DEF IInv, TypeOK, Admissions
<1>3. (tickets + 1) * Interval = tickets * Interval + Interval
    BY <1>2
<1>4. tickets * Interval <= next /\ tickets * Interval \in Nat
    BY <1>2 DEF IInv, SlotsHanded
<1>5. /\ slot'[c] = FreeSlot /\ ticket'[c] = tickets
      /\ \A d \in Callers \ {c} : /\ slot'[d] = slot[d] /\ ticket'[d] = ticket[d]
                                  /\ Sleeps(d)' => Sleeps(d)
    BY <1>1, <1>2 DEF Sleeps
<1>6. SlotsHanded'
    <2>1. tickets < tickets' /\ FreeSlot + Interval <= next' /\ tickets * Interval <= FreeSlot
        BY <1>1, <1>2, <1>4
    <2>2. ASSUME NEW t \in Nat, NEW s \in Nat, Handed(t, s)
          PROVE  t < tickets' /\ s + Interval <= next' /\ t * Interval <= s
        BY <1>1, <1>2, <2>2 DEF Handed
    <2>3. \A d \in Callers : Sleeps(d)' => Handed(ticket[d], slot[d])'
        BY <1>1, <1>2, <1>5, <2>1, <2>2 DEF IInv, SlotsHanded, Handed
    <2>4. \A a \in log : Handed(a.ticket, a.slot)' /\ a.slot <= a.at
        BY <1>1, <1>2, <2>2 DEF IInv, SlotsHanded, Handed
    <2> QED BY <1>1, <1>2, <1>3, <1>4, <2>3, <2>4 DEF SlotsHanded
<1>7. TicketsUnique'
    BY <1>1, <1>2, <1>5 DEF IInv, SlotsHanded, Handed, TicketsUnique, Sleeps
<1>8. SlotsSpaced'
    BY <1>1, <1>2, <1>5 DEF IInv, SlotsHanded, Handed, SlotsSpaced, Sleeps
<1> QED BY <1>6, <1>7, <1>8

\* An admission takes over the slot and the number of the sleeper.
LEMMA AdmitKeeps ==
    ASSUME IInv, NEW c \in Callers, Admit(c)
    PROVE  (SlotsHanded /\ TicketsUnique /\ SlotsSpaced)'
<1> DEFINE new == [ticket |-> ticket[c], slot |-> slot[c], at |-> now]
<1>1. /\ Sleeps(c) /\ slot[c] <= now
      /\ next' = next /\ tickets' = tickets /\ log' = log \cup {new}
      /\ new.ticket = ticket[c] /\ new.slot = slot[c] /\ new.at = now
      /\ \A d \in Callers : Sleeps(d)' =>
            d # c /\ Sleeps(d) /\ slot'[d] = slot[d] /\ ticket'[d] = ticket[d]
    BY DEF IInv, TypeOK, Admit, Due, Sleeps
<1> HIDE DEF new
<1>2. SlotsHanded'
    BY <1>1 DEF IInv, SlotsHanded, Handed
<1>3. TicketsUnique'
    BY <1>1 DEF IInv, TicketsUnique
<1>4. SlotsSpaced'
    BY <1>1 DEF IInv, TypeOK, SlotsSpaced, Sleeps
<1> QED BY <1>2, <1>3, <1>4

\* IInv is inductive: the numbers and the slots of all reservations are tied to
\* next, which only a reservation moves, and only forward.
THEOREM Invariance == Spec => []IInv
<1>1. Init => IInv
    <2> SUFFICES ASSUME Init PROVE IInv
        OBVIOUS
    <2>1. 0 * Interval = 0
        BY IntervalAssumption
    <2> QED BY <2>1 DEF Init, IInv, TypeOK, SlotsHanded, Handed, TicketsUnique, SlotsSpaced, Sleeps
<1>2. IInv /\ TypeOK' /\ [Next]_vars => IInv'
    <2> SUFFICES ASSUME IInv, TypeOK', [Next]_vars
                 PROVE  (SlotsHanded /\ TicketsUnique /\ SlotsSpaced)'
        BY DEF IInv
    <2> USE FewerSleepers DEF Sleeps
    <2>1. CASE Tick
        BY <2>1 DEF Tick
    <2>2. ASSUME NEW c \in Callers, Arrive(c) \/ Cancel(c) \/ Check(c) \/ Abandon(c)
          PROVE  (SlotsHanded /\ TicketsUnique /\ SlotsSpaced)'
        BY <2>2 DEF IInv, TypeOK, Arrive, Cancel, Check, Abandon, Refuse
    <2>3. ASSUME NEW c \in Callers, Reserve(c)
          PROVE  (SlotsHanded /\ TicketsUnique /\ SlotsSpaced)'
        BY <2>3, ReserveKeeps
    <2>4. ASSUME NEW c \in Callers, Admit(c)
          PROVE  (SlotsHanded /\ TicketsUnique /\ SlotsSpaced)'
        BY <2>4, AdmitKeeps
    <2>5. CASE UNCHANGED vars
        BY <2>5 DEF vars
    <2> QED BY <2>1, <2>2, <2>3, <2>4, <2>5 DEF Next, Wait
<1> QED BY <1>1, <1>2, TypeCorrect, PTL DEF Spec

\* Reserved slots are one interval apart in the order of their reservation.
THEOREM SlotsSpacedHolds == Spec => []SlotsSpaced
BY Invariance, PTL DEF IInv

\* The n-th reservation is never admitted before n intervals have passed, and
\* none is admitted twice.
THEOREM QuotaHolds == Spec => []QuotaKept
<1>1. IInv => QuotaKept
    <2> SUFFICES ASSUME IInv PROVE QuotaKept
        OBVIOUS
    <2>1. ASSUME NEW a \in log PROVE a.ticket * Interval <= a.at
        <3>1. a.ticket * Interval <= a.slot /\ a.slot <= a.at
            BY DEF IInv, SlotsHanded, Handed
        <3>2. a.ticket * Interval \in Nat /\ a.slot \in Nat /\ a.at \in Nat
            BY IntervalAssumption DEF IInv, TypeOK, Admissions
        <3> QED BY <3>1, <3>2
    <2> QED BY <2>1 DEF IInv, TicketsUnique, QuotaKept
<1> QED BY <1>1, Invariance, PTL
=============================================================================
