---------------------------- MODULE SecurityGroup ----------------------------
(***************************************************************************)
(* The iwinv_security_group resource: a name, a description and the ICMP   *)
(* flag, all of which an update changes in place.  One detail call reads   *)
(* it; the empty answer is absence.                                        *)
(***************************************************************************)
EXTENDS FirewallResource

Create == Post \/ PostRejected

\* The steps that call Group.
Detail == Poll \/ Refresh \/ PreRead

Wait == Arrived \/ KeepWaiting \/ Pause
Read == AdoptAnswer
Update == Change \/ WriteRejected
Delete == PreCheckAbsent \/ Remove

-----------------------------------------------------------------------------
\* Nothing is fixed at creation.
Core == CoreWith(Plans, {w \in Plans : tf # None /\ tf.config = w.config})

Handler == Create \/ Detail \/ Wait \/ Read \/ Update \/ Delete \/ Finish

Next == Core \/ Handler \/ Expire \/ FirewallEnvironment

Spec == Init /\ [][Next]_vars

-----------------------------------------------------------------------------
\* What design/en/architecture.md says of every resource: only confirmed absence
\* removes existing state, and a new object that is not visible yet is waited for.
OnlyConfirmedAbsenceRemoves ==
    [][tf # None /\ tf' = None => life[tf.id] # "alive"]_vars
=============================================================================
