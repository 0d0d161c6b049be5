----------------------------- MODULE OrderedFeed -----------------------------
(***************************************************************************)
(* What publish/subscribe promises a client that follows one topic: topics *)
(* are append-only logs whose entries are numbered from 1 without holes,   *)
(* and a client is shown entries of one log, each as it was appended, in   *)
(* the order of their numbers and none of them twice.  It may be shown     *)
(* less than the whole log.                                                *)
(***************************************************************************)
EXTENDS Naturals, Sequences

CONSTANTS Handlers, Topics, Tenants

VARIABLES log, view

vars == <<log, view>>

Init ==
    /\ log = [t \in Topics |-> <<>>]
    /\ view = [s \in Handlers |-> <<>>]

Extend(t, tenant) ==
    /\ log' = [log EXCEPT ![t] =
                 Append(@, [topic |-> t, sequence |-> Len(@) + 1, tenant |-> tenant])]
    /\ UNCHANGED view

Show(s, t, n) ==
    /\ \A i \in DOMAIN view[s] : view[s][i].topic = t /\ view[s][i].sequence < n
    /\ view' = [view EXCEPT ![s] = Append(@, log[t][n])]
    /\ UNCHANGED log

Next ==
    \E t \in Topics :
        \/ \E tenant \in Tenants : Extend(t, tenant)
        \/ \E s \in Handlers, n \in DOMAIN log[t] : Show(s, t, n)

Spec == Init /\ [][Next]_vars
=============================================================================
