----------------------------- MODULE UsageLedger -----------------------------
(***************************************************************************)
(* What the gateway promises about metering, without how it keeps the      *)
(* promise: an append-only ledger and the usage figures drawn from it.  A  *)
(* call is answered once.  It is answered either together with the one     *)
(* ledger entry and the one unit of usage that bill it, or without a trace *)
(* in either.                                                              *)
(***************************************************************************)
EXTENDS Naturals, Sequences

CONSTANTS Calls, Tenants, Entries

VARIABLES ledger, usage, answered

vars == <<ledger, usage, answered>>

Init ==
    /\ ledger = <<>>
    /\ usage = [t \in Tenants |-> 0]
    /\ answered = {}

Bill(r, e) ==
    /\ r \notin answered
    /\ answered' = answered \cup {r}
    /\ ledger' = Append(ledger, e)
    /\ usage' = [usage EXCEPT ![e.tenant] = @ + 1]

AnswerFree(r) ==
    /\ r \notin answered
    /\ answered' = answered \cup {r}
    /\ UNCHANGED <<ledger, usage>>

Next == \E r \in Calls : AnswerFree(r) \/ \E e \in Entries : Bill(r, e)

Spec == Init /\ [][Next]_vars
=============================================================================
