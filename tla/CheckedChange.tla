---------------------------- MODULE CheckedChange ----------------------------
(***************************************************************************)
(* What a member relies on when a preview of N changes is confirmed with    *)
(* one button: nothing happens before the confirmation or after a           *)
(* withdrawal; the changes begin one after the other, each only when all    *)
(* earlier ones took effect; each takes effect at most once; and once the   *)
(* run was stopped or has ended, no further change begins.  A change that   *)
(* had begun may still take effect then: Discord may carry out a request    *)
(* whose answer never came.                                                 *)
(***************************************************************************)
EXTENDS Integers

CONSTANTS
  Previews,
  N          \* changes of a preview, a positive number

VARIABLES
  phase,   \* of each preview: offered, approved or withdrawn
  begun,   \* how many of its changes have begun
  taken,   \* how often each of them took effect
  closed   \* no further change may begin

vars == <<phase, begun, taken, closed>>

Init ==
  /\ phase = [p \in Previews |-> "offered"]
  /\ begun = [p \in Previews |-> 0]
  /\ taken = [p \in Previews |-> [i \in 1..N |-> 0]]
  /\ closed = [p \in Previews |-> FALSE]

Approve(p) ==
  /\ phase[p] = "offered"
  /\ phase' = [phase EXCEPT ![p] = "approved"]
  /\ UNCHANGED <<begun, taken, closed>>

\* A restart withdraws every preview nobody has confirmed yet.
Withdraw(ps) ==
  /\ \A p \in ps : phase[p] = "offered"
  /\ phase' = [p \in Previews |-> IF p \in ps THEN "withdrawn" ELSE phase[p]]
  /\ UNCHANGED <<begun, taken, closed>>

Begin(p) ==
  /\ phase[p] = "approved" /\ ~closed[p]
  /\ begun[p] < N
  /\ \A i \in 1..begun[p] : taken[p][i] = 1
  /\ begun' = [begun EXCEPT ![p] = @ + 1]
  /\ UNCHANGED <<phase, taken, closed>>

TakeEffect(p) ==
  /\ begun[p] > 0 /\ taken[p][begun[p]] = 0
  /\ taken' = [taken EXCEPT ![p][begun[p]] = 1]
  /\ UNCHANGED <<phase, begun, closed>>

\* One restart closes every run it finds unfinished.
Close(ps) ==
  /\ \A p \in ps : phase[p] = "approved"
  /\ closed' = [p \in Previews |-> closed[p] \/ p \in ps]
  /\ UNCHANGED <<phase, begun, taken>>

Next ==
  \/ \E p \in Previews : Approve(p) \/ Begin(p) \/ TakeEffect(p)
  \/ \E ps \in SUBSET Previews : Withdraw(ps) \/ Close(ps)

Spec == Init /\ [][Next]_vars
=============================================================================
