-------------------------- MODULE FencedRegister --------------------------
(***************************************************************************)
(* What the request/attempt part of the semantic core promises its users.  *)
(* Each request is a write-once register guarded by a fencing token: every *)
(* attempt takes the next token, and the register is written at most once, *)
(* under the newest token that has been issued.  No token is issued after  *)
(* the write.                                                              *)
(***************************************************************************)
EXTENDS Integers

CONSTANTS Requests, Values, NULL

VARIABLES
  token,    \* the newest token issued for a request (0: none)
  value,    \* the value written for a request, or NULL
  writer    \* the token it was written under (0: none)

vars == <<token, value, writer>>

Init ==
  /\ token = [r \in Requests |-> 0]
  /\ value = [r \in Requests |-> NULL]
  /\ writer = [r \in Requests |-> 0]

Issue(r) ==
  /\ value[r] = NULL
  /\ token' = [token EXCEPT ![r] = @ + 1]
  /\ UNCHANGED <<value, writer>>

Write(r, v) ==
  /\ value[r] = NULL
  /\ token[r] > 0
  /\ value' = [value EXCEPT ![r] = v]
  /\ writer' = [writer EXCEPT ![r] = token[r]]
  /\ UNCHANGED token

Next == \E r \in Requests : Issue(r) \/ \E v \in Values : Write(r, v)

Spec == Init /\ [][Next]_vars
===========================================================================
