---- MODULE SessionLifecycle ----
(***************************************************************************)
(* What the user service promises about refresh tokens, free of handlers,  *)
(* clocks and failures: a token is issued once, either to a login or in    *)
(* exchange for a token that is already revoked, and it ends revoked.      *)
(***************************************************************************)
CONSTANTS Token, None
VARIABLES status,   \* status[t]: "absent", "live" or "revoked"
          origin    \* origin[t]: the token t was exchanged for, or None

Init ==
  /\ status = [t \in Token |-> "absent"]
  /\ origin = [t \in Token |-> None]

\* A login issues t.
Open(t) ==
  /\ status[t] = "absent"
  /\ status' = [status EXCEPT ![t] = "live"]
  /\ UNCHANGED origin

\* t replaces the revoked token o.
Rotate(o, t) ==
  /\ status[o] = "revoked"
  /\ status[t] = "absent"
  /\ status' = [status EXCEPT ![t] = "live"]
  /\ origin' = [origin EXCEPT ![t] = o]

\* A refresh or a logout revokes t.
Revoke(t) ==
  /\ status[t] = "live"
  /\ status' = [status EXCEPT ![t] = "revoked"]
  /\ UNCHANGED origin

Next ==
  \E t \in Token : Open(t) \/ Revoke(t) \/ \E o \in Token : Rotate(o, t)

Spec == Init /\ [][Next]_<<status, origin>>
====
