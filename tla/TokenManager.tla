---- MODULE TokenManager ----
(***************************************************************************)
(* pkg/auth: the JSON web tokens and the password hashes.  Pure: the only  *)
(* thing TokenManager reads besides its keys is the clock, passed here as  *)
(* an argument in whole seconds, the resolution of the "exp" claim.        *)
(*                                                                         *)
(* A signed token IS its claims: RS256 signatures are deterministic and    *)
(* the claims are only sub and exp, so two tokens of one user that expire  *)
(* in the same second are the same string.  Access and refresh tokens are  *)
(* signed alike and differ in their lifetime only.                         *)
(***************************************************************************)
EXTENDS Naturals

CONSTANTS Ids,          \* user ids (uuid.New never repeats one)
          Passwords,    \* plain-text passwords
          Unhashable,   \* the ones bcrypt refuses (longer than 72 bytes)
          AccessTTL, RefreshTTL,    \* 15 minutes and 7 days
          MaxTime,      \* bound: the last second of the model's clock
          None          \* Go's zero value: no row, no token, nil

ASSUME TokenAssumption ==
  /\ AccessTTL \in Nat /\ RefreshTTL \in Nat /\ MaxTime \in Nat
  /\ 0 < AccessTTL /\ AccessTTL < RefreshTTL
  /\ Unhashable \subseteq Passwords

Time == 0 .. MaxTime
Horizon == MaxTime + RefreshTTL

Token == [sub : Ids, exp : 0 .. Horizon]

\* The two tokens that Generate signs for user u at second t.
AccessToken(u, t) == [sub |-> u, exp |-> t + AccessTTL]
RefreshTokenTwice(u, t) == [sub |-> u, exp |-> t + 2 * RefreshTTL]
RefreshToken(u, t) == [sub |-> u, exp |-> t + RefreshTTL]

\* Verify: the signature holds (None stands for every string that is not a
\* token of this key) and the expiry is still ahead.
Verify(tok, t) == tok # None /\ t < tok.exp

(***************************************************************************)
(* bcrypt: a hash reveals nothing but whether a password is the one it was *)
(* made from.  The empty hash of a row rebuilt from the cache matches no   *)
(* password.                                                               *)
(***************************************************************************)
Hash == [of : Passwords \union {None}]
NoHash == [of |-> None]
HashPassword(w) == [of |-> w]
ComparePassword(h, w) == h = HashPassword(w)
====
