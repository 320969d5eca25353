---- MODULE MCUserService ----
(***************************************************************************)
(* Small instances of UserService for TLC.                                 *)
(***************************************************************************)
EXTENDS UserService, TLC

CONSTANTS alice, aliceCased, bob    \* names: a spelling of alice's in capitals

\* One seeded account, whose email and username are both spelled alice.
SeedAlice ==
  [i \in Ids |-> IF i = CHOOSE x \in Ids : TRUE
                 THEN [id |-> i, email |-> alice, username |-> alice,
                       hash |-> HashPassword(CHOOSE w \in Passwords \ Unhashable : TRUE)]
                 ELSE None]

SeedNone == [i \in Ids |-> None]

\* citext: aliceCased is alice in other letters.
FoldCase ==
  [x \in Emails \union Usernames |-> IF x = aliceCased THEN alice ELSE x]

ProcSymmetry == Permutations(Procs)
====
