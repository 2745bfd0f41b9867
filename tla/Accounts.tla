------------------------------- MODULE Accounts -------------------------------
(***************************************************************************)
(* Accounts and tokens (internal/auth/service.go).  Accounts are kept in   *)
(* memory and numbered from 1; a token names the number of an account, and *)
(* nothing but the secret, which a restart keeps, decides whether it is    *)
(* accepted.  Register holds the mutex throughout.                         *)
(***************************************************************************)
EXTENDS Integers, Functions

CONSTANT People   \* who may register, each with one e-mail address

VARIABLES
  usersByID,   \* usersByID: number -> who registered
  userSeq,     \* seq: the last number given out
  tokens       \* <<holder, number>>: the tokens that have been issued

accounts == <<usersByID, userSeq, tokens>>

Put(f, x, y) == [z \in DOMAIN f \cup {x} |-> IF z = x THEN y ELSE f[z]]
Empty == [x \in {} |-> 0]

AccountsInit == usersByID = Empty /\ userSeq = 0 /\ tokens = {}

Register(p) ==
  /\ p \notin Range(usersByID)
  /\ userSeq' = userSeq + 1
  /\ usersByID' = Put(usersByID, userSeq', p)
  /\ UNCHANGED tokens

\* Login, with the right password.
Login(p) ==
  /\ \E n \in DOMAIN usersByID : usersByID[n] = p /\ tokens' = tokens \cup {<<p, n>>}
  /\ UNCHANGED <<usersByID, userSeq>>

\* The program is restarted: tokens are in the hands of their holders.
ForgetAccounts == usersByID' = Empty /\ userSeq' = 0 /\ UNCHANGED tokens

\* UserFromToken: a token is accepted if there is an account of its number.
Accepted(token) == token \in tokens /\ token[2] \in DOMAIN usersByID
===============================================================================
