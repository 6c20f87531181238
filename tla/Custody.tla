------------------------------ MODULE Custody -------------------------------
(***************************************************************************)
(* What the wallet promises its users, with no accounts, transactions,     *)
(* timestamps or nonces: every user has a balance of every asset, and it   *)
(* shrinks only by a payment the user ordered, once, to the payee and of   *)
(* the amount the order names, or by the user's current withdrawer.        *)
(***************************************************************************)
EXTENDS Interaction

CONSTANTS SolDecimals, MintDecimals

VARIABLES
  issued,      \* the requests Discord has signed
  used,        \* those among them that have taken effect; opening is not counted
  opened,      \* the users who have a wallet
  withdrawer,  \* the withdrawer of each user, ZeroAddress until there is one
  balance,     \* what each user's vault holds of each asset
  authority    \* who authorised the last step: a request, a withdrawer or None

cvars == <<issued, used, opened, withdrawer, balance, authority>>

Assets == {Sol} \cup Mints
Decimals(asset) == IF asset = Sol THEN SolDecimals ELSE MintDecimals[asset]

CustodyInit ==
  /\ used = {}
  /\ opened = {}
  /\ withdrawer = [u \in Users |-> ZeroAddress]
  /\ authority = None

(* A command is an interaction that a user ran in a guild: not one Discord *)
(* signed only to offer choices.                                           *)
Commanded(c, name) ==
  /\ c \in issued
  /\ c.body.type = APPLICATION_COMMAND /\ c.body.guild /\ c.body.name = name

BalancesOnlyRise ==
  \A u \in Users, x \in Assets : balance'[u][x] >= balance[u][x]

(* Requests get signed, and anybody may add to a balance.                  *)
Outside ==
  /\ authority' = None
  /\ issued \subseteq issued'
  /\ BalancesOnlyRise
  /\ UNCHANGED <<used, opened, withdrawer>>

(* A user gets a wallet, once; an empty vault may come with lamports.      *)
Open(c) ==
  /\ authority' = c
  /\ Commanded(c, "wallet_init")
  /\ c.body.user \notin opened
  /\ opened' = opened \cup {c.body.user}
  /\ BalancesOnlyRise
  /\ \A u \in Users, x \in Assets :
       u # c.body.user \/ x # Sol \/ balance[u][x] # 0 => balance'[u][x] = balance[u][x]
  /\ UNCHANGED <<issued, used, withdrawer>>

Appoint(c) ==
  /\ authority' = c
  /\ Commanded(c, "set_withdrawer")
  /\ c.body.user \in opened
  /\ c \notin used
  /\ used' = used \cup {c}
  /\ c.body.wallet \in Addresses
  /\ withdrawer' = [withdrawer EXCEPT ![c.body.user] = c.body.wallet]
  /\ UNCHANGED <<issued, opened, balance>>

(* The user whose vault a payment goes to, if any: the payee named, or the *)
(* one whose vault address was named.                                      *)
IsPayee(to, v) == to = v \/ to = VaultOf(v)

(* n of asset x leave u's balance and enter that of the user who is paid.  *)
(* Who pays himself keeps what he had.                                     *)
Transferred(u, x, n, to) ==
  [v \in Users |-> [y \in Assets |->
     IF y # x THEN balance[v][y]
     ELSE balance[v][y] - (IF v = u THEN n ELSE 0) + (IF IsPayee(to, v) THEN n ELSE 0)]]

Pay(c) ==
  /\ authority' = c
  /\ Commanded(c, "transfer")
  /\ c.body.user \in opened
  /\ c \notin used
  /\ used' = used \cup {c}
  /\ c.body.tkn \in Assets /\ c.body.amt # None /\ c.body.to # None
  /\ \E n \in ToBaseUnits(c.body.amt, Decimals(c.body.tkn)) :
       /\ n <= balance[c.body.user][c.body.tkn]
       /\ balance' = Transferred(c.body.user, c.body.tkn, n, c.body.to)
  /\ UNCHANGED <<issued, opened, withdrawer>>

(* The withdrawer of the moment takes any part of a balance, anywhere.     *)
Exit(u, x) ==
  /\ withdrawer[u] # ZeroAddress
  /\ authority' = withdrawer[u]
  /\ \E to \in Addresses : \E n \in 0..balance[u][x] :
       balance' = Transferred(u, x, n, to)
  /\ UNCHANGED <<issued, used, opened, withdrawer>>

CustodyNext ==
  \/ Outside
  \/ \E c \in issued : Open(c) \/ Appoint(c) \/ Pay(c)
  \/ \E u \in Users, x \in Assets : Exit(u, x)

CustodySpec == CustodyInit /\ [][CustodyNext]_cvars

=============================================================================
