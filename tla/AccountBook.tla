------------------------------ MODULE AccountBook ------------------------------
(* What the account tables promise, with every operation atomic: a login adds  *)
(* at most one row per identity, naming a user ties a new username to one      *)
(* unnamed row, and nothing else ever writes.                                  *)
CONSTANTS
  Id,   \* row ids, never used twice (uuid_generate_v4)
  Identity, Username

VARIABLES
  providers,   \* rows of user_providers: [id, who, user], user = NoUser until named
  users        \* rows of users: [id, username]

NoUser == "NoUser"

BookInit == providers = {} /\ users = {}

\* The first login of an identity.
Register(id, who) ==
  /\ \A p \in providers : p.id # id /\ p.who # who
  /\ providers' = providers \cup {[id |-> id, who |-> who, user |-> NoUser]}
  /\ UNCHANGED users

\* Naming the user of an unnamed row: both tables change in one step.
NameUser(p, u) ==
  /\ p \in providers /\ p.user = NoUser
  /\ \A other \in users : other.username # u.username /\ other.id # u.id
  /\ providers' = (providers \ {p}) \cup {[p EXCEPT !.user = u.id]}
  /\ users' = users \cup {u}

\* An operator removes a row.
Remove(p) == p \in providers /\ providers' = providers \ {p} /\ UNCHANGED users

BookNext ==
  \/ \E id \in Id, who \in Identity : Register(id, who)
  \/ \E p \in providers, id \in Id, name \in Username :
       NameUser(p, [id |-> id, username |-> name])
  \/ \E p \in providers : Remove(p)

BookSpec == BookInit /\ [][BookNext]_<<providers, users>>
================================================================================
