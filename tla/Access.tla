------------------------------- MODULE Access -------------------------------
(***************************************************************************)
(* Who may do what: the role in a user's UserProfile row, if there is one, *)
(* and the three permission classes every API view uses.  A request looks  *)
(* at the row once, before the view reads anything else.                   *)
(***************************************************************************)
CONSTANTS
  User,       \* the users with an account
  Superuser,  \* those with is_superuser
  None

ASSUME SuperuserAssumption == Superuser \subseteq User

VARIABLES
  profile,  \* the role in the UserProfile row of each user, or None
  held,     \* history: every role a user ever had
  granted   \* history: who gave a user the role of the row, or last did

accessVars == <<profile, held, granted>>

Role == {"admin", "network_engineer", "read_only"}

ASSUME NobodyAssumption == None \notin User \cup Role

AccessTypeOK ==
  /\ profile \in [User -> Role \cup {None}]
  /\ held \subseteq User \X Role
  /\ granted \in [User -> User \cup {None}]
  /\ \A u \in User : profile[u] # None => <<u, profile[u]>> \in held

AccessInit ==
  /\ profile = [u \in User |-> None]
  /\ held = {}
  /\ granted = [u \in User |-> None]

\* Mutant: a role that was never given is not read_only.
NotReadOnly(u) == u \in Superuser \/ profile[u] # "read_only"

IsAdminOrNetworkEngineer(u) ==
  u \in Superuser \/ profile[u] \in {"admin", "network_engineer"}

\* Mutant: IsAdminOrNetworkEngineer in its place.
AnyEngineer(u) == IsAdminOrNetworkEngineer(u)

IsAdminOnly(u) == u \in Superuser \/ profile[u] = "admin"

\* Any user reads, also one without a profile.
ReadOnlyOrAbove(u, method) == method = "GET" \/ IsAdminOrNetworkEngineer(u)

Gives(u, v, role) ==
  /\ profile' = [profile EXCEPT ![v] = role]
  /\ held' = held \cup {<<v, role>>}
  /\ granted' = [granted EXCEPT ![v] = u]

\* The admin site, which superusers use: the one place where a profile is made,
\* since the API's serializer has no user to put into it.
AddProfile(u, v, role) ==
  /\ u \in Superuser
  /\ profile[v] = None
  /\ Gives(u, v, role)
=============================================================================
