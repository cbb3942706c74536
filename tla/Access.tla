------------------------------- MODULE Access -------------------------------
(***************************************************************************)
(* Access tokens: what auth.rs signs and verifies, composed with Sessions. *)
(* issue_session reads the permissions of the user, signs both tokens and  *)
(* stores the refresh token; from then on the access token speaks for      *)
(* itself, and no request that presents it looks at the database.  Every   *)
(* action of Sessions occurs here with the clock and the claims added; a   *)
(* token is named by the request that issued it.  Times are seconds of one *)
(* clock.  A definition whose comment begins with FAULT is not used by     *)
(* Spec.                                                                   *)
(***************************************************************************)
EXTENDS Sessions

CONSTANTS
  Permission,   \* names of permissions
  Wildcard,     \* "*", the permission that grants every other
  Customer,     \* permissions of the role that register assigns
  Grant,        \* the sets of permissions that roles can add up to
  AccessTTL,    \* access_ttl_secs
  RefreshTTL,   \* refresh_ttl_secs
  Leeway,       \* seconds that decode allows after exp
  Patience,     \* the longest a request runs: TimeoutLayer
  MaxClock      \* bound of the clock

ASSUME AccessAssumption ==
  /\ Wildcard \in Permission
  /\ Grant \subseteq SUBSET Permission
  /\ {} \in Grant /\ Customer \in Grant
  /\ AccessTTL \in Nat /\ RefreshTTL \in Nat /\ Leeway \in Nat
  /\ Patience \in Nat
  /\ MaxClock \in Nat

VARIABLES
  now,         \* Utc::now()
  granted,     \* user_roles joined with role_permissions
  withdrawn,   \* history: when a user last lost a permission
  claims,      \* what a request has read and signed for the token it issues
  at           \* when a request in flight began, when a session ended

accessVars == <<now, granted, withdrawn, claims, at>>
allVars == <<vars, accessVars>>

Time == 0 .. MaxClock
Claims == [stage : {"none", "read", "signed"},
           perms : SUBSET Permission,
           iat   : Time]
NoClaims == [stage |-> "none", perms |-> {}, iat |-> 0]

AccessTypeOK ==
  /\ TypeOK
  /\ now \in Time
  /\ granted \in [User -> Grant]
  /\ withdrawn \in [User -> [Permission -> Time]]
  /\ claims \in [Request -> Claims]
  /\ at \in [Request -> Time]

AccessInit ==
  /\ Init
  /\ now = 0
  /\ granted \in [User -> Grant]
  /\ \A u \in User : ~account[u] => granted[u] = {}
  /\ withdrawn = [u \in User |-> [p \in Permission |-> 0]]
  /\ claims = [r \in Request |-> NoClaims]
  /\ at = [r \in Request |-> 0]

-----------------------------------------------------------------------------
InFlight(r) == pc[r] \notin {"idle", "done"}
Revokes(r) == op[r] \in {"logout", "reuse"}

\* has_permission
Grants(perms, p) == p \in perms \/ Wildcard \in perms

\* decode refuses a token once exp and the leeway are past.
Unexpired(t, ttl) == now <= claims[t].iat + ttl + Leeway

\* FAULT (WithdrawnInTime, SessionsEndInTime): both tokens get the lifetime of
\* the refresh token.
AcceptedForLong(t, p) ==
  /\ t \in Issued
  /\ Unexpired(t, RefreshTTL)
  /\ Grants(claims[t].perms, p)

\* AuthUser and require, for access token t on a route that needs p.
Accepted(t, p) ==
  /\ t \in Issued
  /\ Unexpired(t, AccessTTL)
  /\ Grants(claims[t].perms, p)

\* The user a request issues tokens to: of a refresh, the one in the row.
Owner(r) ==
  IF op[r] \in {"register", "login"} THEN who[r] ELSE who[FamilyOf(r)]

\* Of the answered requests only the times of those that end a session matter.
Clocked(r) ==
  at' = [at EXCEPT ![r] =
    IF pc'[r] = "done" /\ ~Revokes(r)' THEN 0
    ELSE IF pc[r] = "idle" \/ pc'[r] = "done" THEN now
    ELSE @]

\* A step of request r that touches no access token.
Step(r) ==
  /\ Clocked(r)
  /\ UNCHANGED <<now, granted, withdrawn, claims>>

-----------------------------------------------------------------------------
\* A refresh token that verify_refresh finds expired goes no further.
VerifyRefresh(r, t) ==
  /\ GetRefresh(r, t)
  /\ ~Unexpired(t, RefreshTTL) => pc'[r] = "done"
  /\ Step(r)

\* logout revokes the family of a token that verifies ...
VerifyLogout(r, t) ==
  /\ Unexpired(t, RefreshTTL)
  /\ Logout(r, t)
  /\ Step(r)

\* ... and answers 204 to any other.
IgnoreLogout(r, t) ==
  /\ pc[r] = "idle"
  /\ t \in Issued
  /\ MayUse(t)
  /\ ~Unexpired(t, RefreshTTL)
  /\ Answer(r, 204)
  /\ UNCHANGED <<account, token, inputs, victims>>
  /\ Step(r)

Issuing(r) == pc[r] \in {"storing", "opening", "minting"}

\* FAULT (WithdrawnInTime): a refresh copies the claims of the session's first
\* token instead of reading the permissions again.
CopyPermissions(r) ==
  /\ Issuing(r)
  /\ claims[r].stage = "none"
  /\ claims' = [claims EXCEPT ![r] =
       [stage |-> "read", iat |-> 0,
        perms |-> IF pc[r] = "storing" THEN Customer
                  ELSE IF pc[r] = "minting" THEN claims[FamilyOf(r)].perms
                  ELSE granted[Owner(r)]]]
  /\ UNCHANGED <<vars, now, granted, withdrawn, at>>

\* permissions(): the committed rows, and what register itself has inserted.
ReadPermissions(r) ==
  /\ Issuing(r)
  /\ claims[r].stage = "none"
  /\ claims' = [claims EXCEPT ![r] =
       [stage |-> "read", iat |-> 0,
        perms |-> IF pc[r] = "storing" THEN Customer ELSE granted[Owner(r)]]]
  /\ UNCHANGED <<vars, now, granted, withdrawn, at>>

\* issue_access and issue_refresh, once the answer of that query is here.
Sign(r) ==
  /\ Issuing(r)
  /\ claims[r].stage = "read"
  /\ claims' = [claims EXCEPT ![r] =
       [stage |-> "signed", iat |-> now, perms |-> @.perms]]
  /\ UNCHANGED <<vars, now, granted, withdrawn, at>>

\* assign_role, of the registration that commits.
AssignRole(r) == granted' = [granted EXCEPT ![who[r]] = Customer]

\* store_refresh, and the COMMIT of register and refresh.
StoreRefresh(r) ==
  /\ claims[r].stage = "signed"
  /\ \/ /\ CommitRegister(r)
        /\ AssignRole(r)
     \/ /\ OpenSession(r) \/ CommitRotation(r)
        /\ UNCHANGED granted
  /\ Clocked(r)
  /\ UNCHANGED <<now, withdrawn, claims>>

\* Somebody changes the roles of a user, with SQL: the servers have no
\* operation for it.
AssignRoles(u, perms) ==
  /\ account[u]
  /\ granted' = [granted EXCEPT ![u] = perms]
  /\ withdrawn' = [withdrawn EXCEPT ![u] = [p \in Permission |->
       IF Grants(granted[u], p) /\ ~Grants(perms, p) THEN now ELSE @[p]]]
  /\ UNCHANGED <<vars, now, claims, at>>

\* Time passes, but no request outlives its time-out.
Tick ==
  /\ now < MaxClock
  /\ \A r \in Request : InFlight(r) => now < at[r] + Patience
  /\ now' = now + 1
  /\ UNCHANGED <<vars, granted, withdrawn, claims, at>>

-----------------------------------------------------------------------------
Handle(r) ==
  \/ /\ \/ StartRegister(r) \/ FindByEmail(r)
        \/ CreateUser(r) \/ Greet(r) \/ MarkRefreshUsed(r)
        \/ RevokeFamily(r) \/ RevokeRows(r)
        \/ RevokeFails(r) \/ Fail(r)
     /\ Step(r)
  \/ \E t \in Request :
       VerifyRefresh(r, t) \/ VerifyLogout(r, t) \/ IgnoreLogout(r, t)
  \/ ReadPermissions(r) \/ Sign(r) \/ StoreRefresh(r)

AccessNext ==
  \/ \E r \in Request : Handle(r)
  \/ \E u \in User, perms \in Grant : AssignRoles(u, perms)
  \/ Tick

AccessSpec == AccessInit /\ [][AccessNext]_allVars

-----------------------------------------------------------------------------
\* Properties.

\* A permission that is taken from a user works no longer than one request and
\* the lifetime of an access token: whatever refreshes were under way when it
\* was taken, and however often the session is refreshed afterwards.
WithdrawnInTime ==
  \A t \in Issued, p \in Permission :
    Accepted(t, p) /\ ~Grants(granted[Owner(t)], p) =>
      now <= withdrawn[Owner(t)][p] + Patience + AccessTTL + Leeway

\* A session whose requests come one at a time has no working access token
\* later than the lifetime of one after its logout was answered, or the reuse
\* of a refresh token.
SessionsEndInTime ==
  \A r \in Request :
    pc[r] = "done" /\ (op[r] = "logout" \/ (op[r] = "reuse" /\ resp[r] = 401)) =>
      \A t \in Members(FamilyOf(r)), p \in Permission :
        Accepted(t, p) => now <= at[r] + AccessTTL + Leeway

-----------------------------------------------------------------------------
\* The inductive invariant behind WithdrawnInTime.

\* No request outlives its time-out, and nothing lies in the future.
TimesInOrder ==
  /\ \A r \in Request : InFlight(r) => at[r] <= now /\ now <= at[r] + Patience
  /\ \A r \in Request : claims[r].iat <= now
  /\ \A u \in User, p \in Permission : withdrawn[u][p] <= now

\* A request reads permissions when it has a user to issue tokens to, and
\* register those of the role it has just inserted.
ClaimsFitStep ==
  \A r \in Request :
    /\ pc[r] \in {"idle", "creating", "marking"} => claims[r].stage = "none"
    /\ pc[r] = "storing" /\ claims[r].stage # "none" =>
         claims[r].perms = Customer

\* The owner of a token never changes: it is a person who has signed in, or
\* the one of a session that exists.
OwnerKnown ==
  \A t \in Issued :
    op[t] \in {"register", "login"} \/ presented[t] \in Issued

RolesNeedAccount == \A u \in User : ~account[u] => granted[u] = {}

\* Permissions that a request has read were withdrawn, if at all, while the
\* request ran ...
ReadInTime ==
  \A r \in Request, p \in Permission :
    /\ pc[r] \in {"opening", "minting"}
    /\ claims[r].stage # "none"
    /\ Grants(claims[r].perms, p)
    /\ ~Grants(granted[Owner(r)], p)
    => at[r] <= withdrawn[Owner(r)][p]

\* ... so that no token is signed more than one request after a permission it
\* holds was withdrawn.
SignedInTime ==
  \A t \in Issued, p \in Permission :
    /\ Grants(claims[t].perms, p)
    /\ ~Grants(granted[Owner(t)], p)
    => claims[t].iat <= withdrawn[Owner(t)][p] + Patience

AccessIInv ==
  /\ IInv
  /\ AccessTypeOK
  /\ TimesInOrder
  /\ ClaimsFitStep
  /\ OwnerKnown
  /\ RolesNeedAccount
  /\ ReadInTime
  /\ SignedInTime

\* What SessionsEndInTime needs besides SerialInv and EndedWhole: a session
\* that has ended got its last token before.
EndedBefore ==
  \A r \in Request :
    pc[r] = "done" /\ Revokes(r) =>
      \A t \in Members(FamilyOf(r)) : claims[t].iat <= at[r]
=============================================================================
