------------------------------ MODULE Sessions ------------------------------
(***************************************************************************)
(* Registration, login, refresh-token rotation and logout: the handlers of *)
(* auth/handlers.rs, statement by statement, over the tables users and     *)
(* refresh_tokens.  The Go and Python servers run the same statements;     *)
(* where they answer otherwise the definition says so.                     *)
(*                                                                         *)
(* As in Checkout, the tables hold committed rows, and the pc of a request *)
(* tells which uncommitted writes and row locks it has.  Access tokens and *)
(* the clock come with module Access.  A token and the session it starts   *)
(* are named by the request that issued it.  A definition whose comment    *)
(* begins with FAULT is not used by Spec.                                  *)
(***************************************************************************)
EXTENDS Integers, FiniteSets

CONSTANTS
  User,      \* people, each with one e-mail address
  Request,   \* register, login, refresh and logout requests
  NoFamily,  \* family of a token that has not been issued
  Impl,      \* the server that runs: "rust", "go" or "python"
  Faults,    \* whether statements and connections may fail
  Serial     \* whether each session has one request in flight at most; a
             \* request is in flight until the database is done with it, and
             \* one that was answered 408 may be longer

ASSUME SessionsAssumption ==
  /\ NoFamily \notin Request
  /\ Impl \in {"rust", "go", "python"}
  /\ Faults \in BOOLEAN
  /\ Serial \in BOOLEAN

VARIABLES
  account,     \* users: which people have an account
  token,       \* refresh_tokens
  pc, resp,    \* per request: next statement, HTTP status
  op, who,     \* what the request is, and whose
  presented,   \* the refresh token it carries
  victims      \* rows its RevokeFamily statement found

vars == <<account, token, pc, resp, op, who, presented, victims>>
inputs == <<op, who, presented>>

Token == [family : Request \cup {NoFamily}, used : BOOLEAN, revoked : BOOLEAN]
NoToken == [family |-> NoFamily, used |-> FALSE, revoked |-> FALSE]
Fresh(f) == [family |-> f, used |-> FALSE, revoked |-> FALSE]

TypeOK ==
  /\ account \in [User -> BOOLEAN]
  /\ token \in [Request -> Token]
  /\ pc \in [Request -> {"idle", "creating", "storing", "greeting", "opening",
                         "marking", "minting", "revoking", "waiting", "done"}]
  /\ resp \in [Request -> {0, 200, 201, 204, 401, 409, 500}]
  /\ op \in [Request -> {"none", "register", "login", "refresh", "reuse",
                         "logout"}]
  /\ who \in [Request -> User]
  /\ presented \in [Request -> Request]
  /\ victims \in [Request -> SUBSET Request]

Init ==
  /\ account \in [User -> BOOLEAN]
  /\ token = [r \in Request |-> NoToken]
  /\ pc = [r \in Request |-> "idle"]
  /\ resp = [r \in Request |-> 0]
  /\ op = [r \in Request |-> "none"]
  /\ who \in [Request -> User]
  /\ presented = [r \in Request |-> r]
  /\ victims = [r \in Request |-> {}]

-----------------------------------------------------------------------------
Issued == {t \in Request : token[t].family # NoFamily}
FamilyOf(r) == token[presented[r]].family
Members(f) == {t \in Issued : token[t].family = f}
Live(t) == t \in Issued /\ ~token[t].used /\ ~token[t].revoked

Goto(r, step) == pc' = [pc EXCEPT ![r] = step]

Answer(r, code) ==
  /\ Goto(r, "done")
  /\ resp' = [resp EXCEPT ![r] = code]

\* FAULT (EveryRequestAnswered): the family is revoked on a second connection
\* while the request's own transaction holds the row it presented.
TokenFreeOfAll(t) ==
  \A q \in Request :
    ~(presented[q] = t /\ pc[q] \in {"minting", "waiting"})

\* A row that a refresh has marked is locked until that refresh is over.
TokenFree(t) ==
  \A q \in Request : ~(presented[q] = t /\ pc[q] = "minting")

\* The session of token t has no request in flight.
MayUse(t) ==
  Serial => \A q \in Request :
              pc[q] \notin {"idle", "done"} => FamilyOf(q) # token[t].family

-----------------------------------------------------------------------------
\* register

StartRegister(r) ==
  /\ pc[r] = "idle"
  /\ op' = [op EXCEPT ![r] = "register"]
  /\ Goto(r, "creating")
  /\ UNCHANGED <<account, token, resp, who, presented, victims>>

\* FAULT (RegisteredOnce): the table has no unique index on the address.
CreateAnyUser(r) ==
  /\ pc[r] = "creating"
  /\ Goto(r, "storing")
  /\ UNCHANGED <<account, token, resp, inputs, victims>>

\* INSERT INTO users: waits for a transaction that has inserted the address.
CreateUser(r) ==
  /\ pc[r] = "creating"
  /\ \A q \in Request : ~(who[q] = who[r] /\ pc[q] = "storing")
  /\ \/ /\ account[who[r]]
        /\ Answer(r, 409)
     \/ /\ ~account[who[r]]
        /\ Goto(r, "storing")
        /\ UNCHANGED resp
  /\ UNCHANGED <<account, token, inputs, victims>>

\* FAULT (AccountComesWithSession): the account is committed on its own, and
\* the session is opened afterwards.
CommitUserOnly(r) ==
  /\ pc[r] = "storing"
  /\ account' = [account EXCEPT ![who[r]] = TRUE]
  /\ Goto(r, "opening")
  /\ UNCHANGED <<token, resp, inputs, victims>>

\* The role and the first refresh token; COMMIT.
CommitRegister(r) ==
  /\ pc[r] = "storing"
  /\ account' = [account EXCEPT ![who[r]] = TRUE]
  /\ token' = [token EXCEPT ![r] = Fresh(r)]
  /\ Goto(r, "greeting")
  /\ UNCHANGED <<resp, inputs, victims>>

\* The roles are read back.  When that read fails (Go ignores it), or when the
\* connection was lost in the COMMIT, the answer is 500 with the account made.
Greet(r) ==
  /\ pc[r] = "greeting"
  /\ \E code \in IF Faults THEN {201, 500} ELSE {201} : Answer(r, code)
  /\ UNCHANGED <<account, token, inputs, victims>>

-----------------------------------------------------------------------------
\* login

\* find_by_email and the comparison of passwords.
FindByEmail(r) ==
  /\ pc[r] = "idle"
  /\ op' = [op EXCEPT ![r] = "login"]
  /\ \/ Answer(r, 401)
     \/ /\ account[who[r]]
        /\ Goto(r, "opening")
        /\ UNCHANGED resp
  /\ UNCHANGED <<account, token, who, presented, victims>>

\* issue_session outside a transaction: one INSERT.
OpenSession(r) ==
  /\ pc[r] = "opening"
  /\ token' = [token EXCEPT ![r] = Fresh(r)]
  /\ \E code \in IF Faults THEN {200, 500} ELSE {200} : Answer(r, code)
  /\ UNCHANGED <<account, inputs, victims>>

-----------------------------------------------------------------------------
\* refresh

\* verify_refresh and get_refresh: a token that is revoked, unknown, expired or
\* not signed is refused; a used one is a reuse.
GetRefresh(r, t) ==
  /\ pc[r] = "idle"
  /\ t \in Issued
  /\ MayUse(t)
  /\ presented' = [presented EXCEPT ![r] = t]
  /\ \/ /\ Answer(r, 401)
        /\ op' = [op EXCEPT ![r] = "refresh"]
     \/ /\ ~token[t].revoked /\ token[t].used
        /\ op' = [op EXCEPT ![r] = "reuse"]
        /\ Goto(r, "revoking")
        /\ UNCHANGED resp
     \/ /\ ~token[t].revoked /\ ~token[t].used
        /\ op' = [op EXCEPT ![r] = "refresh"]
        /\ Goto(r, "marking")
        /\ UNCHANGED resp
  /\ UNCHANGED <<account, token, who, victims>>

\* FAULT (OneLiveToken, ImplementsSessionBook): the mark is made on the pool,
\* outside the transaction.
MarkUsedAtOnce(r) ==
  /\ pc[r] = "marking"
  /\ TokenFree(presented[r])
  /\ token' = [token EXCEPT ![presented[r]].used = TRUE]
  /\ Goto(r, "minting")
  /\ UNCHANGED <<account, resp, inputs, victims>>

\* BEGIN; UPDATE refresh_tokens SET used = TRUE: waits for the row, does not
\* look at what it holds by then.
MarkRefreshUsed(r) ==
  /\ pc[r] = "marking"
  /\ TokenFree(presented[r])
  /\ Goto(r, "minting")
  /\ UNCHANGED <<account, token, resp, inputs, victims>>

\* FAULT (KnownTokensRevoked): the row is written back as it was checked, and
\* the row of a family that was revoked meanwhile is live again.
CommitStaleRow(r) ==
  /\ pc[r] = "minting"
  /\ token' = [token EXCEPT
       ![presented[r]] = [@ EXCEPT !.used = TRUE, !.revoked = FALSE],
       ![r] = Fresh(FamilyOf(r))]
  /\ Answer(r, 200)
  /\ UNCHANGED <<account, inputs, victims>>

\* FAULT (FamiliesAreRooted): the new token is stored with the presented token
\* as its family.
CommitChained(r) ==
  /\ pc[r] = "minting"
  /\ token' = [token EXCEPT ![presented[r]].used = TRUE,
                            ![r] = Fresh(presented[r])]
  /\ Answer(r, 200)
  /\ UNCHANGED <<account, inputs, victims>>

\* issue_session in the transaction; COMMIT.  A connection lost in the COMMIT
\* leaves its outcome unknown to the handler.
CommitRotation(r) ==
  /\ pc[r] = "minting"
  /\ token' = [token EXCEPT ![presented[r]].used = TRUE,
                            ![r] = Fresh(FamilyOf(r))]
  /\ \E code \in IF Faults THEN {200, 500} ELSE {200} : Answer(r, code)
  /\ UNCHANGED <<account, inputs, victims>>

-----------------------------------------------------------------------------
\* logout, and the revocation it shares with refresh

Logout(r, t) ==
  /\ pc[r] = "idle"
  /\ t \in Issued
  /\ MayUse(t)
  /\ op' = [op EXCEPT ![r] = "logout"]
  /\ presented' = [presented EXCEPT ![r] = t]
  /\ Goto(r, "revoking")
  /\ UNCHANGED <<account, token, resp, who, victims>>

\* UPDATE refresh_tokens SET revoked = TRUE WHERE family: the rows are those of
\* the statement's snapshot ...
RevokeFamily(r) ==
  /\ pc[r] = "revoking"
  /\ victims' = [victims EXCEPT ![r] = Members(FamilyOf(r))]
  /\ Goto(r, "waiting")
  /\ UNCHANGED <<account, token, resp, inputs>>

\* FAULT (LogoutEndsSession, ReuseEndsSession): WHERE jti instead of WHERE family.
RevokeOne(r) ==
  /\ pc[r] = "waiting"
  /\ TokenFree(presented[r])
  /\ token' = [token EXCEPT ![presented[r]].revoked = TRUE]
  /\ Answer(r, IF op[r] = "logout" THEN 204 ELSE 401)
  /\ UNCHANGED <<account, inputs, victims>>

\* ... and are written once no refresh has them locked.
RevokeRows(r) ==
  /\ pc[r] = "waiting"
  /\ \A t \in victims[r] : TokenFree(t)
  /\ token' = [t \in Request |->
                 IF t \in victims[r] THEN [token[t] EXCEPT !.revoked = TRUE]
                                     ELSE token[t]]
  /\ Answer(r, IF op[r] = "logout" THEN 204 ELSE 401)
  /\ UNCHANGED <<account, inputs, victims>>

\* The statement fails: logout hides it, and so does a refresh in Go.
RevokeFails(r) ==
  /\ Faults
  /\ pc[r] \in {"revoking", "waiting"}
  /\ Answer(r, IF op[r] = "logout" THEN 204
               ELSE IF Impl = "go" THEN 401 ELSE 500)
  /\ victims' = [victims EXCEPT ![r] = {}]
  /\ UNCHANGED <<account, token, inputs>>

\* Another statement fails; what the request wrote is rolled back.
Fail(r) ==
  /\ Faults
  /\ pc[r] \in {"creating", "storing", "opening", "marking", "minting"}
  /\ Answer(r, 500)
  /\ UNCHANGED <<account, token, inputs, victims>>

-----------------------------------------------------------------------------
Arrive(r) ==
  \/ StartRegister(r) \/ FindByEmail(r)
  \/ \E t \in Request : GetRefresh(r, t) \/ Logout(r, t)

Proceed(r) ==
  \/ CreateUser(r) \/ CommitRegister(r) \/ Greet(r) \/ OpenSession(r)
  \/ MarkRefreshUsed(r) \/ CommitRotation(r)
  \/ RevokeFamily(r) \/ RevokeRows(r)

Next ==
  \E r \in Request : Arrive(r) \/ Proceed(r) \/ RevokeFails(r) \/ Fail(r)

\* The server keeps running the requests it has accepted.
Fairness == \A r \in Request : WF_vars(Proceed(r))

Spec == Init /\ [][Next]_vars
FairSpec == Spec /\ Fairness

-----------------------------------------------------------------------------
\* Properties.

\* Two people who register one address at the same time do not both get it, and
\* the one who is refused is refused because the account exists.
RegisteredOnce ==
  /\ \A r \in Request : resp[r] = 409 => account[who[r]]
  /\ \A q, r \in Request :
       resp[q] = 201 /\ resp[r] = 201 /\ who[q] = who[r] => q = r

\* An account made by register always has the session register opened with it,
\* whatever fails: nobody is left with an address taken and no way to know.
AccountComesWithSession ==
  [][\A u \in User :
       account'[u] /\ ~account[u] =>
         \E r \in Request : who[r] = u /\ op[r] = "register"
                              /\ token'[r].family = r]_vars

\* However often and however concurrently a session is refreshed, all its tokens
\* are in the family of the registration or login it began with, which is what
\* a revocation looks for.
FamiliesAreRooted ==
  \A t \in Issued :
    /\ token[token[t].family].family = token[t].family
    /\ op[token[t].family] \in {"register", "login"}

\* A session whose requests come one at a time has exactly one live refresh
\* token until it is revoked, and none from then on.  In particular a client
\* that always presents its latest token is never signed out by the server.
OneLiveToken ==
  \A f \in Issued :
    LET live == {t \in Members(token[f].family) : Live(t)}
    IN IF \E t \in Members(token[f].family) : token[t].revoked
         THEN live = {} ELSE Cardinality(live) = 1

\* The request that logged out was answered: its session is over.
LogoutEndsSession ==
  \A r \in Request :
    pc[r] = "done" /\ op[r] = "logout" =>
      \A t \in Members(FamilyOf(r)) : ~Live(t)

\* The request that found its token used was answered 401: its session is over.
ReuseEndsSession ==
  \A r \in Request :
    op[r] = "reuse" /\ resp[r] = 401 =>
      \A t \in Members(FamilyOf(r)) : ~Live(t)

\* Whatever runs at the same time, the tokens a revocation found are revoked
\* when it is over, and stay so: no rotation undoes it.
KnownTokensRevoked ==
  \A r \in Request :
    pc[r] = "done" => \A t \in victims[r] : token[t].revoked

\* A refresh token buys one new session token.
RotatedOnce ==
  \A q, r \in Request :
    /\ op[q] = "refresh" /\ resp[q] = 200
    /\ op[r] = "refresh" /\ resp[r] = 200
    /\ presented[q] = presented[r]
    => q = r

\* Statement by statement, with the locks and failures of its transactions, the
\* service does for a session whose requests come one at a time what
\* SessionBook does in one step: no request sees or leaves a session with two
\* live tokens, or with none before it has ended, and none brings it back.
Book == INSTANCE SessionBook WITH
          Id <- Request, NoSession <- NoFamily,
          session <- [t \in Request |-> token[t].family],
          live <- {t \in Request : Live(t)}
ImplementsSessionBook == Book!Spec

\* Every request that reaches a handler is answered: nothing waits for ever for
\* an e-mail address or for the row of a token.
EveryRequestAnswered ==
  \A r \in Request : pc[r] # "idle" ~> pc[r] = "done"
-----------------------------------------------------------------------------
\* The inductive invariant behind FamiliesAreRooted, RegisteredOnce and
\* KnownTokensRevoked.

\* A request that has not finished has issued no token, except a registration
\* that has committed.
NotYetIssued ==
  \A r \in Request : pc[r] \notin {"greeting", "done"} => r \notin Issued

\* A token under check or under revocation has been issued, to a request that
\* came before.
PresentedIssued ==
  \A r \in Request :
    pc[r] \in {"marking", "minting", "revoking", "waiting"} =>
      presented[r] \in Issued

\* What a revocation has found it keeps, and what it found was issued.
VictimsKept ==
  \A r \in Request :
    /\ victims[r] \subseteq Issued
    /\ pc[r] \notin {"waiting", "done"} => victims[r] = {}

\* The kind of a request fits its step.
OpFitsStep ==
  \A r \in Request :
    /\ pc[r] \in {"creating", "storing", "greeting"} => op[r] = "register"
    /\ pc[r] = "opening" => op[r] = "login"

\* One transaction at a time holds an address, and none once it is taken; of
\* the registrations that have it only one got it.
AddressTaken ==
  \A q, r \in Request :
    /\ pc[r] = "storing" => ~account[who[r]]
    /\ pc[r] = "greeting" \/ resp[r] = 201 => account[who[r]]
    /\ q # r /\ who[q] = who[r] =>
         /\ ~(pc[q] = "storing" /\ pc[r] = "storing")
         /\ ~(/\ pc[q] = "greeting" \/ resp[q] = 201
              /\ pc[r] = "greeting" \/ resp[r] = 201)

IInv ==
  /\ TypeOK
  /\ NotYetIssued
  /\ PresentedIssued
  /\ VictimsKept
  /\ OpFitsStep
  /\ AddressTaken
  /\ FamiliesAreRooted
  /\ RegisteredOnce
  /\ KnownTokensRevoked

-----------------------------------------------------------------------------
\* The inductive invariant behind OneLiveToken, and with no failures behind
\* LogoutEndsSession and ReuseEndsSession, when the requests of a session come
\* one at a time.

Using(r) == pc[r] \in {"marking", "minting", "revoking", "waiting"}

OneAtATime ==
  \A q, r \in Request :
    Using(q) /\ Using(r) /\ FamilyOf(q) = FamilyOf(r) => q = r

\* What a refresh has checked is still so when it commits.
RotatesLive ==
  \A r \in Request :
    pc[r] \in {"marking", "minting"} => op[r] = "refresh" /\ Live(presented[r])

\* What a revocation has found is still the whole session when it writes.
FindsFamily ==
  \A r \in Request :
    pc[r] = "waiting" => victims[r] = Members(FamilyOf(r))

RevokedWhole ==
  \A s, t \in Issued :
    token[s].family = token[t].family /\ token[s].revoked => token[t].revoked

LiveUnique ==
  \A s, t \in Issued :
    token[s].family = token[t].family /\ Live(s) /\ Live(t) => s = t

LiveExists ==
  \A t \in Issued :
    ~token[t].revoked =>
      \E s \in Issued : token[s].family = token[t].family /\ Live(s)

SerialInv ==
  /\ OneAtATime
  /\ RotatesLive
  /\ FindsFamily
  /\ RevokedWhole
  /\ LiveUnique
  /\ LiveExists

\* Whoever has signed in with a password has an account.
SignedInKnown == \A r \in Request : pc[r] = "opening" => account[who[r]]

\* A request that has revoked a session has revoked all of it.
EndedWhole ==
  \A r \in Request :
    /\ pc[r] = "idle" => op[r] = "none"
    /\ pc[r] # "done" => resp[r] = 0
    /\ pc[r] = "done" /\ op[r] \in {"logout", "reuse"} =>
         /\ presented[r] \in Issued
         /\ \A t \in Members(FamilyOf(r)) : token[t].revoked
=============================================================================
