---------------------------- MODULE AccessProofs ----------------------------
(***************************************************************************)
(* Proofs about Access, for any people, requests, permissions, lifetimes   *)
(* and time-out, with concurrent requests and failures or without: a       *)
(* permission that is withdrawn stops working in time.  The argument is    *)
(* the inductive invariant AccessIInv.  The steps of a request that touch  *)
(* no access token differ only in what Quiet says of them, those that      *)
(* store a token in what Issues says; the parts of AccessIInv follow from  *)
(* these two descriptions.  The last part brings the sessions whose        *)
(* requests come one at a time, SerialInv and EndedWhole, under the clock. *)
(***************************************************************************)
EXTENDS Access, SerialSessionsProofs

\* What the rows and inputs of other requests keep in every step: a token that
\* was issued stays in its family, a request that has begun keeps its inputs.
Kept(r) ==
  /\ \A t \in Issued : t \in Issued' /\ token'[t].family = token[t].family
  /\ \A q \in Request :
       pc[q] # "idle" => op'[q] = op[q] /\ presented'[q] = presented[q]
  /\ \A q \in Request \ {r} : pc'[q] = pc[q]
  /\ who' = who

\* A step of r that issues no token.
Quiet(r) ==
  /\ Kept(r)
  /\ Issued' = Issued
  /\ account' = account
  /\ pc[r] # "done" /\ pc'[r] # "idle"
  /\ pc'[r] \in {"creating", "marking"} => pc[r] = "idle"
  /\ pc'[r] = "storing" => pc[r] = "creating"
  /\ pc'[r] \in {"opening", "minting"} => pc[r] \in {"idle", "marking"}

\* A step of r that stores a token.
Issues(r) ==
  /\ Kept(r)
  /\ Issuing(r)
  /\ Issued' = Issued \cup {r}
  /\ pc'[r] \in {"greeting", "done"}
  /\ pc[r] = "storing" => account' = [account EXCEPT ![who[r]] = TRUE]
  /\ pc[r] # "storing" => account' = account

-----------------------------------------------------------------------------
\* The steps of Sessions, described.

\* An ignored logout keeps the invariant of Sessions, whose Logout it replaces.
LEMMA IgnoreLogoutIInv ==
  ASSUME IInv, NEW r \in Request, NEW t \in Request, IgnoreLogout(r, t)
  PROVE  IInv'
<1> USE SessionsAssumption DEF IgnoreLogout, Goto, Answer, inputs
<1>1. TypeOK'
  BY DEF IInv, TypeOK, Token, NoToken, Fresh
<1>2. NotYetIssued'
  BY DEF IInv, TypeOK, NotYetIssued, Issued, Fresh
<1>3. PresentedIssued'
  BY DEF IInv, TypeOK, PresentedIssued, Issued, Fresh
<1>4. VictimsKept'
  BY DEF IInv, TypeOK, VictimsKept, Issued, Members, Fresh
<1>5. OpFitsStep' /\ AddressTaken'
  BY DEF IInv, TypeOK, OpFitsStep, AddressTaken
<1>6. FamiliesAreRooted'
  BY DEF IInv, TypeOK, FamiliesAreRooted, Issued, Fresh, NotYetIssued
<1>7. RegisteredOnce'
  BY DEF IInv, TypeOK, RegisteredOnce, AddressTaken
<1>8. KnownTokensRevoked'
  BY DEF IInv, TypeOK, KnownTokensRevoked, VictimsKept, NotYetIssued, Issued
<1>9. QED
  BY <1>1, <1>2, <1>3, <1>4, <1>5, <1>6, <1>7, <1>8 DEF IInv

\* The arrival of a request and the statements before its COMMIT.
LEMMA QuietMoves ==
  ASSUME IInv, NEW r \in Request,
         \/ StartRegister(r) \/ FindByEmail(r) \/ CreateUser(r) \/ Greet(r)
         \/ MarkRefreshUsed(r) \/ RevokeFamily(r) \/ RevokeFails(r) \/ Fail(r)
         \/ \E t \in Request :
              GetRefresh(r, t) \/ Logout(r, t) \/ IgnoreLogout(r, t)
  PROVE  Quiet(r)
<1> USE DEF Goto, Answer, inputs
<1> DEFINE Moves ==
             /\ token' = token /\ account' = account /\ who' = who
             /\ \A q \in Request \ {r} :
                  /\ op'[q] = op[q] /\ presented'[q] = presented[q]
                  /\ pc'[q] = pc[q]
             /\ pc[r] # "idle" => op'[r] = op[r] /\ presented'[r] = presented[r]
             /\ pc[r] # "done" /\ pc'[r] # "idle"
             /\ pc'[r] \in {"creating", "marking"} => pc[r] = "idle"
             /\ pc'[r] = "storing" => pc[r] = "creating"
             /\ pc'[r] \in {"opening", "minting"} => pc[r] \in {"idle", "marking"}
<1>1. StartRegister(r) => Moves
  BY DEF StartRegister, IInv, TypeOK
<1>2. FindByEmail(r) => Moves
  BY DEF FindByEmail, IInv, TypeOK
<1>3. CreateUser(r) => Moves
  BY DEF CreateUser, IInv, TypeOK
<1>4. Greet(r) => Moves
  BY DEF Greet, IInv, TypeOK
<1>5. MarkRefreshUsed(r) => Moves
  BY DEF MarkRefreshUsed, IInv, TypeOK
<1>6. RevokeFamily(r) => Moves
  BY DEF RevokeFamily, IInv, TypeOK
<1>7. RevokeFails(r) => Moves
  BY DEF RevokeFails, IInv, TypeOK
<1>8. Fail(r) => Moves
  BY DEF Fail, IInv, TypeOK
<1>9. ASSUME NEW t \in Request, GetRefresh(r, t) PROVE Moves
  BY <1>9 DEF GetRefresh, IInv, TypeOK
<1>10. ASSUME NEW t \in Request, Logout(r, t) PROVE Moves
  BY <1>10 DEF Logout, IInv, TypeOK
<1>11. ASSUME NEW t \in Request, IgnoreLogout(r, t) PROVE Moves
  BY <1>11 DEF IgnoreLogout, IInv, TypeOK
<1>12. Moves => Quiet(r)
  BY DEF Quiet, Kept, Issued
<1>13. Moves
  BY <1>1, <1>2, <1>3, <1>4, <1>5, <1>6, <1>7, <1>8, <1>9, <1>10, <1>11
<1>14. QED
  BY <1>12, <1>13

\* A revocation is committed.
LEMMA RevokeRowsQuiet ==
  ASSUME IInv, NEW r \in Request, RevokeRows(r)
  PROVE  Quiet(r)
<1>1. \A t \in Request : token'[t].family = token[t].family
  <2> SUFFICES ASSUME NEW t \in Request
               PROVE  token'[t].family = token[t].family
    OBVIOUS
  <2>1. token[t] \in Token
    BY DEF IInv, TypeOK
  <2>2. [token[t] EXCEPT !.revoked = TRUE].family = token[t].family
    BY <2>1 DEF Token
  <2>3. QED
    BY <2>1, <2>2 DEF RevokeRows
<1>2. Issued' = Issued
  BY <1>1 DEF Issued
<1>3. /\ account' = account /\ who' = who /\ op' = op /\ presented' = presented
      /\ pc[r] = "waiting" /\ pc' = [pc EXCEPT ![r] = "done"]
  BY DEF RevokeRows, Answer, Goto, inputs
<1>4. QED
  BY <1>1, <1>2, <1>3 DEF Quiet, Kept, IInv, TypeOK, Issued

\* The three steps that store a token.
LEMMA StoreIssues ==
  ASSUME IInv, NEW r \in Request,
         CommitRegister(r) \/ OpenSession(r) \/ CommitRotation(r)
  PROVE  Issues(r)
<1>1. pc[r] \in {"storing", "opening", "minting"} /\ r \notin Issued
  BY DEF CommitRegister, OpenSession, CommitRotation, IInv, NotYetIssued
<1>2. /\ who' = who /\ op' = op /\ presented' = presented
      /\ \E step \in {"greeting", "done"} : pc' = [pc EXCEPT ![r] = step]
      /\ pc[r] = "storing" => account' = [account EXCEPT ![who[r]] = TRUE]
      /\ pc[r] # "storing" => account' = account
  BY DEF CommitRegister, OpenSession, CommitRotation, Answer, Goto, inputs
<1>3. /\ token'[r].family # NoFamily
      /\ \A t \in Request \ {r} : token'[t].family = token[t].family
  <2>1. CASE CommitRegister(r) \/ OpenSession(r)
    BY <2>1, SessionsAssumption
    DEF CommitRegister, OpenSession, Fresh, IInv, TypeOK
  <2>2. CASE CommitRotation(r)
    <3> DEFINE s == presented[r]
               spent == [token[s] EXCEPT !.used = TRUE]
               new == Fresh(FamilyOf(r))
    <3>1. s \in Issued /\ s \in Request /\ s # r
      BY <1>1, <2>2 DEF CommitRotation, IInv, PresentedIssued, Issued
    <3>2. /\ token' = [token EXCEPT ![s] = spent, ![r] = new]
          /\ token \in [Request -> Token]
      BY <2>2 DEF CommitRotation, IInv, TypeOK
    <3>3. spent.family = token[s].family /\ new.family = token[s].family
      BY <3>1, <3>2 DEF Token, Fresh, FamilyOf
    <3>4. token[s].family # NoFamily
      BY <3>1 DEF Issued
    <3> HIDE DEF s, spent, new
    <3>5. QED
      BY <3>1, <3>2, <3>3, <3>4
  <2>3. QED
    BY <2>1, <2>2
<1>4. Issued' = Issued \cup {r}
  BY <1>3 DEF Issued
<1>5. \A t \in Issued : t \in Issued' /\ token'[t].family = token[t].family
  BY <1>1, <1>3, <1>4 DEF Issued
<1>6. /\ pc'[r] \in {"greeting", "done"}
      /\ \A q \in Request \ {r} : pc'[q] = pc[q]
  BY <1>2 DEF IInv, TypeOK
<1>7. QED
  BY <1>1, <1>2, <1>4, <1>5, <1>6 DEF Issues, Kept, Issuing

-----------------------------------------------------------------------------
\* The parts of AccessIInv.

\* A permission set grants a permission of a smaller set.
LEMMA GrantsNothing ==
  ASSUME NEW p \in Permission
  PROVE  ~Grants({}, p)
BY DEF Grants

\* The user a request issues tokens to is known once it is past its arrival.
LEMMA OwnerIsUser ==
  ASSUME IInv, NEW q \in Request,
         op[q] \in {"register", "login"} \/ presented[q] \in Issued
  PROVE  Owner(q) \in User
<1>1. CASE op[q] \in {"register", "login"}
  BY <1>1 DEF Owner, IInv, TypeOK
<1>2. CASE presented[q] \in Issued /\ op[q] \notin {"register", "login"}
  <2>1. token[presented[q]].family \in Request
    BY <1>2 DEF IInv, TypeOK, Token, Issued
  <2>2. QED
    BY <1>2, <2>1 DEF Owner, FamilyOf, IInv, TypeOK
<1>3. QED
  BY <1>1, <1>2

\* ... and stays the same.
LEMMA OwnerStays ==
  ASSUME NEW r \in Request, Kept(r), NEW q \in Request, pc[q] # "idle",
         op[q] \in {"register", "login"} \/ presented[q] \in Issued
  PROVE  Owner(q)' = Owner(q)
<1>1. op'[q] = op[q] /\ presented'[q] = presented[q] /\ who' = who
  BY DEF Kept
<1>2. presented[q] \in Issued =>
        token'[presented[q]].family = token[presented[q]].family
  BY DEF Kept
<1>3. QED
  BY <1>1, <1>2 DEF Owner, FamilyOf

\* What is known of the owner of an issued token, and of a request that is
\* about to issue one.
LEMMA OwnersKnown ==
  ASSUME IInv, OwnerKnown
  PROVE  \A q \in Request :
           q \in Issued \/ pc[q] \in {"storing", "opening", "minting"} =>
             /\ pc[q] # "idle"
             /\ op[q] \in {"register", "login"} \/ presented[q] \in Issued
             /\ Owner(q) \in User
<1> SUFFICES ASSUME NEW q \in Request,
                    q \in Issued \/ pc[q] \in {"storing", "opening", "minting"}
             PROVE  /\ pc[q] # "idle"
                    /\ op[q] \in {"register", "login"} \/ presented[q] \in Issued
  BY OwnerIsUser
<1>1. CASE q \in Issued
  BY <1>1 DEF IInv, NotYetIssued, OwnerKnown
<1>2. CASE pc[q] \in {"storing", "opening", "minting"}
  BY <1>2 DEF IInv, PresentedIssued, OpFitsStep
<1>3. QED
  BY <1>1, <1>2

\* The time of a request that moves: its arrival while it is in flight.
LEMMA ClockedTimes ==
  ASSUME AccessTypeOK, TimesInOrder, NEW r \in Request,
         Clocked(r), now' = now, claims' = claims, withdrawn' = withdrawn,
         \A q \in Request \ {r} : pc'[q] = pc[q],
         pc[r] # "done" \/ pc'[r] = "done"
  PROVE  /\ TimesInOrder'
         /\ at' \in [Request -> Time]
         /\ \A q \in Request : InFlight(q) /\ InFlight(q)' => at'[q] = at[q]
<1>1. /\ 0 \in Time /\ now \in Time /\ at \in [Request -> Time]
      /\ now \in Int /\ \A q \in Request : at[q] \in Int
      /\ Patience \in Nat
  BY AccessAssumption DEF AccessTypeOK, Time
<1>2. PICK a \in Time :
        /\ at' = [at EXCEPT ![r] = a]
        /\ pc'[r] # "done" /\ pc[r] = "idle" => a = now
        /\ pc'[r] # "done" /\ pc[r] # "idle" => a = at[r]
  <2> DEFINE a == IF pc'[r] = "done" /\ ~Revokes(r)' THEN 0
                  ELSE IF pc[r] = "idle" \/ pc'[r] = "done" THEN now
                  ELSE at[r]
  <2>1. a \in Time
    BY <1>1
  <2>2. at' = [at EXCEPT ![r] = a]
    BY DEF Clocked
  <2>3. QED
    BY <2>1, <2>2
<1>3. at' \in [Request -> Time]
  BY <1>1, <1>2
<1>4. \A q \in Request : InFlight(q) /\ InFlight(q)' => at'[q] = at[q]
  BY <1>1, <1>2 DEF InFlight
<1>5. ASSUME NEW q \in Request, InFlight(q)'
      PROVE  at'[q] <= now' /\ now' <= at'[q] + Patience
  <2>1. CASE InFlight(q)
    BY <1>4, <1>5, <2>1 DEF TimesInOrder
  <2>2. CASE ~InFlight(q)
    <3>1. q = r /\ pc[r] = "idle" /\ at'[q] = now
      BY <1>1, <1>2, <1>5, <2>2 DEF InFlight
    <3>2. QED
      BY <1>1, <3>1
  <2>3. QED
    BY <2>1, <2>2
<1>6. TimesInOrder'
  BY <1>5 DEF TimesInOrder
<1>7. QED
  BY <1>3, <1>4, <1>6

\* A step of a request that touches no access token.
LEMMA QuietIInv ==
  ASSUME AccessIInv, IInv', NEW r \in Request, Quiet(r), Step(r)
  PROVE  AccessIInv'
<1>1. /\ now' = now /\ granted' = granted /\ withdrawn' = withdrawn
      /\ claims' = claims /\ Clocked(r)
  BY DEF Step
<1>2. /\ Issued' = Issued /\ account' = account /\ Kept(r)
      /\ \A q \in Request \ {r} : pc'[q] = pc[q]
  BY DEF Quiet, Kept
<1>3. /\ TimesInOrder' /\ at' \in [Request -> Time]
      /\ \A q \in Request : InFlight(q) /\ InFlight(q)' => at'[q] = at[q]
  BY <1>1, <1>2, ClockedTimes DEF AccessIInv, Quiet
<1>4. AccessTypeOK'
  BY <1>1, <1>3 DEF AccessIInv, AccessTypeOK, IInv
<1>5. ClaimsFitStep'
  <2> SUFFICES ASSUME NEW q \in Request
               PROVE  /\ pc'[q] \in {"idle", "creating", "marking"} =>
                           claims[q].stage = "none"
                      /\ pc'[q] = "storing" /\ claims[q].stage # "none" =>
                           claims[q].perms = Customer
    BY <1>1 DEF ClaimsFitStep
  <2>1. CASE q # r
    BY <1>2, <2>1 DEF AccessIInv, ClaimsFitStep
  <2>2. CASE q = r
    BY <2>2 DEF AccessIInv, ClaimsFitStep, Quiet
  <2>3. QED
    BY <2>1, <2>2
<1>6. OwnerKnown'
  <2>1. \A t \in Issued :
          t \in Request /\ op'[t] = op[t] /\ presented'[t] = presented[t]
    BY OwnersKnown DEF AccessIInv, Quiet, Kept, Issued
  <2>2. QED
    BY <1>2, <2>1 DEF AccessIInv, OwnerKnown
<1>7. RolesNeedAccount'
  BY <1>1, <1>2 DEF AccessIInv, RolesNeedAccount
<1>8. ReadInTime'
  <2> SUFFICES ASSUME NEW q \in Request, NEW p \in Permission,
                      pc'[q] \in {"opening", "minting"},
                      claims[q].stage # "none",
                      Grants(claims[q].perms, p),
                      ~Grants(granted[Owner(q)'], p)
               PROVE  at'[q] <= withdrawn[Owner(q)'][p]
    BY <1>1 DEF ReadInTime
  <2>1. pc[q] \in {"opening", "minting"}
    <3>1. q # r => pc[q] = pc'[q]
      BY <1>2
    <3>2. q = r => pc[q] \in {"idle", "marking"}
      BY DEF Quiet
    <3>3. QED
      BY <3>1, <3>2 DEF AccessIInv, ClaimsFitStep
  <2>2. Owner(q)' = Owner(q)
    BY <1>2, <2>1, OwnersKnown, OwnerStays DEF AccessIInv
  <2>3. at'[q] = at[q]
    BY <1>3, <2>1 DEF InFlight
  <2>4. QED
    BY <2>1, <2>2, <2>3 DEF AccessIInv, ReadInTime
<1>9. SignedInTime'
  <2>1. \A t \in Issued : t \in Request /\ Owner(t)' = Owner(t)
    BY <1>2, OwnersKnown, OwnerStays DEF AccessIInv, Issued
  <2>2. QED
    BY <1>1, <1>2, <2>1 DEF AccessIInv, SignedInTime
<1>10. QED
  BY <1>3, <1>4, <1>5, <1>6, <1>7, <1>8, <1>9 DEF AccessIInv

\* A token is stored: its claims were read and signed by this request.
LEMMA StoreIInv ==
  ASSUME AccessIInv, IInv', NEW r \in Request, Issues(r), StoreRefresh(r)
  PROVE  AccessIInv'
<1>1. /\ now' = now /\ withdrawn' = withdrawn /\ claims' = claims
      /\ Clocked(r) /\ claims[r].stage = "signed"
  BY DEF StoreRefresh
<1>2. /\ Issued' = Issued \cup {r} /\ Kept(r) /\ Issuing(r)
      /\ pc'[r] \in {"greeting", "done"}
      /\ \A q \in Request \ {r} : pc'[q] = pc[q]
  BY DEF Issues, Kept
<1>3. /\ TimesInOrder' /\ at' \in [Request -> Time]
      /\ \A q \in Request : InFlight(q) /\ InFlight(q)' => at'[q] = at[q]
  BY <1>1, <1>2, ClockedTimes DEF AccessIInv, Issuing
<1>4. \/ /\ pc[r] = "storing" /\ who[r] \in User /\ ~account[who[r]]
         /\ granted' = [granted EXCEPT ![who[r]] = Customer]
         /\ account' = [account EXCEPT ![who[r]] = TRUE]
      \/ /\ pc[r] \in {"opening", "minting"}
         /\ granted' = granted /\ account' = account
  BY DEF StoreRefresh, AssignRole, CommitRegister, OpenSession, CommitRotation,
         Issues, AccessIInv, IInv, TypeOK, AddressTaken
<1>5. /\ granted \in [User -> Grant] /\ account \in [User -> BOOLEAN]
      /\ Customer \in Grant /\ now \in Int /\ Patience \in Nat
      /\ withdrawn \in [User -> [Permission -> Time]]
      /\ at \in [Request -> Time] /\ claims \in [Request -> Claims]
      /\ \A n \in Time : n \in Int
  BY AccessAssumption DEF AccessIInv, AccessTypeOK, IInv, TypeOK, Time
<1>6. AccessTypeOK'
  BY <1>1, <1>3, <1>4, <1>5 DEF AccessIInv, AccessTypeOK, IInv
<1>7. ClaimsFitStep'
  BY <1>1, <1>2 DEF AccessIInv, ClaimsFitStep
<1>8. OwnerKnown'
  <2>1. \A t \in Issued \cup {r} :
          /\ t \in Request /\ op'[t] = op[t] /\ presented'[t] = presented[t]
          /\ op[t] \in {"register", "login"} \/ presented[t] \in Issued
    BY <1>2, OwnersKnown DEF AccessIInv, Kept, Issued, Issuing
  <2>2. QED
    BY <1>2, <2>1 DEF OwnerKnown
<1>9. RolesNeedAccount'
  BY <1>4, <1>5 DEF AccessIInv, RolesNeedAccount
\* Whoever loses a permission by the registration has none to lose.
<1>10. \A u \in User, p \in Permission :
         ~Grants(granted'[u], p) => ~Grants(granted[u], p)
  BY <1>4, <1>5, GrantsNothing DEF AccessIInv, RolesNeedAccount
<1>11. ReadInTime'
  <2> SUFFICES ASSUME NEW q \in Request, NEW p \in Permission,
                      pc'[q] \in {"opening", "minting"},
                      claims[q].stage # "none",
                      Grants(claims[q].perms, p),
                      ~Grants(granted'[Owner(q)'], p)
               PROVE  at'[q] <= withdrawn[Owner(q)'][p]
    BY <1>1 DEF ReadInTime
  <2>1. q # r /\ pc[q] \in {"opening", "minting"}
    BY <1>2
  <2>2. Owner(q)' = Owner(q) /\ Owner(q) \in User
    BY <1>2, <2>1, OwnersKnown, OwnerStays DEF AccessIInv
  <2>3. at'[q] = at[q]
    BY <1>3, <2>1 DEF InFlight
  <2>4. ~Grants(granted[Owner(q)], p)
    BY <1>10, <2>2
  <2>5. QED
    BY <2>1, <2>2, <2>3, <2>4 DEF AccessIInv, ReadInTime
<1>12. SignedInTime'
  <2> SUFFICES ASSUME NEW t \in Issued', NEW p \in Permission,
                      Grants(claims[t].perms, p),
                      ~Grants(granted'[Owner(t)'], p)
               PROVE  claims[t].iat <= withdrawn[Owner(t)'][p] + Patience
    BY <1>1 DEF SignedInTime
  <2>1. t \in Request /\ (t \in Issued \/ t = r)
    BY <1>2 DEF Issued
  <2>2. Owner(t)' = Owner(t) /\ Owner(t) \in User
    BY <1>2, <2>1, OwnersKnown, OwnerStays DEF AccessIInv, Issuing
  <2>3. ~Grants(granted[Owner(t)], p)
    BY <1>10, <2>2
  <2>4. CASE t \in Issued
    BY <2>2, <2>3, <2>4 DEF AccessIInv, SignedInTime
  <2>5. CASE t = r /\ pc[r] \in {"opening", "minting"}
    <3>1. at[r] <= withdrawn[Owner(r)][p]
      BY <1>1, <2>1, <2>3, <2>5 DEF AccessIInv, ReadInTime
    <3>2. claims[r].iat <= now /\ now <= at[r] + Patience
      BY <2>5 DEF AccessIInv, TimesInOrder, InFlight
    <3>3. claims[r].iat \in Int /\ at[r] \in Int /\ withdrawn[Owner(r)][p] \in Int
      BY <1>5, <2>2, <2>5 DEF Claims
    <3>4. QED
      BY <1>5, <2>2, <2>5, <3>1, <3>2, <3>3
  <2>6. CASE t = r /\ pc[r] = "storing"
    <3>1. op[r] = "register" /\ Owner(r) = who[r]
      BY <2>6 DEF AccessIInv, IInv, OpFitsStep, Owner
    <3>2. claims[r].perms = Customer
      BY <1>1, <2>6 DEF AccessIInv, ClaimsFitStep
    <3>3. granted'[Owner(r)] = Customer
      BY <1>4, <1>5, <2>6, <3>1
    <3>4. QED
      BY <2>2, <2>6, <3>2, <3>3
  <2>7. QED
    BY <1>2, <2>1, <2>4, <2>5, <2>6 DEF Issuing
<1>13. QED
  BY <1>3, <1>6, <1>7, <1>8, <1>9, <1>11, <1>12 DEF AccessIInv

\* A step that leaves the tables and the requests alone.
LEMMA SameSessions ==
  ASSUME IInv, vars' = vars
  PROVE  /\ IInv' /\ TypeOK' /\ Issued' = Issued
         /\ \A q \in Request : Owner(q)' = Owner(q)
         /\ pc' = pc /\ op' = op /\ presented' = presented /\ account' = account
<1>1. IInv'
  BY StutterIInv
<1>2. QED
  BY <1>1 DEF vars, Issued, Owner, FamilyOf, IInv

\* A request reads permissions, or signs what it has read.
LEMMA ClaimsIInv ==
  ASSUME AccessIInv, NEW r \in Request, ReadPermissions(r) \/ Sign(r)
  PROVE  AccessIInv'
<1>1. /\ now' = now /\ withdrawn' = withdrawn /\ granted' = granted
      /\ at' = at /\ vars' = vars /\ Issuing(r)
  BY DEF ReadPermissions, Sign
<1>2. /\ IInv' /\ TypeOK' /\ Issued' = Issued
      /\ \A q \in Request : Owner(q)' = Owner(q)
      /\ pc' = pc /\ op' = op /\ presented' = presented /\ account' = account
  BY <1>1, SameSessions DEF AccessIInv
<1>3. /\ claims \in [Request -> Claims] /\ now \in Time /\ 0 \in Time
      /\ granted \in [User -> Grant] /\ Grant \subseteq SUBSET Permission
      /\ Customer \in Grant /\ now \in Int /\ 0 <= now
  BY AccessAssumption DEF AccessIInv, AccessTypeOK, Time
<1>4. Owner(r) \in User /\ r \notin Issued
  BY <1>1, OwnersKnown DEF AccessIInv, Issuing, IInv, NotYetIssued
<1>5. PICK c \in Claims :
        /\ claims' = [claims EXCEPT ![r] = c]
        /\ c.iat <= now
        /\ pc[r] = "storing" => c.perms = Customer
        /\ pc[r] # "storing" => c.perms = granted[Owner(r)] \/
             (c.perms = claims[r].perms /\ claims[r].stage # "none")
  <2>1. CASE ReadPermissions(r)
    <3> DEFINE perms == IF pc[r] = "storing" THEN Customer
                        ELSE granted[Owner(r)]
               c == [stage |-> "read", iat |-> 0, perms |-> perms]
    <3>1. perms \in SUBSET Permission
      BY <1>3, <1>4
    <3>2. c \in Claims /\ c.iat <= now
      BY <1>3, <3>1 DEF Claims
    <3>3. claims' = [claims EXCEPT ![r] = c]
      BY <2>1 DEF ReadPermissions
    <3>4. QED
      BY <3>2, <3>3
  <2>2. CASE Sign(r)
    <3> DEFINE c == [stage |-> "signed", iat |-> now,
                     perms |-> claims[r].perms]
    <3>1. claims[r] \in Claims /\ claims[r].stage = "read"
      BY <1>3, <2>2 DEF Sign
    <3>2. /\ c \in Claims /\ c.iat <= now
          /\ c.perms = claims[r].perms
      BY <1>3, <3>1 DEF Claims
    <3>3. claims' = [claims EXCEPT ![r] = c]
      BY <2>2, Zenon DEF Sign
    <3>4. pc[r] = "storing" => claims[r].perms = Customer
      BY <3>1 DEF AccessIInv, ClaimsFitStep
    <3>5. /\ pc[r] = "storing" => c.perms = Customer
          /\ c.perms = claims[r].perms /\ claims[r].stage # "none"
      BY <3>1, <3>2, <3>4
    <3> HIDE DEF c
    <3>6. QED
      BY <3>2, <3>3, <3>5
  <2>3. QED
    BY <2>1, <2>2
<1>6. /\ claims'[r] = c /\ \A q \in Request \ {r} : claims'[q] = claims[q]
      /\ claims' \in [Request -> Claims]
  BY <1>3, <1>5
<1>7. AccessTypeOK'
  BY <1>1, <1>2, <1>6 DEF AccessIInv, AccessTypeOK
<1>8. TimesInOrder'
  <2>1. \A q \in Request : claims'[q].iat <= now
    BY <1>5, <1>6 DEF AccessIInv, TimesInOrder
  <2>2. QED
    BY <1>1, <1>2, <2>1 DEF AccessIInv, TimesInOrder, InFlight
<1>9. ClaimsFitStep'
  BY <1>1, <1>2, <1>5, <1>6 DEF AccessIInv, ClaimsFitStep, Issuing
<1>10. OwnerKnown' /\ RolesNeedAccount'
  BY <1>1, <1>2 DEF AccessIInv, OwnerKnown, RolesNeedAccount
<1>11. ReadInTime'
  <2> SUFFICES ASSUME NEW q \in Request, NEW p \in Permission,
                      pc[q] \in {"opening", "minting"},
                      claims'[q].stage # "none",
                      Grants(claims'[q].perms, p),
                      ~Grants(granted[Owner(q)], p)
               PROVE  at[q] <= withdrawn[Owner(q)][p]
    BY <1>1, <1>2 DEF ReadInTime
  <2>1. claims[q].stage # "none" /\ Grants(claims[q].perms, p)
    BY <1>5, <1>6
  <2>2. QED
    BY <2>1 DEF AccessIInv, ReadInTime
<1>12. SignedInTime'
  BY <1>1, <1>2, <1>4, <1>6 DEF AccessIInv, SignedInTime, Issued
<1>13. QED
  BY <1>2, <1>7, <1>8, <1>9, <1>10, <1>11, <1>12 DEF AccessIInv

\* Somebody changes the roles of a user.
LEMMA AssignRolesIInv ==
  ASSUME AccessIInv, NEW u \in User, NEW perms \in Grant, AssignRoles(u, perms)
  PROVE  AccessIInv'
<1>1. /\ now' = now /\ claims' = claims /\ at' = at /\ vars' = vars
      /\ account[u]
      /\ granted' = [granted EXCEPT ![u] = perms]
  BY DEF AssignRoles
<1>2. /\ IInv' /\ TypeOK' /\ Issued' = Issued
      /\ \A q \in Request : Owner(q)' = Owner(q)
      /\ pc' = pc /\ op' = op /\ presented' = presented /\ account' = account
  BY <1>1, SameSessions DEF AccessIInv
<1>3. /\ granted \in [User -> Grant] /\ now \in Time
      /\ withdrawn \in [User -> [Permission -> Time]]
      /\ at \in [Request -> Time] /\ claims \in [Request -> Claims]
      /\ \A n \in Time : n \in Int
      /\ Patience \in Nat
  BY AccessAssumption DEF AccessIInv, AccessTypeOK, Time
<1>4. PICK w \in [Permission -> Time] :
        /\ withdrawn' = [withdrawn EXCEPT ![u] = w]
        /\ \A p \in Permission :
             w[p] = IF Grants(granted[u], p) /\ ~Grants(perms, p)
                      THEN now ELSE withdrawn[u][p]
  <2> DEFINE w == [p \in Permission |->
                     IF Grants(granted[u], p) /\ ~Grants(perms, p)
                       THEN now ELSE withdrawn[u][p]]
  <2>1. w \in [Permission -> Time]
    BY <1>3
  <2>2. withdrawn' = [withdrawn EXCEPT ![u] = w]
    BY DEF AssignRoles
  <2>3. QED
    BY <2>1, <2>2
\* A permission that a user does not hold was withdrawn now or was missing.
<1>5. \A v \in User, p \in Permission :
        ~Grants(granted'[v], p) =>
          \/ withdrawn'[v][p] = now
          \/ ~Grants(granted[v], p) /\ withdrawn'[v][p] = withdrawn[v][p]
  <2> TAKE v \in User, p \in Permission
  <2>1. CASE v = u
    BY <1>1, <1>3, <1>4, <2>1
  <2>2. CASE v # u
    BY <1>1, <1>3, <1>4, <2>2
  <2>3. QED
    BY <2>1, <2>2
<1>6. AccessTypeOK'
  BY <1>1, <1>2, <1>3, <1>4 DEF AccessIInv, AccessTypeOK
<1>7. TimesInOrder'
  <2>1. \A v \in User, p \in Permission : withdrawn'[v][p] <= now
    BY <1>3, <1>4 DEF AccessIInv, TimesInOrder
  <2>2. QED
    BY <1>1, <1>2, <2>1 DEF AccessIInv, TimesInOrder, InFlight
<1>8. ClaimsFitStep' /\ OwnerKnown'
  BY <1>1, <1>2 DEF AccessIInv, ClaimsFitStep, OwnerKnown
<1>9. RolesNeedAccount'
  BY <1>1, <1>2, <1>3 DEF AccessIInv, RolesNeedAccount
<1>10. ReadInTime'
  <2> SUFFICES ASSUME NEW q \in Request, NEW p \in Permission,
                      pc[q] \in {"opening", "minting"},
                      claims[q].stage # "none",
                      Grants(claims[q].perms, p),
                      ~Grants(granted'[Owner(q)], p)
               PROVE  at[q] <= withdrawn'[Owner(q)][p]
    BY <1>1, <1>2 DEF ReadInTime
  <2>1. Owner(q) \in User
    BY OwnersKnown DEF AccessIInv
  <2>2. at[q] <= now
    BY DEF AccessIInv, TimesInOrder, InFlight
  <2>3. QED
    BY <1>5, <2>1, <2>2 DEF AccessIInv, ReadInTime
<1>11. SignedInTime'
  <2> SUFFICES ASSUME NEW t \in Issued, NEW p \in Permission,
                      Grants(claims[t].perms, p),
                      ~Grants(granted'[Owner(t)], p)
               PROVE  claims[t].iat <= withdrawn'[Owner(t)][p] + Patience
    BY <1>1, <1>2 DEF SignedInTime, Issued
  <2>1. t \in Request /\ Owner(t) \in User
    BY OwnersKnown DEF AccessIInv, Issued
  <2>2. claims[t].iat <= now /\ claims[t].iat \in Int
    BY <1>3, <2>1 DEF AccessIInv, TimesInOrder, Claims
  <2>3. QED
    BY <1>3, <1>5, <2>1, <2>2 DEF AccessIInv, SignedInTime
<1>12. QED
  BY <1>2, <1>6, <1>7, <1>8, <1>9, <1>10, <1>11 DEF AccessIInv

\* Time passes.
LEMMA TickIInv ==
  ASSUME AccessIInv, Tick
  PROVE  AccessIInv'
<1>1. /\ now' = now + 1 /\ now < MaxClock
      /\ granted' = granted /\ withdrawn' = withdrawn /\ claims' = claims
      /\ at' = at /\ vars' = vars
      /\ \A q \in Request : InFlight(q) => now < at[q] + Patience
  BY DEF Tick
<1>2. /\ IInv' /\ TypeOK' /\ Issued' = Issued
      /\ \A q \in Request : Owner(q)' = Owner(q)
      /\ pc' = pc /\ op' = op /\ presented' = presented /\ account' = account
  BY <1>1, SameSessions DEF AccessIInv
<1>3. /\ now \in Time /\ now' \in Time /\ \A n \in Time : n \in Int
      /\ at \in [Request -> Time] /\ claims \in [Request -> Claims]
      /\ withdrawn \in [User -> [Permission -> Time]] /\ Patience \in Nat
  BY <1>1, AccessAssumption DEF AccessIInv, AccessTypeOK, Time
<1>4. AccessTypeOK'
  BY <1>1, <1>2, <1>3 DEF AccessIInv, AccessTypeOK
<1>5. TimesInOrder'
  <2>1. ASSUME NEW q \in Request, InFlight(q)
        PROVE  at[q] <= now + 1 /\ now + 1 <= at[q] + Patience
    <3>1. at[q] <= now /\ now < at[q] + Patience
      BY <1>1, <2>1 DEF AccessIInv, TimesInOrder
    <3>2. now \in Int /\ at[q] \in Int /\ Patience \in Int
      BY <1>3
    <3>3. QED
      BY <3>1, <3>2
  <2>2. ASSUME NEW q \in Request
        PROVE  claims[q].iat <= now + 1
    <3>1. claims[q].iat \in Time /\ claims[q].iat <= now
      BY <1>3 DEF AccessIInv, TimesInOrder, Claims
    <3>2. QED
      BY <1>3, <3>1
  <2>3. ASSUME NEW u \in User, NEW p \in Permission
        PROVE  withdrawn[u][p] <= now + 1
    <3>1. withdrawn[u][p] \in Time /\ withdrawn[u][p] <= now
      BY <1>3 DEF AccessIInv, TimesInOrder
    <3>2. QED
      BY <1>3, <3>1
  <2>4. QED
    BY <1>1, <1>2, <2>1, <2>2, <2>3 DEF TimesInOrder, InFlight
<1>6. ClaimsFitStep' /\ OwnerKnown' /\ RolesNeedAccount'
  BY <1>1, <1>2 DEF AccessIInv, ClaimsFitStep, OwnerKnown, RolesNeedAccount
<1>7. ReadInTime' /\ SignedInTime'
  BY <1>1, <1>2 DEF AccessIInv, ReadInTime, SignedInTime, Issued
<1>8. QED
  BY <1>2, <1>4, <1>5, <1>6, <1>7 DEF AccessIInv

\* A step that changes nothing.
LEMMA StutterAccessIInv == AccessIInv /\ UNCHANGED allVars => AccessIInv'
<1> SUFFICES ASSUME AccessIInv, UNCHANGED allVars PROVE AccessIInv'
  OBVIOUS
<1>1. /\ now' = now /\ granted' = granted /\ withdrawn' = withdrawn
      /\ claims' = claims /\ at' = at /\ vars' = vars
  BY DEF allVars, accessVars
<1>2. /\ IInv' /\ TypeOK' /\ Issued' = Issued
      /\ \A q \in Request : Owner(q)' = Owner(q)
      /\ pc' = pc /\ op' = op /\ presented' = presented /\ account' = account
  BY <1>1, SameSessions DEF AccessIInv
<1>3. AccessTypeOK' /\ TimesInOrder'
  BY <1>1, <1>2 DEF AccessIInv, AccessTypeOK, TimesInOrder, InFlight
<1>4. ClaimsFitStep' /\ OwnerKnown' /\ RolesNeedAccount'
  BY <1>1, <1>2 DEF AccessIInv, ClaimsFitStep, OwnerKnown, RolesNeedAccount
<1>5. ReadInTime' /\ SignedInTime'
  BY <1>1, <1>2 DEF AccessIInv, ReadInTime, SignedInTime, Issued
<1>6. QED
  BY <1>2, <1>3, <1>4, <1>5 DEF AccessIInv

-----------------------------------------------------------------------------
\* Every handler keeps the invariant.
LEMMA HandleIInv ==
  ASSUME AccessIInv, NEW r \in Request, Handle(r)
  PROVE  AccessIInv'
<1>0. IInv
  BY DEF AccessIInv
<1>1. CASE /\ \/ StartRegister(r) \/ FindByEmail(r) \/ CreateUser(r)
              \/ Greet(r) \/ MarkRefreshUsed(r) \/ RevokeFamily(r)
              \/ RevokeFails(r) \/ Fail(r)
           /\ Step(r)
  <2>1. IInv'
    BY <1>0, <1>1, StartRegisterIInv, FindByEmailIInv, CreateUserIInv, GreetIInv,
       MarkRefreshUsedIInv, RevokeFamilyIInv, RevokeFailsIInv, FailIInv
  <2>2. QED
    BY <1>0, <1>1, <2>1, QuietMoves, QuietIInv
<1>2. CASE RevokeRows(r) /\ Step(r)
  BY <1>0, <1>2, RevokeRowsIInv, RevokeRowsQuiet, QuietIInv
<1>3. ASSUME NEW t \in Request,
             VerifyRefresh(r, t) \/ VerifyLogout(r, t) \/ IgnoreLogout(r, t)
      PROVE  AccessIInv'
  <2>1. /\ GetRefresh(r, t) \/ Logout(r, t) \/ IgnoreLogout(r, t)
        /\ Step(r)
    BY <1>3 DEF VerifyRefresh, VerifyLogout, IgnoreLogout
  <2>2. IInv'
    BY <1>0, <2>1, GetRefreshIInv, LogoutIInv, IgnoreLogoutIInv
  <2>3. QED
    BY <1>0, <2>1, <2>2, QuietMoves, QuietIInv
<1>4. CASE StoreRefresh(r)
  <2>1. CommitRegister(r) \/ OpenSession(r) \/ CommitRotation(r)
    BY <1>4 DEF StoreRefresh
  <2>2. IInv'
    BY <1>0, <2>1, CommitRegisterIInv, OpenSessionIInv, CommitRotationIInv
  <2>3. QED
    BY <1>0, <1>4, <2>1, <2>2, StoreIssues, StoreIInv
<1>5. QED
  BY <1>1, <1>2, <1>3, <1>4, ClaimsIInv DEF Handle

\* Before the first request nothing is issued and nobody lost a permission.
LEMMA InitAccessIInv == AccessInit => AccessIInv
<1> SUFFICES ASSUME AccessInit PROVE AccessIInv
  OBVIOUS
<1>1. IInv /\ Issued = {} /\ \A r \in Request : pc[r] = "idle"
  BY InitIInv DEF AccessInit, Init, Issued, NoToken
<1>2. 0 \in Time /\ 0 <= 0
  BY AccessAssumption DEF Time
<1>3. AccessTypeOK
  BY <1>1, <1>2 DEF AccessInit, AccessTypeOK, IInv, NoClaims, Claims
<1>4. TimesInOrder
  BY <1>1, <1>2 DEF AccessInit, TimesInOrder, InFlight, NoClaims
<1>5. ClaimsFitStep /\ OwnerKnown /\ RolesNeedAccount
  BY <1>1 DEF AccessInit, ClaimsFitStep, OwnerKnown, RolesNeedAccount, NoClaims
<1>6. ReadInTime /\ SignedInTime
  BY <1>1 DEF ReadInTime, SignedInTime
<1>7. QED
  BY <1>1, <1>3, <1>4, <1>5, <1>6 DEF AccessIInv

\* Every step keeps the inductive invariant.
LEMMA NextAccessIInv == AccessIInv /\ [AccessNext]_allVars => AccessIInv'
BY HandleIInv, AssignRolesIInv, TickIInv, StutterAccessIInv DEF AccessNext

LEMMA AccessInvariance == AccessSpec => []AccessIInv
BY InitAccessIInv, NextAccessIInv, PTL DEF AccessSpec

\* The variables of Access, and of the sessions under them, keep their types.
THEOREM AccessTypeCorrect == AccessSpec => []AccessTypeOK
<1>1. AccessIInv => AccessTypeOK
  BY DEF AccessIInv
<1>2. QED
  BY <1>1, AccessInvariance, PTL

\* With the clock and the claims added, the tables still satisfy what was
\* proved of Sessions: the tokens of a session share its family, a revocation
\* is not undone, and an address is registered once.
THEOREM SessionsStillHold ==
  AccessSpec => [](FamiliesAreRooted /\ KnownTokensRevoked /\ RegisteredOnce)
<1>1. AccessIInv => FamiliesAreRooted /\ KnownTokensRevoked /\ RegisteredOnce
  BY DEF AccessIInv, IInv
<1>2. QED
  BY <1>1, AccessInvariance, PTL

\* A withdrawn permission works no longer than the time-out of a request and
\* the lifetime of an access token: issue_session and the AuthUser extractor,
\* whatever the lifetimes, and with any number of concurrent refreshes.
THEOREM PermissionsEnd == AccessSpec => []WithdrawnInTime
<1>1. ASSUME AccessIInv PROVE WithdrawnInTime
  <2> SUFFICES ASSUME NEW t \in Issued, NEW p \in Permission,
                      Accepted(t, p), ~Grants(granted[Owner(t)], p)
               PROVE  now <= withdrawn[Owner(t)][p] + Patience + AccessTTL + Leeway
    BY DEF WithdrawnInTime
  <2>1. claims[t].iat <= withdrawn[Owner(t)][p] + Patience
    BY <1>1 DEF AccessIInv, SignedInTime, Accepted
  <2>2. now <= claims[t].iat + AccessTTL + Leeway
    BY DEF Accepted, Unexpired
  <2>3. t \in Request /\ Owner(t) \in User
    BY <1>1, OwnersKnown DEF AccessIInv, Issued
  <2>4. /\ now \in Int /\ claims[t].iat \in Int
        /\ withdrawn[Owner(t)][p] \in Int
        /\ Patience \in Int /\ AccessTTL \in Int /\ Leeway \in Int
    BY <1>1, <2>3, AccessAssumption
    DEF AccessIInv, AccessTypeOK, Claims, Time
  <2>5. QED
    BY <2>1, <2>2, <2>4
<1>2. QED
  BY <1>1, AccessInvariance, PTL

-----------------------------------------------------------------------------
\* Sessions whose requests come one at a time.

\* An ignored logout changes no row, and revokes nothing.
LEMMA IgnoreLogoutSerial ==
  ASSUME IInv, SerialInv, NEW r \in Request, NEW t \in Request, IgnoreLogout(r, t)
  PROVE  SerialInv' /\ (EndedWhole => EndedWhole')
<1>1. /\ token' = token /\ op' = op /\ presented' = presented
      /\ victims' = victims /\ pc[r] = "idle" /\ pc'[r] = "done"
      /\ \A q \in Request \ {r} : pc'[q] = pc[q] /\ resp'[q] = resp[q]
  BY DEF IgnoreLogout, Answer, Goto, inputs, IInv, TypeOK
<1>2. SerialInv'
  BY <1>1, SameRowsSerial DEF Using
<1>3. EndedWhole => EndedWhole'
  <2>1. Issued' = Issued /\ \A f : Members(f)' = Members(f)
    BY <1>1 DEF Issued, Members
  <2>2. \A q \in Request : FamilyOf(q)' = FamilyOf(q)
    BY <1>1 DEF FamilyOf
  <2>3. QED
    BY <1>1, <2>1, <2>2 DEF EndedWhole
<1>4. QED
  BY <1>2, <1>3

\* Every step of Access is one of Sessions, or an ignored logout.
LEMMA AccessSteps ==
  ASSUME [AccessNext]_allVars
  PROVE  [Next]_vars \/ \E r, t \in Request : IgnoreLogout(r, t)
<1>1. ASSUME NEW r \in Request, Handle(r)
      PROVE  [Next]_vars \/ \E t \in Request : IgnoreLogout(r, t)
  BY <1>1 DEF Handle, VerifyRefresh, VerifyLogout, ReadPermissions, Sign,
              StoreRefresh, Next, Arrive, Proceed
<1>2. QED
  BY <1>1 DEF AccessNext, AssignRoles, Tick, allVars

LEMMA AccessSerial ==
  ASSUME Serial, AccessIInv, SerialInv, [AccessNext]_allVars
  PROVE  SerialInv'
BY AccessSteps, NextSerial, IgnoreLogoutSerial DEF AccessIInv

LEMMA AccessEnded ==
  ASSUME ~Faults, AccessIInv, SerialInv, EndedWhole, [AccessNext]_allVars
  PROVE  EndedWhole'
BY AccessSteps, NextEnded, IgnoreLogoutSerial DEF AccessIInv

\* What a step of r must do to EndedBefore, if it stores no token.
LEMMA SameTokensBefore ==
  ASSUME EndedWhole, EndedBefore, NEW r \in Request, Quiet(r),
         claims' = claims,
         \A q \in Request \ {r} : at'[q] = at[q],
         pc'[r] = "done" /\ Revokes(r)' =>
           \A t \in Members(FamilyOf(r))' : claims[t].iat <= at'[r]
  PROVE  EndedBefore'
<1> SUFFICES ASSUME NEW q \in Request \ {r}, pc'[q] = "done", Revokes(q)',
                    NEW t \in Members(FamilyOf(q))'
             PROVE  claims[t].iat <= at[q]
  BY DEF EndedBefore
<1>1. /\ pc[q] = "done" /\ op'[q] = op[q] /\ presented'[q] = presented[q]
      /\ Issued' = Issued
      /\ \A u \in Issued : token'[u].family = token[u].family
  BY DEF Quiet, Kept
<1>2. Revokes(q) /\ presented[q] \in Issued
  BY <1>1 DEF Revokes, EndedWhole
<1>3. FamilyOf(q)' = FamilyOf(q)
  BY <1>1, <1>2 DEF FamilyOf
<1>4. t \in Members(FamilyOf(q))
  BY <1>1, <1>3 DEF Members
<1>5. QED
  BY <1>1, <1>2, <1>4 DEF EndedBefore

\* Only RevokeRows answers a request that ends a session.
LEMMA QuietNoEnd ==
  ASSUME IInv, EndedWhole, ~Faults, NEW r \in Request,
         \/ StartRegister(r) \/ FindByEmail(r) \/ CreateUser(r) \/ Greet(r)
         \/ MarkRefreshUsed(r) \/ RevokeFamily(r) \/ RevokeFails(r) \/ Fail(r)
         \/ \E t \in Request :
              GetRefresh(r, t) \/ Logout(r, t) \/ IgnoreLogout(r, t)
  PROVE  ~(pc'[r] = "done" /\ Revokes(r)')
<1> USE DEF Goto, Answer, inputs, Revokes
<1> DEFINE Goal == ~(pc'[r] = "done" /\ Revokes(r)')
<1>1. StartRegister(r) \/ FindByEmail(r) => Goal
  BY DEF StartRegister, FindByEmail, IInv, TypeOK
<1>2. CreateUser(r) \/ Greet(r) => Goal
  BY DEF CreateUser, Greet, IInv, TypeOK, OpFitsStep
<1>3. MarkRefreshUsed(r) \/ RevokeFamily(r) => Goal
  BY DEF MarkRefreshUsed, RevokeFamily, IInv, TypeOK
<1>4. ~RevokeFails(r) /\ ~Fail(r)
  BY DEF RevokeFails, Fail
<1>5. ASSUME NEW t \in Request, GetRefresh(r, t) \/ Logout(r, t) PROVE Goal
  BY <1>5 DEF GetRefresh, Logout, IInv, TypeOK
<1>6. ASSUME NEW t \in Request, IgnoreLogout(r, t) PROVE Goal
  BY <1>6 DEF IgnoreLogout, EndedWhole
<1> HIDE DEF Goal
<1>7. Goal
  BY <1>1, <1>2, <1>3, <1>4, <1>5, <1>6
<1>8. QED
  BY <1>7 DEF Goal

\* A session that has ended got its last token before.
LEMMA AccessBefore ==
  ASSUME ~Faults, AccessIInv, SerialInv, EndedWhole, EndedBefore,
         [AccessNext]_allVars
  PROVE  EndedBefore'
<1>0. IInv /\ at \in [Request -> Time] /\ claims \in [Request -> Claims]
  BY DEF AccessIInv, AccessTypeOK
<1>1. ASSUME NEW r \in Request, Handle(r) PROVE EndedBefore'
  <2>1. Clocked(r) => \A q \in Request \ {r} : at'[q] = at[q]
    BY <1>0 DEF Clocked
  <2>2. CASE /\ \/ StartRegister(r) \/ FindByEmail(r) \/ CreateUser(r)
                \/ Greet(r) \/ MarkRefreshUsed(r) \/ RevokeFamily(r)
                \/ RevokeFails(r) \/ Fail(r)
                \/ \E t \in Request :
                     GetRefresh(r, t) \/ Logout(r, t) \/ IgnoreLogout(r, t)
             /\ Step(r)
    BY <1>0, <2>1, <2>2, QuietMoves, QuietNoEnd, SameTokensBefore DEF Step
  <2>3. CASE RevokeRows(r) /\ Step(r)
    <3>1. Quiet(r) /\ claims' = claims /\ pc'[r] = "done"
      BY <1>0, <2>3, RevokeRowsQuiet, RevokedRows DEF Step
    <3>2. Revokes(r)' => at'[r] = now
      BY <1>0, <2>3, <3>1 DEF Step, Clocked
    <3>3. \A t \in Members(FamilyOf(r))' : claims[t].iat <= now
      BY <3>1 DEF Members, Issued, AccessIInv, TimesInOrder
    <3>4. QED
      BY <2>1, <2>3, <3>1, <3>2, <3>3, SameTokensBefore DEF Step
  <2>4. CASE ReadPermissions(r) \/ Sign(r)
    <3>1. /\ \A t \in Request \ {r} : claims'[t] = claims[t]
          /\ vars' = vars /\ at' = at /\ Issuing(r)
      BY <1>0, <2>4 DEF ReadPermissions, Sign
    <3>2. r \notin Issued
      BY <1>0, <3>1 DEF Issuing, IInv, NotYetIssued
    <3>3. \A q \in Request : Members(FamilyOf(q))' = Members(FamilyOf(q))
      BY <3>1 DEF vars, Members, Issued, FamilyOf
    <3>4. \A f : Members(f) \subseteq Request \ {r}
      BY <3>2 DEF Members, Issued
    <3>5. QED
      BY <3>1, <3>3, <3>4 DEF EndedBefore, Revokes, vars
  <2>5. CASE StoreRefresh(r)
    <3>1. /\ CommitRegister(r) \/ OpenSession(r) \/ CommitRotation(r)
          /\ Clocked(r) /\ claims' = claims
      BY <2>5 DEF StoreRefresh
    <3>2. /\ Issued' = Issued \cup {r}
          /\ op' = op /\ presented' = presented
          /\ op[r] \notin {"logout", "reuse"}
          /\ \A q \in Request \ {r} : pc'[q] = pc[q]
          /\ \A t \in Issued : token'[t].family = token[t].family
          /\ \A q \in Request :
               pc[q] = "done" /\ op[q] \in {"logout", "reuse"} =>
                 token'[r].family # FamilyOf(q)
      BY <1>0, <3>1, StoredElsewhere
    <3> SUFFICES ASSUME NEW q \in Request, pc'[q] = "done", Revokes(q)',
                        NEW t \in Members(FamilyOf(q))'
                 PROVE  claims'[t].iat <= at'[q]
      BY DEF EndedBefore
    <3>3. q # r /\ pc[q] = "done" /\ Revokes(q)
      BY <3>2 DEF Revokes
    <3>4. presented[q] \in Issued /\ FamilyOf(q)' = FamilyOf(q)
      BY <3>2, <3>3 DEF EndedWhole, Revokes, FamilyOf
    <3>5. t \in Members(FamilyOf(q))
      BY <3>2, <3>3, <3>4 DEF Members, Revokes
    <3>6. QED
      BY <2>1, <3>1, <3>3, <3>5 DEF EndedBefore
  <2>6. QED
    BY <1>1, <2>2, <2>3, <2>4, <2>5
    DEF Handle, VerifyRefresh, VerifyLogout, IgnoreLogout
<1>2. ASSUME vars' = vars, claims' = claims, at' = at PROVE EndedBefore'
  BY <1>2 DEF EndedBefore, vars, Members, Issued, FamilyOf, Revokes
<1>3. QED
  BY <1>1, <1>2 DEF AccessNext, AssignRoles, Tick, allVars, accessVars

\* With the clock, expired tokens and signing between the statements, a session
\* used by one request at a time still has one live refresh token until it is
\* revoked, whatever fails.
THEOREM OneLiveTokenHolds == Serial /\ AccessSpec => []OneLiveToken
<1> DEFINE Inv == AccessIInv /\ SerialInv
<1>1. ASSUME Serial PROVE AccessInit => Inv
  BY InitAccessIInv, InitSerial DEF AccessInit
<1>2. ASSUME Serial PROVE Inv /\ [AccessNext]_allVars => Inv'
  BY <1>2, NextAccessIInv, AccessSerial
<1>3. Inv => OneLiveToken
  BY SerialOneLive DEF AccessIInv
<1> HIDE DEF Inv
<1>4. CASE Serial
  BY <1>1, <1>2, <1>3, <1>4, PTL DEF AccessSpec
<1>5. QED
  BY <1>4

\* When nothing fails, logout and the reuse of a token end such a session: no
\* refresh token is live when they are answered, and no access token works
\* longer than its lifetime from then on.
THEOREM SessionsAreEnded ==
  Serial /\ ~Faults /\ AccessSpec =>
    [](LogoutEndsSession /\ ReuseEndsSession /\ SessionsEndInTime)
<1> DEFINE Inv == AccessIInv /\ SerialInv /\ EndedWhole /\ EndedBefore
<1>1. ASSUME Serial, ~Faults PROVE AccessInit => Inv
  <2>1. AccessInit => EndedBefore
    BY DEF AccessInit, Init, EndedBefore
  <2>2. QED
    BY <2>1, InitAccessIInv, InitSerial DEF AccessInit
<1>2. ASSUME Serial, ~Faults PROVE Inv /\ [AccessNext]_allVars => Inv'
  BY <1>2, NextAccessIInv, AccessSerial, AccessEnded, AccessBefore
<1>3. Inv => LogoutEndsSession /\ ReuseEndsSession
  BY EndedNotLive DEF AccessIInv
<1>4. Inv => SessionsEndInTime
  <2> SUFFICES ASSUME Inv, NEW r \in Request, pc[r] = "done", Revokes(r),
                      NEW t \in Members(FamilyOf(r)), NEW p \in Permission,
                      Accepted(t, p)
               PROVE  now <= at[r] + AccessTTL + Leeway
    BY DEF SessionsEndInTime, Revokes
  <2>1. claims[t].iat <= at[r] /\ now <= claims[t].iat + AccessTTL + Leeway
    BY DEF EndedBefore, Accepted, Unexpired
  <2>2. /\ now \in Int /\ claims[t].iat \in Int /\ at[r] \in Int
        /\ AccessTTL \in Int /\ Leeway \in Int
    BY AccessAssumption
    DEF AccessIInv, AccessTypeOK, Claims, Time, Members, Issued
  <2>3. QED
    BY <2>1, <2>2
<1> HIDE DEF Inv
<1>5. CASE Serial /\ ~Faults
  BY <1>1, <1>2, <1>3, <1>4, <1>5, PTL DEF AccessSpec
<1>6. QED
  BY <1>5

\* With the clock and the signing of tokens between the statements, a session
\* used by one request at a time still goes through the steps of SessionBook,
\* whatever fails: no tick, permission or expired token shows through.
THEOREM AccessSessionRefinement ==
  Serial /\ AccessSpec => ImplementsSessionBook
<1> DEFINE Inv == AccessIInv /\ SerialInv /\ SignedInKnown
<1>1. ASSUME Serial PROVE AccessInit => Inv /\ Book!Init
  BY InitAccessIInv, InitSerial, InitBook DEF AccessInit
<1>2. ASSUME Serial, Inv, [AccessNext]_allVars
      PROVE  Inv' /\ [Book!Next]_(Book!vars)
  <2>1. CASE [Next]_vars
    BY <1>2, <2>1, NextAccessIInv, AccessSerial, NextSignedIn, NextBook
    DEF AccessIInv
  <2>2. CASE \E r, t \in Request : IgnoreLogout(r, t)
    <3>1. SignedInKnown' /\ UNCHANGED <<account, token>>
      BY <1>2, <2>2
      DEF IgnoreLogout, Answer, Goto, inputs, SignedInKnown, AccessIInv,
          IInv, TypeOK
    <3>2. QED
      BY <1>2, <3>1, NextAccessIInv, AccessSerial, QuietBook
  <2>3. QED
    BY <1>2, <2>1, <2>2, AccessSteps
<1> HIDE DEF Inv
<1>3. CASE Serial
  BY <1>1, <1>2, <1>3, PTL DEF AccessSpec, ImplementsSessionBook, Book!Spec
<1>4. QED
  BY <1>3
=============================================================================
