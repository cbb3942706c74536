------------------------ MODULE SerialSessionsProofs ------------------------
(***************************************************************************)
(* Proofs about Sessions when the requests of each session come one at a   *)
(* time, for any people, requests and server: a session has one live       *)
(* refresh token until it is revoked, also when statements and connections *)
(* fail; and when they do not, logout and the reuse of a token leave none. *)
(* The argument is SerialInv with EndedWhole, on top of IInv.              *)
(***************************************************************************)
EXTENDS SessionsProofs, FiniteSetTheorems

\* A step of r that changes no row of refresh_tokens.
LEMMA SameRowsSerial ==
  ASSUME IInv, SerialInv, NEW r \in Request, token' = token,
         \A q \in Request \ {r} :
           /\ pc'[q] = pc[q] /\ op'[q] = op[q]
           /\ presented'[q] = presented[q] /\ victims'[q] = victims[q],
         \A q \in Request \ {r} :
           Using(r)' /\ Using(q) => FamilyOf(q) # FamilyOf(r)',
         pc'[r] \in {"marking", "minting"} =>
           op'[r] = "refresh" /\ Live(presented'[r]),
         pc'[r] = "waiting" => victims'[r] = Members(FamilyOf(r)')
  PROVE  SerialInv'
<1>1. /\ Issued' = Issued
      /\ \A t : Live(t)' <=> Live(t)
      /\ \A f : Members(f)' = Members(f)
  BY DEF Issued, Live, Members
<1>2. \A q \in Request \ {r} :
        /\ FamilyOf(q)' = FamilyOf(q)
        /\ Using(q)' <=> Using(q)
  BY DEF FamilyOf, Using
<1>3. OneAtATime'
  BY <1>2 DEF SerialInv, OneAtATime
<1>4. RotatesLive'
  <2> SUFFICES ASSUME NEW q \in Request, pc'[q] \in {"marking", "minting"}
               PROVE  op'[q] = "refresh" /\ Live(presented'[q])
    BY <1>1 DEF RotatesLive, Live
  <2>1. QED
    BY DEF SerialInv, RotatesLive
<1>5. FindsFamily'
  BY <1>1, <1>2 DEF SerialInv, FindsFamily
<1>6. RevokedWhole' /\ LiveUnique' /\ LiveExists'
  BY <1>1 DEF SerialInv, RevokedWhole, LiveUnique, LiveExists
<1>7. QED
  BY <1>3, <1>4, <1>5, <1>6 DEF SerialInv

\* The rows of a session nobody else uses.
LEMMA MayUseAlone ==
  ASSUME IInv, Serial, NEW t \in Request, MayUse(t)
  PROVE  \A q \in Request : Using(q) => FamilyOf(q) # token[t].family
BY DEF MayUse, Using

\* The arrival of a refresh or a logout, and the steps without a token row.
LEMMA QuietSerial ==
  ASSUME IInv, SerialInv, Serial, NEW r \in Request,
         \/ StartRegister(r) \/ FindByEmail(r) \/ CreateUser(r) \/ Greet(r)
         \/ MarkRefreshUsed(r) \/ RevokeFamily(r) \/ RevokeFails(r) \/ Fail(r)
         \/ \E t \in Request : GetRefresh(r, t) \/ Logout(r, t)
  PROVE  SerialInv'
<1> USE DEF Goto, Answer, inputs
<1> DEFINE Others ==
             /\ token' = token
             /\ \A q \in Request \ {r} :
                  /\ pc'[q] = pc[q] /\ op'[q] = op[q]
                  /\ presented'[q] = presented[q] /\ victims'[q] = victims[q]
           Leaves == Others /\ ~Using(r)'
<1>1. Leaves => SerialInv'
  BY SameRowsSerial DEF Using
<1>2. \/ StartRegister(r) \/ FindByEmail(r) \/ CreateUser(r) \/ Greet(r)
      \/ RevokeFails(r) \/ Fail(r)
      => SerialInv'
  <2>1. StartRegister(r) => Leaves
    BY DEF StartRegister, IInv, TypeOK, Using
  <2>2. FindByEmail(r) => Leaves
    BY DEF FindByEmail, IInv, TypeOK, Using
  <2>3. CreateUser(r) => Leaves
    BY DEF CreateUser, IInv, TypeOK, Using
  <2>4. Greet(r) => Leaves
    BY DEF Greet, IInv, TypeOK, Using
  <2>5. RevokeFails(r) => Leaves
    BY DEF RevokeFails, IInv, TypeOK, Using
  <2>6. Fail(r) => Leaves
    BY DEF Fail, IInv, TypeOK, Using
  <2> HIDE DEF Leaves
  <2>7. QED
    BY <1>1, <2>1, <2>2, <2>3, <2>4, <2>5, <2>6
<1>3. CASE MarkRefreshUsed(r)
  <2>1. /\ Others /\ pc[r] = "marking" /\ pc'[r] = "minting"
        /\ op' = op /\ presented' = presented
    BY <1>3 DEF MarkRefreshUsed, IInv, TypeOK
  <2>2. /\ FamilyOf(r)' = FamilyOf(r) /\ Using(r)
        /\ op'[r] = "refresh" /\ Live(presented'[r])
    BY <2>1 DEF SerialInv, RotatesLive, FamilyOf, Using
  <2>3. \A q \in Request \ {r} : Using(q) => FamilyOf(q) # FamilyOf(r)
    BY <2>2 DEF SerialInv, OneAtATime
  <2>4. QED
    BY <2>1, <2>2, <2>3, SameRowsSerial
<1>4. CASE RevokeFamily(r)
  <2>1. /\ Others /\ pc[r] = "revoking" /\ pc'[r] = "waiting"
        /\ presented' = presented
        /\ victims'[r] = Members(FamilyOf(r))
    BY <1>4 DEF RevokeFamily, IInv, TypeOK
  <2>2. FamilyOf(r)' = FamilyOf(r) /\ Using(r)
    BY <2>1 DEF FamilyOf, Using
  <2>3. \A q \in Request \ {r} : Using(q) => FamilyOf(q) # FamilyOf(r)
    BY <2>2 DEF SerialInv, OneAtATime
  <2>4. QED
    BY <2>1, <2>2, <2>3, SameRowsSerial
<1>5. ASSUME NEW t \in Request, GetRefresh(r, t)
      PROVE  SerialInv'
  <2>1. /\ Others /\ presented'[r] = t /\ t \in Issued
        /\ \/ pc'[r] = "done"
           \/ pc'[r] = "revoking"
           \/ pc'[r] = "marking" /\ op'[r] = "refresh" /\ Live(t)
    BY <1>5 DEF GetRefresh, IInv, TypeOK, Live
  <2>2. FamilyOf(r)' = token[t].family
    BY <2>1 DEF FamilyOf
  <2>3. \A q \in Request : Using(q) => FamilyOf(q) # token[t].family
    BY <1>5, MayUseAlone DEF GetRefresh
  <2>4. QED
    BY <2>1, <2>2, <2>3, SameRowsSerial
<1>6. ASSUME NEW t \in Request, Logout(r, t)
      PROVE  SerialInv'
  <2>1. Others /\ presented'[r] = t /\ pc'[r] = "revoking"
    BY <1>6 DEF Logout, IInv, TypeOK
  <2>2. FamilyOf(r)' = token[t].family
    BY <2>1 DEF FamilyOf
  <2>3. \A q \in Request : Using(q) => FamilyOf(q) # token[t].family
    BY <1>6, MayUseAlone DEF Logout
  <2>4. QED
    BY <2>1, <2>2, <2>3, SameRowsSerial
<1>7. QED
  BY <1>2, <1>3, <1>4, <1>5, <1>6

\* The family of an issued token is an issued token.
LEMMA FamilyIssued ==
  ASSUME IInv, NEW t \in Issued
  PROVE  token[t].family \in Issued /\ token[t] \in Token
<1>1. token[t] \in Token /\ token[t].family # NoFamily
  BY DEF IInv, TypeOK, Issued
<1>2. token[t].family \in Request
  BY <1>1 DEF Token
<1>3. QED
  BY <1>1, <1>2 DEF IInv, FamiliesAreRooted, Issued

\* A new session: the first token of a registration or a login.
LEMMA BirthSerial ==
  ASSUME IInv, SerialInv, NEW r \in Request, CommitRegister(r) \/ OpenSession(r)
  PROVE  SerialInv'
<1>1. /\ r \notin Issued /\ token' = [token EXCEPT ![r] = Fresh(r)]
      /\ op' = op /\ presented' = presented /\ victims' = victims
      /\ pc'[r] \in {"greeting", "done"}
      /\ \A q \in Request \ {r} : pc'[q] = pc[q]
  BY DEF CommitRegister, OpenSession, Answer, Goto, inputs, IInv, TypeOK,
         NotYetIssued
<1>2. /\ token'[r] = Fresh(r)
      /\ \A t \in Request \ {r} : token'[t] = token[t]
      /\ r # NoFamily
  BY <1>1, SessionsAssumption DEF IInv, TypeOK
<1>3. /\ token'[r].family = r /\ ~token'[r].used /\ ~token'[r].revoked
      /\ Issued' = Issued \cup {r}
  BY <1>2 DEF Fresh, Issued
<1>4. \A t \in Issued : /\ t \in Request \ {r} /\ token'[t] = token[t]
                        /\ token[t].family # r
                        /\ token'[t].family # r
                        /\ Live(t)' <=> Live(t)
  BY <1>1, <1>2, <1>3, FamilyIssued DEF Issued, Live
<1>5. Live(r)'
  BY <1>3 DEF Live
<1>6. \A q \in Request : Using(q)' =>
        /\ q # r /\ Using(q) /\ presented[q] \in Issued
        /\ FamilyOf(q)' = FamilyOf(q) /\ FamilyOf(q) # r
  BY <1>1, <1>4 DEF Using, FamilyOf, IInv, PresentedIssued
<1>7. OneAtATime'
  BY <1>6 DEF SerialInv, OneAtATime
<1>8. RotatesLive'
  <2> SUFFICES ASSUME NEW q \in Request, pc'[q] \in {"marking", "minting"}
               PROVE  op'[q] = "refresh" /\ Live(presented[q])'
    BY <1>1 DEF RotatesLive, Live
  <2>1. presented'[q] = presented[q] /\ presented[q] \in Issued /\ pc[q] = pc'[q]
    BY <1>1, <1>6 DEF Using
  <2>2. op[q] = "refresh" /\ Live(presented[q])
    BY <2>1 DEF SerialInv, RotatesLive
  <2>3. QED
    BY <1>1, <1>4, <2>1, <2>2
<1>9. FindsFamily'
  <2> SUFFICES ASSUME NEW q \in Request, pc'[q] = "waiting"
               PROVE  victims'[q] = Members(FamilyOf(q))'
    BY DEF FindsFamily
  <2>1. /\ pc[q] = "waiting" /\ FamilyOf(q)' = FamilyOf(q) /\ FamilyOf(q) # r
    BY <1>1, <1>6 DEF Using
  <2>2. Members(FamilyOf(q))' = Members(FamilyOf(q))
    BY <1>3, <1>4, <2>1 DEF Members
  <2>3. QED
    BY <1>1, <2>1, <2>2 DEF SerialInv, FindsFamily
<1>10. RevokedWhole' /\ LiveUnique'
  BY <1>3, <1>4 DEF SerialInv, RevokedWhole, LiveUnique
<1>11. LiveExists'
  <2> SUFFICES ASSUME NEW t \in Issued', ~token'[t].revoked
               PROVE  \E s \in Issued' : /\ token'[s].family = token'[t].family
                                         /\ Live(s)'
    BY DEF LiveExists
  <2>1. CASE t = r
    BY <1>3, <1>5, <2>1
  <2>2. CASE t \in Issued
    <3>1. PICK s \in Issued : token[s].family = token[t].family /\ Live(s)
      BY <1>4, <2>2 DEF SerialInv, LiveExists
    <3>2. QED
      BY <1>3, <1>4, <2>2, <3>1
  <2>3. QED
    BY <1>3, <2>1, <2>2
<1>12. QED
  BY <1>7, <1>8, <1>9, <1>10, <1>11 DEF SerialInv

\* A rotation: the presented token is spent, the new one is live.
LEMMA RotationSerial ==
  ASSUME IInv, SerialInv, NEW r \in Request, CommitRotation(r)
  PROVE  SerialInv'
<1>0. PICK s \in Request : s = presented[r]
  BY DEF IInv, TypeOK
<1> DEFINE spent == [token[s] EXCEPT !.used = TRUE]
           new == Fresh(FamilyOf(r))
<1>1. /\ pc[r] = "minting" /\ r \notin Issued
      /\ op' = op /\ presented' = presented /\ victims' = victims
      /\ pc'[r] = "done"
      /\ \A q \in Request \ {r} : pc'[q] = pc[q]
  BY DEF CommitRotation, Answer, Goto, inputs, IInv, TypeOK, NotYetIssued
<1>2. /\ s \in Issued /\ s \in Request /\ s # r /\ Live(s)
      /\ token[s] \in Token
  BY <1>0, <1>1, FamilyIssued
  DEF IInv, PresentedIssued, Issued, SerialInv, RotatesLive
<1>3. /\ spent.family = token[s].family /\ spent.used
      /\ spent.revoked = token[s].revoked
      /\ new.family = token[s].family /\ ~new.used /\ ~new.revoked
      /\ token[s].family # NoFamily
  BY <1>0, <1>2 DEF Token, Fresh, FamilyOf, Issued
<1>4. /\ token' = [token EXCEPT ![s] = spent, ![r] = new]
      /\ token \in [Request -> Token]
  BY <1>0 DEF CommitRotation, IInv, TypeOK
<1> HIDE DEF spent, new
<1>5. /\ token'[r] = new /\ token'[s] = spent
      /\ \A t \in Request \ {r, s} : token'[t] = token[t]
  BY <1>2, <1>4
<1>6. Issued' = Issued \cup {r}
  BY <1>2, <1>3, <1>5 DEF Issued
<1>7. \A t \in Issued : /\ t \in Request \ {r}
                        /\ token'[t].family = token[t].family
                        /\ token'[t].revoked = token[t].revoked
                        /\ t # s => (Live(t)' <=> Live(t))
  BY <1>1, <1>2, <1>3, <1>5, <1>6 DEF Issued, Live
<1>8. Live(r)' /\ ~Live(s)' /\ token'[r].family = token[s].family
  BY <1>2, <1>3, <1>5, <1>6 DEF Live
\* The other requests use other sessions.
<1>9. \A q \in Request : Using(q)' =>
        /\ q # r /\ Using(q) /\ presented[q] \in Issued
        /\ FamilyOf(q)' = FamilyOf(q) /\ FamilyOf(q) # token[s].family
        /\ presented[q] # s
  <2> SUFFICES ASSUME NEW q \in Request, Using(q)'
               PROVE  /\ q # r /\ Using(q) /\ presented[q] \in Issued
                      /\ FamilyOf(q)' = FamilyOf(q)
                      /\ FamilyOf(q) # token[s].family
                      /\ presented[q] # s
    OBVIOUS
  <2>1. q # r /\ Using(q) /\ Using(r)
    BY <1>1 DEF Using
  <2>2. presented[q] \in Issued /\ FamilyOf(r) = token[s].family
    BY <1>0, <2>1 DEF Using, IInv, PresentedIssued, FamilyOf
  <2>3. FamilyOf(q) # token[s].family
    BY <2>1, <2>2 DEF SerialInv, OneAtATime
  <2>4. FamilyOf(q)' = FamilyOf(q) /\ presented[q] # s
    BY <1>1, <1>7, <2>2, <2>3 DEF FamilyOf
  <2>5. QED
    BY <2>1, <2>2, <2>3, <2>4
<1>10. OneAtATime'
  BY <1>9 DEF SerialInv, OneAtATime
<1>11. RotatesLive'
  <2> SUFFICES ASSUME NEW q \in Request, pc'[q] \in {"marking", "minting"}
               PROVE  op'[q] = "refresh" /\ Live(presented[q])'
    BY <1>1 DEF RotatesLive, Live
  <2>1. /\ presented[q] \in Issued /\ pc[q] = pc'[q]
        /\ presented[q] # s
    BY <1>1, <1>9 DEF Using
  <2>2. op[q] = "refresh" /\ Live(presented[q])
    BY <2>1 DEF SerialInv, RotatesLive
  <2>3. QED
    BY <1>1, <1>7, <2>1, <2>2
<1>12. FindsFamily'
  <2> SUFFICES ASSUME NEW q \in Request, pc'[q] = "waiting"
               PROVE  victims'[q] = Members(FamilyOf(q))'
    BY DEF FindsFamily
  <2>1. /\ pc[q] = "waiting" /\ FamilyOf(q)' = FamilyOf(q)
        /\ FamilyOf(q) # token[s].family
    BY <1>1, <1>9 DEF Using
  <2>2. Members(FamilyOf(q))' = Members(FamilyOf(q))
    BY <1>6, <1>7, <1>8, <2>1 DEF Members
  <2>3. QED
    BY <1>1, <2>1, <2>2 DEF SerialInv, FindsFamily
\* The session of s was not revoked, and s was its live token.
<1>13. \A t \in Issued : token[t].family = token[s].family =>
         ~token[t].revoked /\ (Live(t) => t = s)
  BY <1>2 DEF SerialInv, RevokedWhole, LiveUnique, Live
<1>14. RevokedWhole'
  <2> SUFFICES ASSUME NEW u \in Issued', NEW t \in Issued',
                      token'[u].family = token'[t].family, token'[u].revoked
               PROVE  token'[t].revoked
    BY DEF RevokedWhole
  <2>1. u # r /\ u \in Issued
    BY <1>6, <1>8 DEF Live
  <2>2. t # r
    BY <1>7, <1>8, <1>13, <2>1
  <2>3. QED
    BY <1>6, <1>7, <2>1, <2>2 DEF SerialInv, RevokedWhole
<1>15. LiveUnique'
  <2> SUFFICES ASSUME NEW u \in Issued', NEW t \in Issued',
                      token'[u].family = token'[t].family, Live(u)', Live(t)'
               PROVE  u = t
    BY DEF LiveUnique
  <2>1. \A v \in Issued : token'[v].family = token[s].family => ~Live(v)'
    BY <1>7, <1>8, <1>13
  <2>2. CASE u = r \/ t = r
    BY <1>6, <1>8, <2>1, <2>2
  <2>3. CASE u \in Issued /\ t \in Issued
    BY <1>7, <1>8, <2>3 DEF SerialInv, LiveUnique
  <2>4. QED
    BY <1>6, <2>2, <2>3
<1>16. LiveExists'
  <2> SUFFICES ASSUME NEW t \in Issued', ~token'[t].revoked
               PROVE  \E u \in Issued' : /\ token'[u].family = token'[t].family
                                         /\ Live(u)'
    BY DEF LiveExists
  <2>1. CASE token'[t].family = token[s].family
    BY <1>6, <1>8, <2>1
  <2>2. CASE token'[t].family # token[s].family
    <3>1. t \in Issued
      BY <1>6, <1>8, <2>2
    <3>2. PICK u \in Issued : token[u].family = token[t].family /\ Live(u)
      BY <1>7, <3>1 DEF SerialInv, LiveExists
    <3>3. u # s
      BY <1>7, <2>2, <3>1, <3>2
    <3>4. QED
      BY <1>6, <1>7, <3>1, <3>2, <3>3
  <2>3. QED
    BY <2>1, <2>2
<1>17. QED
  BY <1>10, <1>11, <1>12, <1>14, <1>15, <1>16 DEF SerialInv

\* What a revocation does to the rows: exactly the session is revoked.
LEMMA RevokedRows ==
  ASSUME IInv, SerialInv, NEW r \in Request, RevokeRows(r)
  PROVE  /\ Issued' = Issued
         /\ op' = op /\ presented' = presented /\ victims' = victims
         /\ pc[r] = "waiting" /\ pc'[r] = "done" /\ presented[r] \in Issued
         /\ \A q \in Request \ {r} : pc'[q] = pc[q]
         /\ \A t \in Request :
              /\ token'[t].family = token[t].family
              /\ token'[t].used <=> token[t].used
              /\ t \in Members(FamilyOf(r)) => token'[t].revoked
              /\ t \notin Members(FamilyOf(r)) =>
                   (token'[t].revoked <=> token[t].revoked)
<1>1. /\ op' = op /\ presented' = presented /\ victims' = victims
      /\ pc[r] = "waiting" /\ pc'[r] = "done"
      /\ \A q \in Request \ {r} : pc'[q] = pc[q]
  BY DEF RevokeRows, Answer, Goto, inputs, IInv, TypeOK
<1>2. victims[r] = Members(FamilyOf(r))
  BY <1>1 DEF SerialInv, FindsFamily
<1>3. ASSUME NEW t \in Request
      PROVE  /\ token'[t].family = token[t].family
             /\ token'[t].used <=> token[t].used
             /\ t \in victims[r] => token'[t].revoked
             /\ t \notin victims[r] => (token'[t].revoked <=> token[t].revoked)
  <2>1. token[t] \in Token
    BY DEF IInv, TypeOK
  <2>2. token'[t] = IF t \in victims[r] THEN [token[t] EXCEPT !.revoked = TRUE]
                                        ELSE token[t]
    BY DEF RevokeRows
  <2>3. /\ [token[t] EXCEPT !.revoked = TRUE].family = token[t].family
        /\ [token[t] EXCEPT !.revoked = TRUE].used = token[t].used
        /\ [token[t] EXCEPT !.revoked = TRUE].revoked
    BY <2>1 DEF Token
  <2>4. QED
    BY <2>2, <2>3
<1>4. Issued' = Issued
  BY <1>3 DEF Issued
<1>5. presented[r] \in Issued
  BY <1>1 DEF IInv, PresentedIssued
<1>6. QED
  BY <1>1, <1>2, <1>3, <1>4, <1>5

\* A revocation is committed.
LEMMA RevokeRowsSerial ==
  ASSUME IInv, SerialInv, NEW r \in Request, RevokeRows(r)
  PROVE  SerialInv'
<1>0. PICK f : f = FamilyOf(r)
  OBVIOUS
<1>1. /\ Issued' = Issued
      /\ op' = op /\ presented' = presented /\ victims' = victims
      /\ pc[r] = "waiting" /\ pc'[r] = "done"
      /\ \A q \in Request \ {r} : pc'[q] = pc[q]
      /\ \A t \in Request :
           /\ token'[t].family = token[t].family
           /\ token'[t].used <=> token[t].used
           /\ t \in Members(f) => token'[t].revoked
           /\ t \notin Members(f) => (token'[t].revoked <=> token[t].revoked)
  BY <1>0, RevokedRows
<1>2. \A t \in Issued :
        /\ t \in Request
        /\ token[t].family = f => token'[t].revoked /\ ~Live(t)'
        /\ token[t].family # f => /\ token'[t].revoked <=> token[t].revoked
                                  /\ Live(t)' <=> Live(t)
  BY <1>1 DEF Members, Issued, Live
<1>3. \A q \in Request : Using(q)' =>
        /\ q # r /\ Using(q) /\ presented[q] \in Issued
        /\ FamilyOf(q)' = FamilyOf(q) /\ FamilyOf(q) # f
  <2> SUFFICES ASSUME NEW q \in Request, Using(q)'
               PROVE  /\ q # r /\ Using(q) /\ presented[q] \in Issued
                      /\ FamilyOf(q)' = FamilyOf(q) /\ FamilyOf(q) # f
    OBVIOUS
  <2>1. q # r /\ Using(q) /\ Using(r)
    BY <1>1 DEF Using
  <2>2. presented[q] \in Issued
    BY <2>1 DEF Using, IInv, PresentedIssued
  <2>3. FamilyOf(q) # f
    BY <1>0, <2>1 DEF SerialInv, OneAtATime
  <2>4. FamilyOf(q)' = FamilyOf(q)
    BY <1>1, <1>2, <2>2 DEF FamilyOf
  <2>5. QED
    BY <2>1, <2>2, <2>3, <2>4
<1>4. OneAtATime'
  BY <1>3 DEF SerialInv, OneAtATime
<1>5. RotatesLive'
  <2> SUFFICES ASSUME NEW q \in Request, pc'[q] \in {"marking", "minting"}
               PROVE  op'[q] = "refresh" /\ Live(presented[q])'
    BY <1>1 DEF RotatesLive, Live
  <2>1. /\ presented[q] \in Issued /\ pc[q] = pc'[q]
        /\ token[presented[q]].family # f
    BY <1>1, <1>3 DEF Using, FamilyOf
  <2>2. op[q] = "refresh" /\ Live(presented[q])
    BY <2>1 DEF SerialInv, RotatesLive
  <2>3. QED
    BY <1>1, <1>2, <2>1, <2>2
<1>6. FindsFamily'
  <2> SUFFICES ASSUME NEW q \in Request, pc'[q] = "waiting"
               PROVE  victims'[q] = Members(FamilyOf(q))'
    BY DEF FindsFamily
  <2>1. pc[q] = "waiting" /\ FamilyOf(q)' = FamilyOf(q)
    BY <1>1, <1>3 DEF Using
  <2>2. Members(FamilyOf(q))' = Members(FamilyOf(q))
    BY <1>1, <1>2, <2>1 DEF Members
  <2>3. QED
    BY <1>1, <2>1, <2>2 DEF SerialInv, FindsFamily
<1>7. RevokedWhole' /\ LiveUnique'
  BY <1>1, <1>2 DEF SerialInv, RevokedWhole, LiveUnique
<1>8. LiveExists'
  <2> SUFFICES ASSUME NEW t \in Issued, ~token'[t].revoked
               PROVE  \E s \in Issued : /\ token'[s].family = token'[t].family
                                        /\ Live(s)'
    BY <1>1 DEF LiveExists
  <2>1. token[t].family # f /\ ~token[t].revoked
    BY <1>2
  <2>2. PICK s \in Issued : token[s].family = token[t].family /\ Live(s)
    BY <2>1 DEF SerialInv, LiveExists
  <2>3. QED
    BY <1>1, <1>2, <2>1, <2>2
<1>9. QED
  BY <1>4, <1>5, <1>6, <1>7, <1>8 DEF SerialInv

-----------------------------------------------------------------------------
\* EndedWhole, when nothing fails.

\* The steps without a token row.
LEMMA QuietEnded ==
  ASSUME IInv, EndedWhole, ~Faults, NEW r \in Request,
         \/ StartRegister(r) \/ FindByEmail(r) \/ CreateUser(r) \/ Greet(r)
         \/ MarkRefreshUsed(r) \/ RevokeFamily(r) \/ RevokeFails(r) \/ Fail(r)
         \/ \E t \in Request : GetRefresh(r, t) \/ Logout(r, t)
  PROVE  EndedWhole'
<1> USE DEF Goto, Answer, inputs
<1> DEFINE Others == /\ token' = token
                     /\ \A q \in Request \ {r} :
                          /\ pc'[q] = pc[q] /\ op'[q] = op[q]
                          /\ presented'[q] = presented[q] /\ resp'[q] = resp[q]
                     /\ pc[r] # "done" /\ pc'[r] # "idle"
                     /\ pc'[r] # "done" => resp'[r] = resp[r]
                     /\ ~(pc'[r] = "done" /\ op'[r] \in {"logout", "reuse"})
<1>1. StartRegister(r) => Others
  BY DEF StartRegister, IInv, TypeOK
<1>2. FindByEmail(r) => Others
  BY DEF FindByEmail, IInv, TypeOK
<1>3. CreateUser(r) => Others
  BY DEF CreateUser, IInv, TypeOK, OpFitsStep
<1>4. Greet(r) => Others
  BY DEF Greet, IInv, TypeOK, OpFitsStep
<1>5. MarkRefreshUsed(r) => Others
  BY DEF MarkRefreshUsed, IInv, TypeOK
<1>6. RevokeFamily(r) => Others
  BY DEF RevokeFamily, IInv, TypeOK
<1>7. ~RevokeFails(r) /\ ~Fail(r)
  BY DEF RevokeFails, Fail
<1>8. ASSUME NEW t \in Request, GetRefresh(r, t) \/ Logout(r, t) PROVE Others
  BY <1>8 DEF GetRefresh, Logout, IInv, TypeOK
<1>9. Others => EndedWhole'
  <2> SUFFICES ASSUME Others PROVE EndedWhole'
    OBVIOUS
  <2>1. Issued' = Issued /\ \A f : Members(f)' = Members(f)
    BY DEF Issued, Members
  <2>2. \A q \in Request \ {r} : FamilyOf(q)' = FamilyOf(q)
    BY DEF FamilyOf
  <2>3. QED
    BY <2>1, <2>2 DEF EndedWhole
<1> HIDE DEF Others
<1>10. QED
  BY <1>1, <1>2, <1>3, <1>4, <1>5, <1>6, <1>7, <1>8, <1>9

\* What the three steps that store a token have in common: they are taken
\* neither by a logout nor in a session that has been revoked.
LEMMA StoredElsewhere ==
  ASSUME IInv, SerialInv, EndedWhole, NEW r \in Request,
         CommitRegister(r) \/ OpenSession(r) \/ CommitRotation(r)
  PROVE  /\ r \notin Issued /\ Issued' = Issued \cup {r}
         /\ op' = op /\ presented' = presented
         /\ pc[r] # "done" /\ pc'[r] \in {"greeting", "done"}
         /\ op[r] \notin {"logout", "reuse"}
         /\ pc'[r] # "done" => resp'[r] = resp[r]
         /\ \A q \in Request \ {r} : pc'[q] = pc[q] /\ resp'[q] = resp[q]
         /\ \A t \in Issued : /\ token'[t].family = token[t].family
                              /\ token'[t].revoked = token[t].revoked
         /\ \A q \in Request :
              pc[q] = "done" /\ op[q] \in {"logout", "reuse"} =>
                token'[r].family # FamilyOf(q)
<1>1. /\ r \notin Issued /\ op' = op /\ presented' = presented
      /\ pc[r] # "done" /\ pc'[r] \in {"greeting", "done"}
      /\ pc'[r] # "done" => resp'[r] = resp[r]
      /\ \A q \in Request \ {r} : pc'[q] = pc[q] /\ resp'[q] = resp[q]
  BY DEF CommitRegister, OpenSession, CommitRotation, Answer, Goto, inputs,
         IInv, TypeOK, NotYetIssued
<1>2. op[r] \notin {"logout", "reuse"}
  BY DEF CommitRegister, OpenSession, CommitRotation, IInv, OpFitsStep,
         SerialInv, RotatesLive
<1>3. CASE CommitRegister(r) \/ OpenSession(r)
  <2>1. /\ token'[r].family = r /\ r # NoFamily
        /\ \A t \in Request \ {r} : token'[t] = token[t]
    BY <1>3, SessionsAssumption
    DEF CommitRegister, OpenSession, Fresh, IInv, TypeOK
  <2>2. Issued' = Issued \cup {r}
    BY <2>1 DEF Issued
  <2>3. \A t \in Issued : token'[t] = token[t] /\ token[t].family # r
    BY <1>1, <2>1, FamilyIssued DEF Issued
  <2>4. QED
    BY <1>1, <1>2, <2>1, <2>2, <2>3 DEF EndedWhole, FamilyOf
<1>4. CASE CommitRotation(r)
  <2>0. PICK s \in Request : s = presented[r]
    BY DEF IInv, TypeOK
  <2> DEFINE spent == [token[s] EXCEPT !.used = TRUE]
             new == Fresh(FamilyOf(r))
  <2>1. /\ s \in Issued /\ s # r /\ ~token[s].revoked
        /\ token[s] \in Token
    BY <1>1, <1>4, <2>0, FamilyIssued
    DEF CommitRotation, IInv, PresentedIssued, SerialInv, RotatesLive, Live
  <2>2. /\ spent.family = token[s].family /\ spent.revoked = token[s].revoked
        /\ new.family = token[s].family /\ token[s].family # NoFamily
    BY <2>0, <2>1 DEF Token, Fresh, FamilyOf, Issued
  <2>3. /\ token' = [token EXCEPT ![s] = spent, ![r] = new]
        /\ token \in [Request -> Token]
    BY <1>4, <2>0 DEF CommitRotation, IInv, TypeOK
  <2> HIDE DEF spent, new
  <2>4. /\ token'[r] = new /\ token'[s] = spent
        /\ \A t \in Request \ {r, s} : token'[t] = token[t]
    BY <2>1, <2>3
  <2>5. Issued' = Issued \cup {r}
    BY <2>1, <2>2, <2>4 DEF Issued
  <2>6. \A t \in Issued : /\ token'[t].family = token[t].family
                         /\ token'[t].revoked = token[t].revoked
    BY <1>1, <2>2, <2>4 DEF Issued
  <2>7. ASSUME NEW q \in Request,
               pc[q] = "done", op[q] \in {"logout", "reuse"}
        PROVE  token[s].family # FamilyOf(q)
    BY <2>1, <2>7 DEF EndedWhole, Members
  <2>8. QED
    BY <1>1, <1>2, <2>2, <2>4, <2>5, <2>6, <2>7
<1>5. QED
  BY <1>3, <1>4

\* A token is stored.
LEMMA StoredEnded ==
  ASSUME IInv, SerialInv, EndedWhole, NEW r \in Request,
         CommitRegister(r) \/ OpenSession(r) \/ CommitRotation(r)
  PROVE  EndedWhole'
<1>1. /\ r \notin Issued /\ Issued' = Issued \cup {r}
      /\ op' = op /\ presented' = presented
      /\ pc'[r] \in {"greeting", "done"}
      /\ pc[r] # "done" /\ op[r] \notin {"logout", "reuse"}
      /\ pc'[r] # "done" => resp'[r] = resp[r]
      /\ \A q \in Request \ {r} : pc'[q] = pc[q] /\ resp'[q] = resp[q]
      /\ \A t \in Issued : /\ token'[t].family = token[t].family
                           /\ token'[t].revoked = token[t].revoked
      /\ \A q \in Request :
           pc[q] = "done" /\ op[q] \in {"logout", "reuse"} =>
             token'[r].family # FamilyOf(q)
  BY StoredElsewhere
<1> SUFFICES ASSUME NEW q \in Request
             PROVE  /\ pc'[q] = "idle" => op'[q] = "none"
                    /\ pc'[q] # "done" => resp'[q] = 0
                    /\ pc'[q] = "done" /\ op'[q] \in {"logout", "reuse"} =>
                         /\ presented'[q] \in Issued'
                         /\ \A t \in Members(FamilyOf(q))' : token'[t].revoked
  BY DEF EndedWhole
<1>2. /\ pc'[q] = "idle" => op'[q] = "none"
      /\ pc'[q] # "done" => resp'[q] = 0
  BY <1>1 DEF EndedWhole
<1>3. ASSUME pc'[q] = "done", op'[q] \in {"logout", "reuse"}
      PROVE  /\ presented'[q] \in Issued'
             /\ \A t \in Members(FamilyOf(q))' : token'[t].revoked
  <2>1. /\ pc[q] = "done" /\ op[q] \in {"logout", "reuse"} /\ q # r
    BY <1>1, <1>3
  <2>2. presented[q] \in Issued /\ FamilyOf(q)' = FamilyOf(q)
    BY <1>1, <2>1 DEF EndedWhole, FamilyOf
  <2>3. Members(FamilyOf(q))' = Members(FamilyOf(q))
    BY <1>1, <2>1, <2>2 DEF Members
  <2>4. \A t \in Members(FamilyOf(q)) : t \in Issued /\ token[t].revoked
    BY <2>1 DEF EndedWhole, Members
  <2>5. QED
    BY <1>1, <2>2, <2>3, <2>4
<1>4. QED
  BY <1>2, <1>3

\* A revocation is committed.
LEMMA RevokeRowsEnded ==
  ASSUME IInv, SerialInv, EndedWhole, NEW r \in Request, RevokeRows(r)
  PROVE  EndedWhole'
<1>1. /\ Issued' = Issued
      /\ op' = op /\ presented' = presented
      /\ pc'[r] = "done" /\ presented[r] \in Issued
      /\ \A q \in Request \ {r} : pc'[q] = pc[q] /\ resp'[q] = resp[q]
      /\ \A t \in Request :
           /\ token'[t].family = token[t].family
           /\ t \in Members(FamilyOf(r)) => token'[t].revoked
           /\ t \notin Members(FamilyOf(r)) =>
                (token'[t].revoked <=> token[t].revoked)
  <2>1. \A q \in Request \ {r} : resp'[q] = resp[q]
    BY DEF RevokeRows, Answer, IInv, TypeOK
  <2>2. /\ Issued' = Issued
        /\ op' = op /\ presented' = presented
        /\ pc'[r] = "done" /\ presented[r] \in Issued
        /\ \A q \in Request \ {r} : pc'[q] = pc[q]
    BY RevokedRows
  <2>3. ASSUME NEW t \in Request
        PROVE  /\ token'[t].family = token[t].family
               /\ t \in Members(FamilyOf(r)) => token'[t].revoked
               /\ t \notin Members(FamilyOf(r)) =>
                    (token'[t].revoked <=> token[t].revoked)
    BY RevokedRows
  <2>4. QED
    BY <2>1, <2>2, <2>3
<1>2. ASSUME NEW q \in Request, presented[q] \in Issued
      PROVE  Members(FamilyOf(q))' = Members(FamilyOf(q))
  BY <1>1, <1>2 DEF Members, Issued, FamilyOf
<1>3. \A f : Members(f) \subseteq Request
  BY DEF Members, Issued
<1> HIDE DEF Members
<1>4. QED
  BY <1>1, <1>2, <1>3 DEF EndedWhole

-----------------------------------------------------------------------------
\* The specification.

LEMMA InitSerial == Init => SerialInv /\ EndedWhole
<1> SUFFICES ASSUME Init PROVE SerialInv /\ EndedWhole
  OBVIOUS
<1>1. /\ Issued = {}
      /\ \A r \in Request : pc[r] = "idle" /\ op[r] = "none" /\ resp[r] = 0
  BY DEF Init, Issued, NoToken
<1>2. QED
  BY <1>1 DEF SerialInv, EndedWhole, OneAtATime, RotatesLive, FindsFamily,
              RevokedWhole, LiveUnique, LiveExists, Using

\* A step that changes nothing.
LEMMA StutterSerial ==
  UNCHANGED vars => /\ SerialInv => SerialInv'
                    /\ EndedWhole => EndedWhole'
BY DEF vars, SerialInv, EndedWhole, OneAtATime, RotatesLive, FindsFamily,
       RevokedWhole, LiveUnique, LiveExists, Using, FamilyOf, Members, Issued,
       Live

\* Every step keeps SerialInv, with failures or without.
LEMMA NextSerial ==
  ASSUME Serial, IInv, SerialInv, [Next]_vars
  PROVE  SerialInv'
<1>1. ASSUME NEW r \in Request, Arrive(r) PROVE SerialInv'
  BY <1>1, QuietSerial DEF Arrive
<1>2. ASSUME NEW r \in Request, Proceed(r) PROVE SerialInv'
  BY <1>2, QuietSerial, BirthSerial, RotationSerial, RevokeRowsSerial DEF Proceed
<1>3. ASSUME NEW r \in Request, RevokeFails(r) \/ Fail(r) PROVE SerialInv'
  BY <1>3, QuietSerial
<1>4. CASE UNCHANGED vars
  BY <1>4, StutterSerial
<1>5. QED
  BY <1>1, <1>2, <1>3, <1>4 DEF Next

\* Every step keeps EndedWhole, when nothing fails.
LEMMA NextEnded ==
  ASSUME ~Faults, IInv, SerialInv, EndedWhole, [Next]_vars
  PROVE  EndedWhole'
<1>1. ASSUME NEW r \in Request, Arrive(r) PROVE EndedWhole'
  BY <1>1, QuietEnded DEF Arrive
<1>2. ASSUME NEW r \in Request, Proceed(r) PROVE EndedWhole'
  BY <1>2, QuietEnded, StoredEnded, RevokeRowsEnded DEF Proceed
<1>3. ASSUME NEW r \in Request, RevokeFails(r) \/ Fail(r) PROVE EndedWhole'
  BY <1>3, QuietEnded
<1>4. CASE UNCHANGED vars
  BY <1>4, StutterSerial
<1>5. QED
  BY <1>1, <1>2, <1>3, <1>4 DEF Next

\* What SerialInv says of the live tokens of a session.
LEMMA SerialOneLive == IInv /\ SerialInv => OneLiveToken
<1> SUFFICES ASSUME IInv, SerialInv, NEW f \in Issued
             PROVE  LET live == {t \in Members(token[f].family) : Live(t)}
                    IN IF \E t \in Members(token[f].family) : token[t].revoked
                         THEN live = {} ELSE Cardinality(live) = 1
  BY DEF OneLiveToken
<1> DEFINE g == token[f].family
           live == {t \in Members(g) : Live(t)}
<1>1. CASE \E t \in Members(g) : token[t].revoked
  <2>1. \A t \in Members(g) : token[t].revoked
    BY <1>1 DEF SerialInv, RevokedWhole, Members
  <2>2. QED
    BY <1>1, <2>1 DEF Live
<1>2. CASE ~\E t \in Members(g) : token[t].revoked
  <2>1. f \in Members(g)
    BY DEF Members
  <2>2. PICK s \in Issued : token[s].family = g /\ Live(s)
    BY <1>2, <2>1 DEF SerialInv, LiveExists
  <2>3. live = {s}
    BY <2>2 DEF SerialInv, LiveUnique, Members
  <2>4. Cardinality(live) = 1
    BY <2>3, FS_Singleton
  <2>5. QED
    BY <1>2, <2>4
<1>3. QED
  BY <1>1, <1>2

\* What EndedWhole says of the sessions that logout and reuse have ended.
LEMMA EndedNotLive ==
  IInv /\ EndedWhole => LogoutEndsSession /\ ReuseEndsSession
<1> SUFFICES ASSUME IInv, EndedWhole, NEW r \in Request,
                    \/ pc[r] = "done" /\ op[r] = "logout"
                    \/ op[r] = "reuse" /\ resp[r] = 401,
                    NEW t \in Members(FamilyOf(r))
             PROVE  ~Live(t)
  BY DEF LogoutEndsSession, ReuseEndsSession
<1>1. QED
  BY DEF EndedWhole, Live

\* Whatever fails, a session used by one request at a time has one live refresh
\* token until it is revoked, and none after: refresh marks, mints and commits
\* in one transaction.
THEOREM SessionStaysUsable == Serial /\ Spec => []OneLiveToken
<1> DEFINE Inv == IInv /\ SerialInv
<1>1. ASSUME Serial PROVE Init => Inv
  BY InitIInv, InitSerial
<1>2. ASSUME Serial PROVE Inv /\ [Next]_vars => Inv'
  BY <1>2, NextIInv, NextSerial
<1>3. Inv => OneLiveToken
  BY SerialOneLive
<1> HIDE DEF Inv
<1>4. CASE Serial
  BY <1>1, <1>2, <1>3, <1>4, PTL DEF Spec
<1>5. QED
  BY <1>4

\* When nothing fails, no session outlives the request that ends it.
LEMMA EndsInvariance ==
  Serial /\ ~Faults /\ Spec => [](LogoutEndsSession /\ ReuseEndsSession)
<1> DEFINE Inv == IInv /\ SerialInv /\ EndedWhole
<1>1. ASSUME Serial, ~Faults PROVE Init => Inv
  BY InitIInv, InitSerial
<1>2. ASSUME Serial, ~Faults PROVE Inv /\ [Next]_vars => Inv'
  BY <1>2, NextIInv, NextSerial, NextEnded
<1>3. Inv => LogoutEndsSession /\ ReuseEndsSession
  BY EndedNotLive
<1> HIDE DEF Inv
<1>4. CASE Serial /\ ~Faults
  BY <1>1, <1>2, <1>3, <1>4, PTL DEF Spec
<1>5. QED
  BY <1>4

\* When nothing fails, the logout of a session whose requests come one at a
\* time leaves no live token: RevokeFamily and the 204 of logout.
THEOREM SessionsEnd == Serial /\ ~Faults /\ Spec => []LogoutEndsSession
BY EndsInvariance, PTL

\* Likewise the reuse of one of its tokens: RevokeFamily and the 401 of refresh.
THEOREM ReuseEnds == Serial /\ ~Faults /\ Spec => []ReuseEndsSession
BY EndsInvariance, PTL

-----------------------------------------------------------------------------
\* Such sessions implement SessionBook.

LEMMA NextSignedIn ==
  ASSUME IInv, SignedInKnown, [Next]_vars
  PROVE  SignedInKnown'
<1> USE DEF Goto, Answer, inputs
<1> DEFINE Keeps(r) == /\ \E step : pc' = [pc EXCEPT ![r] = step]
                       /\ pc'[r] = "opening" => account[who[r]]
                       /\ who' = who
                       /\ \A u \in User : account[u] => account'[u]
<1>1. ASSUME NEW r \in Request, Arrive(r) PROVE Keeps(r)
  BY <1>1
  DEF Arrive, StartRegister, FindByEmail, GetRefresh, Logout, IInv, TypeOK
<1>2. ASSUME NEW r \in Request, Proceed(r) PROVE Keeps(r)
  BY <1>2
  DEF Proceed, CreateUser, CommitRegister, Greet, OpenSession,
      MarkRefreshUsed, CommitRotation, RevokeFamily, RevokeRows, IInv, TypeOK
<1>3. ASSUME NEW r \in Request, RevokeFails(r) \/ Fail(r) PROVE Keeps(r)
  BY <1>3 DEF RevokeFails, Fail, IInv, TypeOK
<1>4. ASSUME NEW r \in Request, Keeps(r) PROVE SignedInKnown'
  BY <1>4 DEF SignedInKnown, IInv, TypeOK
<1>5. CASE UNCHANGED vars
  BY <1>5 DEF vars, SignedInKnown
<1> HIDE DEF Keeps
<1>6. QED
  BY <1>1, <1>2, <1>3, <1>4, <1>5 DEF Next

\* One token more, of session s.
LEMMA SessionsWith ==
  ASSUME NEW r \in Request, NEW s, token'[r].family = s,
         \A t \in Request \ {r} : token'[t].family = token[t].family
  PROVE  [t \in Request |-> token'[t].family]
           = [[t \in Request |-> token[t].family] EXCEPT ![r] = s]
<1> DEFINE was == [t \in Request |-> token[t].family]
           is == [t \in Request |-> token'[t].family]
<1>1. DOMAIN is = Request /\ DOMAIN was = Request
  OBVIOUS
<1>2. \A t \in Request : is[t] = IF t = r THEN s ELSE was[t]
  OBVIOUS
<1>3. is = [t \in Request |-> IF t = r THEN s ELSE was[t]]
  BY <1>2
<1>4. [was EXCEPT ![r] = s] = [t \in Request |-> IF t = r THEN s ELSE was[t]]
  BY <1>1
<1>5. QED
  BY <1>3, <1>4

\* A registration or a login that commits opens a session of one token.
LEMMA BirthBook ==
  ASSUME IInv, SignedInKnown, NEW r \in Request,
         CommitRegister(r) \/ OpenSession(r)
  PROVE  Book!Next
<1>1. /\ r \notin Issued /\ token[r].family = NoFamily
      /\ who[r] \in User /\ r # NoFamily
  BY SessionsAssumption
  DEF CommitRegister, OpenSession, IInv, TypeOK, NotYetIssued, Issued
<1>2. /\ token'[r] = Fresh(r)
      /\ \A t \in Request \ {r} : token'[t] = token[t]
  BY DEF CommitRegister, OpenSession, IInv, TypeOK
<1>3. [t \in Request |-> token'[t].family]
        = [[t \in Request |-> token[t].family] EXCEPT ![r] = r]
  BY <1>2, SessionsWith DEF Fresh
<1>4. {t \in Request : Live(t)'} = {t \in Request : Live(t)} \cup {r}
  BY <1>1, <1>2 DEF Live, Issued, Fresh
<1>5. Book!Issue(r, r)
  BY <1>1, <1>3 DEF Book!Issue
<1>6. CASE CommitRegister(r)
  <2>1. /\ ~account[who[r]]
        /\ account' = [account EXCEPT ![who[r]] = TRUE]
    BY <1>6 DEF CommitRegister, IInv, AddressTaken
  <2>2. Book!Register(who[r], r)
    BY <1>4, <1>5, <2>1 DEF Book!Register
  <2>3. QED
    BY <1>1, <2>2 DEF Book!Next
<1>7. CASE OpenSession(r)
  <2>1. account[who[r]] /\ account' = account
    BY <1>7 DEF OpenSession, SignedInKnown
  <2>2. Book!Login(who[r], r)
    BY <1>4, <1>5, <2>1 DEF Book!Login
  <2>3. QED
    BY <1>1, <2>2 DEF Book!Next
<1>8. QED
  BY <1>6, <1>7

\* A refresh that commits exchanges the token it presented.
LEMMA RotationBook ==
  ASSUME IInv, SerialInv, NEW r \in Request, CommitRotation(r)
  PROVE  Book!Next
<1>1. PICK o \in Request : o = presented[r]
  BY DEF IInv, TypeOK
<1>2. /\ r \notin Issued /\ token[r].family = NoFamily
      /\ Live(o) /\ o \in Issued /\ o # r /\ token[o] \in Token
      /\ token[o].family # NoFamily
  BY <1>1
  DEF CommitRotation, IInv, TypeOK, NotYetIssued, Issued, SerialInv,
      RotatesLive, Live
<1> DEFINE spent == [token[o] EXCEPT !.used = TRUE]
<1>3. spent.family = token[o].family /\ spent.used
  BY <1>2 DEF Token
<1>4. /\ token' = [token EXCEPT ![o] = spent, ![r] = Fresh(token[o].family)]
      /\ token \in [Request -> Token] /\ account' = account
  BY <1>1 DEF CommitRotation, FamilyOf, IInv, TypeOK
<1> HIDE DEF spent
<1>5. /\ token'[o] = spent /\ token'[r] = Fresh(token[o].family)
      /\ \A t \in Request \ {o, r} : token'[t] = token[t]
  BY <1>2, <1>4
<1>6. [t \in Request |-> token'[t].family]
        = [[t \in Request |-> token[t].family] EXCEPT ![r] = token[o].family]
  <2>1. token'[r].family = token[o].family
    BY <1>5 DEF Fresh
  <2>2. \A t \in Request \ {r} : token'[t].family = token[t].family
    BY <1>3, <1>5
  <2>3. QED
    BY <2>1, <2>2, SessionsWith
<1>7. {t \in Request : Live(t)'} = ({t \in Request : Live(t)} \ {o}) \cup {r}
  <2>1. Live(r)' /\ ~Live(o)'
    BY <1>2, <1>3, <1>5 DEF Live, Issued, Fresh
  <2>2. \A t \in Request \ {o, r} : Live(t)' <=> Live(t)
    BY <1>5 DEF Live, Issued
  <2>3. QED
    BY <2>1, <2>2
<1>8. Book!Rotate(o, r)
  BY <1>2, <1>4, <1>6, <1>7 DEF Book!Rotate, Book!Issue
<1>9. QED
  BY <1>2, <1>8 DEF Book!Next

\* A revocation that commits takes the live token of its session, if the
\* session has not been revoked before.
LEMMA RevokeRowsBook ==
  ASSUME IInv, SerialInv, NEW r \in Request, RevokeRows(r)
  PROVE  [Book!Next]_(Book!vars)
<1> DEFINE family == [t \in Request |-> token[t].family]
           livings == {t \in Request : Live(t)}
<1>1. /\ account' = account /\ Issued' = Issued
      /\ \A t \in Request :
           /\ token'[t].family = token[t].family
           /\ token'[t].used <=> token[t].used
           /\ t \in Members(FamilyOf(r)) => token'[t].revoked
           /\ t \notin Members(FamilyOf(r)) =>
                (token'[t].revoked <=> token[t].revoked)
  BY RevokedRows DEF RevokeRows
<1>2. family' = family
  BY <1>1
<1>3. \A t \in Request : Live(t)' <=> Live(t) /\ t \notin Members(FamilyOf(r))
  BY <1>1 DEF Live
<1>4. CASE \A t \in Members(FamilyOf(r)) : ~Live(t)
  <2>1. livings' = livings
    BY <1>3, <1>4
  <2>2. QED
    BY <1>1, <1>2, <2>1 DEF Book!vars
<1>5. CASE \E t \in Members(FamilyOf(r)) : Live(t)
  <2>1. PICK t \in Members(FamilyOf(r)) : Live(t)
    BY <1>5
  <2>2. \A s \in Members(FamilyOf(r)) : Live(s) => s = t
    BY <2>1 DEF SerialInv, LiveUnique, Members
  <2>3. livings' = livings \ {t} /\ t \in livings
    BY <1>3, <2>1, <2>2 DEF Members, Issued
  <2>4. Book!End(t)
    BY <1>1, <1>2, <2>3 DEF Book!End
  <2>5. QED
    BY <2>3, <2>4 DEF Book!Next
<1>6. QED
  BY <1>4, <1>5

\* The other statements touch neither accounts nor tokens.
LEMMA QuietBook ==
  UNCHANGED <<account, token>> => UNCHANGED Book!vars
BY DEF Book!vars, Live, Issued

LEMMA NextBook ==
  ASSUME IInv, SerialInv, SignedInKnown, [Next]_vars
  PROVE  [Book!Next]_(Book!vars)
<1>1. ASSUME NEW r \in Request, Arrive(r) PROVE UNCHANGED <<account, token>>
  BY <1>1 DEF Arrive, StartRegister, FindByEmail, GetRefresh, Logout
<1>2. ASSUME NEW r \in Request, Proceed(r)
      PROVE  [Book!Next]_(Book!vars)
  <2>1. CASE \/ CreateUser(r) \/ Greet(r) \/ MarkRefreshUsed(r)
             \/ RevokeFamily(r)
    <3>1. UNCHANGED <<account, token>>
      BY <2>1 DEF CreateUser, Greet, MarkRefreshUsed, RevokeFamily
    <3>2. QED
      BY <3>1, QuietBook
  <2>2. QED
    BY <1>2, <2>1, BirthBook, RotationBook, RevokeRowsBook DEF Proceed
<1>3. ASSUME NEW r \in Request, RevokeFails(r) \/ Fail(r)
      PROVE  UNCHANGED <<account, token>>
  BY <1>3 DEF RevokeFails, Fail
<1>4. UNCHANGED vars => UNCHANGED <<account, token>>
  BY DEF vars
<1>5. QED
  BY <1>1, <1>2, <1>3, <1>4, QuietBook DEF Next

LEMMA InitBook == Init => Book!Init /\ SignedInKnown
<1> SUFFICES ASSUME Init PROVE Book!Init /\ SignedInKnown
  OBVIOUS
<1>1. \A t \in Request : token[t].family = NoFamily /\ ~Live(t)
  BY DEF Init, NoToken, Live, Issued
<1>2. Book!Init
  BY <1>1 DEF Init, Book!Init
<1>3. QED
  BY <1>2 DEF Init, SignedInKnown

\* register, login, refresh and logout, interleaved statement by statement with
\* failures and with other sessions, do for a session whose requests come one
\* at a time what SessionBook does in one step.
THEOREM SessionRefinement == Serial /\ Spec => ImplementsSessionBook
<1> DEFINE Inv == IInv /\ SerialInv /\ SignedInKnown
<1>1. ASSUME Serial PROVE Init => Inv /\ Book!Init
  BY InitIInv, InitSerial, InitBook
<1>2. ASSUME Serial PROVE Inv /\ [Next]_vars => Inv'
  BY <1>2, NextIInv, NextSerial, NextSignedIn
<1>3. Inv /\ [Next]_vars => [Book!Next]_(Book!vars)
  BY NextBook
<1> HIDE DEF Inv
<1>4. CASE Serial
  BY <1>1, <1>2, <1>3, <1>4, PTL DEF Spec, ImplementsSessionBook, Book!Spec
<1>5. QED
  BY <1>4
=============================================================================
