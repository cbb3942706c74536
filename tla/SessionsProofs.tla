--------------------------- MODULE SessionsProofs ---------------------------
(***************************************************************************)
(* Proofs about Sessions, for any people, requests, server and failures:   *)
(* registrations of one address exclude each other, the tokens of a        *)
(* session stay in one family, a revocation is never undone, and an        *)
(* account is made together with a session.  The argument is the inductive *)
(* invariant IInv; there is one lemma per action, and under it one step    *)
(* per part of IInv.                                                       *)
(***************************************************************************)
EXTENDS Sessions, TLAPS

\* A registration arrives.
LEMMA StartRegisterIInv ==
  ASSUME IInv, NEW r \in Request, StartRegister(r)
  PROVE  IInv'
<1> USE SessionsAssumption DEF StartRegister, Goto, Answer, inputs
<1>1. TypeOK'
  BY DEF IInv, TypeOK, Token, NoToken, Fresh
<1>2. NotYetIssued'
  BY DEF IInv, TypeOK, NotYetIssued, Issued, Fresh
<1>3. PresentedIssued'
  BY DEF IInv, TypeOK, PresentedIssued, Issued, Fresh
<1>4. VictimsKept'
  BY DEF IInv, TypeOK, VictimsKept, Issued, Members, Fresh
<1>5. OpFitsStep'
  BY DEF IInv, TypeOK, OpFitsStep
<1>6. AddressTaken'
  BY DEF IInv, TypeOK, AddressTaken
<1>7. FamiliesAreRooted'
  BY DEF IInv, TypeOK, FamiliesAreRooted, Issued, Fresh, NotYetIssued, PresentedIssued
<1>8. RegisteredOnce'
  BY DEF IInv, TypeOK, RegisteredOnce, AddressTaken
<1>9. KnownTokensRevoked'
  BY DEF IInv, TypeOK, KnownTokensRevoked, VictimsKept, NotYetIssued, Issued, Fresh
<1>10. QED
  BY <1>1, <1>2, <1>3, <1>4, <1>5, <1>6, <1>7, <1>8, <1>9 DEF IInv

\* The address is inserted, or found taken.
LEMMA CreateUserIInv ==
  ASSUME IInv, NEW r \in Request, CreateUser(r)
  PROVE  IInv'
<1> USE SessionsAssumption DEF CreateUser, Goto, Answer, inputs
<1>1. TypeOK'
  <2>1. \E step \in {"storing", "done"}, code \in {409} :
          /\ pc' = [pc EXCEPT ![r] = step]
          /\ resp' = [resp EXCEPT ![r] = code] \/ resp' = resp
    OBVIOUS
  <2>2. QED
    BY <2>1 DEF IInv, TypeOK
<1>2. NotYetIssued'
  BY DEF IInv, TypeOK, NotYetIssued, Issued, Fresh
<1>3. PresentedIssued'
  BY DEF IInv, TypeOK, PresentedIssued, Issued, Fresh
<1>4. VictimsKept'
  BY DEF IInv, TypeOK, VictimsKept, Issued, Members, Fresh
<1>5. OpFitsStep'
  BY DEF IInv, TypeOK, OpFitsStep
<1>6. AddressTaken'
  BY DEF IInv, TypeOK, AddressTaken
<1>7. FamiliesAreRooted'
  BY DEF IInv, TypeOK, FamiliesAreRooted, Issued, Fresh, NotYetIssued, PresentedIssued
<1>8. RegisteredOnce'
  BY DEF IInv, TypeOK, RegisteredOnce, AddressTaken
<1>9. KnownTokensRevoked'
  BY DEF IInv, TypeOK, KnownTokensRevoked, VictimsKept, NotYetIssued, Issued, Fresh
<1>10. QED
  BY <1>1, <1>2, <1>3, <1>4, <1>5, <1>6, <1>7, <1>8, <1>9 DEF IInv

\* The account and its first token are committed.
LEMMA CommitRegisterIInv ==
  ASSUME IInv, NEW r \in Request, CommitRegister(r)
  PROVE  IInv'
<1> USE SessionsAssumption DEF CommitRegister, Goto, Answer, inputs
<1>1. TypeOK'
  BY DEF IInv, TypeOK, Token, NoToken, Fresh
<1>2. NotYetIssued'
  BY DEF IInv, TypeOK, NotYetIssued, Issued, Fresh
<1>3. PresentedIssued'
  BY DEF IInv, TypeOK, PresentedIssued, Issued, Fresh
<1>4. VictimsKept'
  BY DEF IInv, TypeOK, VictimsKept, Issued, Members, Fresh
<1>5. OpFitsStep'
  BY DEF IInv, TypeOK, OpFitsStep
<1>6. AddressTaken'
  BY DEF IInv, TypeOK, AddressTaken
<1>7. FamiliesAreRooted'
  <2> SUFFICES ASSUME NEW t \in Issued'
               PROVE  /\ token'[token'[t].family].family = token'[t].family
                      /\ op'[token'[t].family] \in {"register", "login"}
    BY DEF FamiliesAreRooted
  <2>1. CASE t = r
    BY <2>1 DEF IInv, TypeOK, Fresh, OpFitsStep
  <2>2. CASE t # r
    <3>1. t \in Issued /\ token'[t] = token[t] /\ r \notin Issued
      BY <2>2 DEF IInv, TypeOK, Issued, NotYetIssued
    <3>2. token[t].family \in Issued
      BY <3>1 DEF IInv, TypeOK, Token, Issued, FamiliesAreRooted
    <3>3. token'[token[t].family] = token[token[t].family]
      BY <3>1, <3>2 DEF IInv, TypeOK, Issued
    <3>4. QED
      BY <3>1, <3>2, <3>3 DEF IInv, FamiliesAreRooted
  <2>3. QED
    BY <2>1, <2>2
<1>8. RegisteredOnce'
  BY DEF IInv, TypeOK, RegisteredOnce, AddressTaken
<1>9. KnownTokensRevoked'
  BY DEF IInv, TypeOK, KnownTokensRevoked, VictimsKept, NotYetIssued, Issued, Fresh
<1>10. QED
  BY <1>1, <1>2, <1>3, <1>4, <1>5, <1>6, <1>7, <1>8, <1>9 DEF IInv

\* The answer to a registration.
LEMMA GreetIInv ==
  ASSUME IInv, NEW r \in Request, Greet(r)
  PROVE  IInv'
<1> USE SessionsAssumption DEF Greet, Goto, Answer, inputs
<1>1. TypeOK'
  BY DEF IInv, TypeOK, Token, NoToken, Fresh
<1>2. NotYetIssued'
  BY DEF IInv, TypeOK, NotYetIssued, Issued, Fresh
<1>3. PresentedIssued'
  BY DEF IInv, TypeOK, PresentedIssued, Issued, Fresh
<1>4. VictimsKept'
  BY DEF IInv, TypeOK, VictimsKept, Issued, Members, Fresh
<1>5. OpFitsStep'
  BY DEF IInv, TypeOK, OpFitsStep
<1>6. AddressTaken'
  BY DEF IInv, TypeOK, AddressTaken
<1>7. FamiliesAreRooted'
  BY DEF IInv, TypeOK, FamiliesAreRooted, Issued, Fresh, NotYetIssued, PresentedIssued
<1>8. RegisteredOnce'
  BY DEF IInv, TypeOK, RegisteredOnce, AddressTaken
<1>9. KnownTokensRevoked'
  BY DEF IInv, TypeOK, KnownTokensRevoked, VictimsKept, NotYetIssued, Issued, Fresh
<1>10. QED
  BY <1>1, <1>2, <1>3, <1>4, <1>5, <1>6, <1>7, <1>8, <1>9 DEF IInv

\* A login arrives.
LEMMA FindByEmailIInv ==
  ASSUME IInv, NEW r \in Request, FindByEmail(r)
  PROVE  IInv'
<1> USE SessionsAssumption DEF FindByEmail, Goto, Answer, inputs
<1>1. TypeOK'
  <2>1. \E step \in {"opening", "done"}, code \in {401} :
          /\ pc' = [pc EXCEPT ![r] = step]
          /\ resp' = [resp EXCEPT ![r] = code] \/ resp' = resp
    OBVIOUS
  <2>2. QED
    BY <2>1 DEF IInv, TypeOK
<1>2. NotYetIssued'
  BY DEF IInv, TypeOK, NotYetIssued, Issued, Fresh
<1>3. PresentedIssued'
  BY DEF IInv, TypeOK, PresentedIssued, Issued, Fresh
<1>4. VictimsKept'
  BY DEF IInv, TypeOK, VictimsKept, Issued, Members, Fresh
<1>5. OpFitsStep'
  BY DEF IInv, TypeOK, OpFitsStep
<1>6. AddressTaken'
  BY DEF IInv, TypeOK, AddressTaken
<1>7. FamiliesAreRooted'
  BY DEF IInv, TypeOK, FamiliesAreRooted, Issued, Fresh, NotYetIssued, PresentedIssued
<1>8. RegisteredOnce'
  BY DEF IInv, TypeOK, RegisteredOnce, AddressTaken
<1>9. KnownTokensRevoked'
  BY DEF IInv, TypeOK, KnownTokensRevoked, VictimsKept, NotYetIssued, Issued, Fresh
<1>10. QED
  BY <1>1, <1>2, <1>3, <1>4, <1>5, <1>6, <1>7, <1>8, <1>9 DEF IInv

\* A login stores its token.
LEMMA OpenSessionIInv ==
  ASSUME IInv, NEW r \in Request, OpenSession(r)
  PROVE  IInv'
<1> USE SessionsAssumption DEF OpenSession, Goto, Answer, inputs
<1>1. TypeOK'
  BY DEF IInv, TypeOK, Token, NoToken, Fresh
<1>2. NotYetIssued'
  BY DEF IInv, TypeOK, NotYetIssued, Issued, Fresh
<1>3. PresentedIssued'
  BY DEF IInv, TypeOK, PresentedIssued, Issued, Fresh
<1>4. VictimsKept'
  BY DEF IInv, TypeOK, VictimsKept, Issued, Members, Fresh
<1>5. OpFitsStep'
  BY DEF IInv, TypeOK, OpFitsStep
<1>6. AddressTaken'
  BY DEF IInv, TypeOK, AddressTaken
<1>7. FamiliesAreRooted'
  <2> SUFFICES ASSUME NEW t \in Issued'
               PROVE  /\ token'[token'[t].family].family = token'[t].family
                      /\ op'[token'[t].family] \in {"register", "login"}
    BY DEF FamiliesAreRooted
  <2>1. CASE t = r
    BY <2>1 DEF IInv, TypeOK, Fresh, OpFitsStep
  <2>2. CASE t # r
    <3>1. t \in Issued /\ token'[t] = token[t] /\ r \notin Issued
      BY <2>2 DEF IInv, TypeOK, Issued, NotYetIssued
    <3>2. token[t].family \in Issued
      BY <3>1 DEF IInv, TypeOK, Token, Issued, FamiliesAreRooted
    <3>3. token'[token[t].family] = token[token[t].family]
      BY <3>1, <3>2 DEF IInv, TypeOK, Issued
    <3>4. QED
      BY <3>1, <3>2, <3>3 DEF IInv, FamiliesAreRooted
  <2>3. QED
    BY <2>1, <2>2
<1>8. RegisteredOnce'
  BY DEF IInv, TypeOK, RegisteredOnce, AddressTaken
<1>9. KnownTokensRevoked'
  BY DEF IInv, TypeOK, KnownTokensRevoked, VictimsKept, NotYetIssued, Issued, Fresh
<1>10. QED
  BY <1>1, <1>2, <1>3, <1>4, <1>5, <1>6, <1>7, <1>8, <1>9 DEF IInv

\* The row of the presented token is locked.
LEMMA MarkRefreshUsedIInv ==
  ASSUME IInv, NEW r \in Request, MarkRefreshUsed(r)
  PROVE  IInv'
<1> USE SessionsAssumption DEF MarkRefreshUsed, Goto, Answer, inputs
<1>1. TypeOK'
  BY DEF IInv, TypeOK, Token, NoToken, Fresh
<1>2. NotYetIssued'
  BY DEF IInv, TypeOK, NotYetIssued, Issued, Fresh
<1>3. PresentedIssued'
  BY DEF IInv, TypeOK, PresentedIssued, Issued, Fresh
<1>4. VictimsKept'
  BY DEF IInv, TypeOK, VictimsKept, Issued, Members, Fresh
<1>5. OpFitsStep'
  BY DEF IInv, TypeOK, OpFitsStep
<1>6. AddressTaken'
  BY DEF IInv, TypeOK, AddressTaken
<1>7. FamiliesAreRooted'
  BY DEF IInv, TypeOK, FamiliesAreRooted, Issued, Fresh, NotYetIssued, PresentedIssued
<1>8. RegisteredOnce'
  BY DEF IInv, TypeOK, RegisteredOnce, AddressTaken
<1>9. KnownTokensRevoked'
  BY DEF IInv, TypeOK, KnownTokensRevoked, VictimsKept, NotYetIssued, Issued, Fresh
<1>10. QED
  BY <1>1, <1>2, <1>3, <1>4, <1>5, <1>6, <1>7, <1>8, <1>9 DEF IInv

\* A rotation is committed.
LEMMA CommitRotationIInv ==
  ASSUME IInv, NEW r \in Request, CommitRotation(r)
  PROVE  IInv'
<1> DEFINE s == presented[r]
           f == FamilyOf(r)
           spent == [token[s] EXCEPT !.used = TRUE]
           new == Fresh(f)
<1> HIDE DEF s, f, spent, new
<1>1. PICK code \in {200, 500} :
        /\ pc[r] = "minting"
        /\ pc' = [pc EXCEPT ![r] = "done"]
        /\ resp' = [resp EXCEPT ![r] = code]
        /\ UNCHANGED <<account, op, who, presented, victims>>
  BY DEF CommitRotation, Answer, Goto, inputs
<1>2. /\ token \in [Request -> Token]
      /\ token' = [token EXCEPT ![s] = spent, ![r] = new]
  BY DEF IInv, TypeOK, CommitRotation, s, f, spent, new
<1>3. s \in Issued /\ s \in Request /\ r \notin Issued /\ s # r
  BY <1>1 DEF IInv, NotYetIssued, PresentedIssued, Issued, s
<1>4. f = token[s].family
  BY DEF f, s, FamilyOf
<1>5. f \in Request /\ f \in Issued /\ f # r /\ token[f].family = f
  <2>1. f \in Request
    BY <1>2, <1>3, <1>4 DEF Issued, Token
  <2>2. QED
    BY <1>3, <1>4, <2>1, SessionsAssumption
    DEF IInv, FamiliesAreRooted, Issued
<1>6. \A t \in Request :
        token'[t] = IF t = r THEN new ELSE IF t = s THEN spent ELSE token[t]
  BY <1>2, <1>3
<1>7. /\ new \in Token /\ new.family = f
      /\ spent \in Token /\ spent.family = token[s].family
      /\ spent.revoked = token[s].revoked
  <2>1. token[s] \in Token
    BY <1>2, <1>3
  <2>2. QED
    BY <1>5, <2>1 DEF Token, Fresh, new, spent
<1>8. token' \in [Request -> Token]
  BY <1>2, <1>3, <1>7
<1>9. \A t \in Request \ {r} :
        /\ token'[t].family = token[t].family
        /\ token'[t].revoked = token[t].revoked
  BY <1>6, <1>7
<1>10. token'[r].family = f
  BY <1>6, <1>7
<1>11. Issued' = Issued \cup {r}
  BY <1>5, <1>9, <1>10, SessionsAssumption DEF Issued
<1>12. TypeOK'
  BY <1>1, <1>8 DEF IInv, TypeOK
<1>13. NotYetIssued' /\ PresentedIssued' /\ OpFitsStep'
  <2>1. /\ pc'[r] = "done"
        /\ \A q \in Request \ {r} : pc'[q] = pc[q]
    BY <1>1 DEF IInv, TypeOK
  <2>2. NotYetIssued'
    BY <1>11, <2>1 DEF IInv, NotYetIssued
  <2>3. PresentedIssued'
    BY <1>1, <1>11, <2>1 DEF IInv, PresentedIssued
  <2>4. OpFitsStep'
    BY <1>1, <2>1 DEF IInv, OpFitsStep
  <2>5. QED
    BY <2>2, <2>3, <2>4
<1>14. VictimsKept'
  BY <1>1, <1>11 DEF IInv, TypeOK, VictimsKept
<1>15. AddressTaken' /\ RegisteredOnce'
  BY <1>1 DEF IInv, TypeOK, AddressTaken, RegisteredOnce
<1>16. FamiliesAreRooted'
  <2> SUFFICES ASSUME NEW t \in Issued'
               PROVE  /\ token'[token'[t].family].family = token'[t].family
                      /\ op'[token'[t].family] \in {"register", "login"}
    BY DEF FamiliesAreRooted
  <2>1. CASE t = r
    <3>1. token'[f].family = f
      BY <1>5, <1>9
    <3>2. op[f] \in {"register", "login"}
      BY <1>5 DEF IInv, FamiliesAreRooted
    <3>3. QED
      BY <1>1, <1>10, <2>1, <3>1, <3>2
  <2>2. CASE t # r
    <3>1. t \in Issued /\ t \in Request /\ token'[t].family = token[t].family
      BY <1>9, <1>11, <2>2 DEF Issued
    <3>2. token[t].family \in Request
      BY <1>2, <3>1 DEF Token, Issued
    <3>3. token[t].family \in Issued
      BY <3>1, <3>2, SessionsAssumption DEF IInv, Issued, FamiliesAreRooted
    <3>4. token[t].family \in Request \ {r}
      BY <1>3, <3>2, <3>3
    <3>5. /\ token[token[t].family].family = token[t].family
          /\ op[token[t].family] \in {"register", "login"}
      BY <3>1 DEF IInv, FamiliesAreRooted
    <3>6. QED
      BY <1>1, <1>9, <3>1, <3>4, <3>5
  <2>3. QED
    BY <2>1, <2>2
<1>17. KnownTokensRevoked'
  <2>1. \A q \in Request : victims[q] \subseteq Request \ {r}
    BY <1>3 DEF IInv, VictimsKept, Issued
  <2>2. victims[r] = {}
    BY <1>1 DEF IInv, VictimsKept
  <2>3. SUFFICES ASSUME NEW q \in Request, pc'[q] = "done", NEW t \in victims[q]
                 PROVE  token'[t].revoked
    BY <1>1 DEF KnownTokensRevoked
  <2>4. q # r /\ pc[q] = "done"
    BY <1>1, <2>2, <2>3 DEF IInv, TypeOK
  <2>5. token[t].revoked
    BY <2>3, <2>4 DEF IInv, KnownTokensRevoked
  <2>6. QED
    BY <1>9, <2>1, <2>3, <2>5
<1>18. QED
  BY <1>12, <1>13, <1>14, <1>15, <1>16, <1>17 DEF IInv

\* A revocation finds its rows.
LEMMA RevokeFamilyIInv ==
  ASSUME IInv, NEW r \in Request, RevokeFamily(r)
  PROVE  IInv'
<1> USE SessionsAssumption DEF RevokeFamily, Goto, Answer, inputs
<1>1. TypeOK'
  <2>1. Members(FamilyOf(r)) \in SUBSET Request
    BY DEF Members, Issued
  <2>2. QED
    BY <2>1 DEF IInv, TypeOK
<1>2. NotYetIssued'
  BY DEF IInv, TypeOK, NotYetIssued, Issued, Fresh
<1>3. PresentedIssued'
  BY DEF IInv, TypeOK, PresentedIssued, Issued, Fresh
<1>4. VictimsKept'
  BY DEF IInv, TypeOK, VictimsKept, Issued, Members, Fresh
<1>5. OpFitsStep'
  BY DEF IInv, TypeOK, OpFitsStep
<1>6. AddressTaken'
  BY DEF IInv, TypeOK, AddressTaken
<1>7. FamiliesAreRooted'
  BY DEF IInv, TypeOK, FamiliesAreRooted, Issued, Fresh, NotYetIssued, PresentedIssued
<1>8. RegisteredOnce'
  BY DEF IInv, TypeOK, RegisteredOnce, AddressTaken
<1>9. KnownTokensRevoked'
  BY DEF IInv, TypeOK, KnownTokensRevoked, VictimsKept, NotYetIssued, Issued, Fresh
<1>10. QED
  BY <1>1, <1>2, <1>3, <1>4, <1>5, <1>6, <1>7, <1>8, <1>9 DEF IInv

\* A revocation is committed.
LEMMA RevokeRowsIInv ==
  ASSUME IInv, NEW r \in Request, RevokeRows(r)
  PROVE  IInv'
<1> USE SessionsAssumption DEF RevokeRows, Goto, Answer, inputs
<1>a. \A t \in Request :
        token'[t] = IF t \in victims[r] THEN [token[t] EXCEPT !.revoked = TRUE]
                                        ELSE token[t]
  OBVIOUS
<1>b. \A t \in Request :
        /\ token[t] \in Token /\ token'[t] \in Token
        /\ token'[t].family = token[t].family
  <2> SUFFICES ASSUME NEW t \in Request
               PROVE  /\ token[t] \in Token /\ token'[t] \in Token
                      /\ token'[t].family = token[t].family
    OBVIOUS
  <2>1. token[t] \in Token
    BY DEF IInv, TypeOK
  <2>2. /\ [token[t] EXCEPT !.revoked = TRUE] \in Token
        /\ [token[t] EXCEPT !.revoked = TRUE].family = token[t].family
    BY <2>1 DEF Token
  <2>3. QED
    BY <1>a, <2>1, <2>2
<1>1. TypeOK'
  <2>1. token' \in [Request -> Token]
    BY <1>b
  <2>2. \E code \in {204, 401} : resp' = [resp EXCEPT ![r] = code]
    OBVIOUS
  <2>3. QED
    BY <2>1, <2>2 DEF IInv, TypeOK
<1>2. NotYetIssued'
  BY DEF IInv, TypeOK, NotYetIssued, Issued, Fresh
<1>3. PresentedIssued'
  BY DEF IInv, TypeOK, PresentedIssued, Issued, Fresh
<1>4. VictimsKept'
  BY DEF IInv, TypeOK, VictimsKept, Issued, Members, Fresh
<1>5. OpFitsStep'
  BY DEF IInv, TypeOK, OpFitsStep
<1>6. AddressTaken'
  BY DEF IInv, TypeOK, AddressTaken
<1>7. FamiliesAreRooted'
  <2>1. \A t \in Issued : token[t].family \in Request
    BY <1>b DEF Issued, Token
  <2>2. Issued' = Issued
    BY <1>b DEF Issued
  <2>3. QED
    BY <1>b, <2>1, <2>2 DEF IInv, FamiliesAreRooted, Issued
<1>8. RegisteredOnce'
  BY DEF IInv, TypeOK, RegisteredOnce, AddressTaken
<1>9. KnownTokensRevoked'
  BY DEF IInv, TypeOK, KnownTokensRevoked, VictimsKept, NotYetIssued, Issued, Fresh
<1>10. QED
  BY <1>1, <1>2, <1>3, <1>4, <1>5, <1>6, <1>7, <1>8, <1>9 DEF IInv

\* A revocation fails.
LEMMA RevokeFailsIInv ==
  ASSUME IInv, NEW r \in Request, RevokeFails(r)
  PROVE  IInv'
<1> USE SessionsAssumption DEF RevokeFails, Goto, Answer, inputs
<1>1. TypeOK'
  BY DEF IInv, TypeOK, Token, NoToken, Fresh
<1>2. NotYetIssued'
  BY DEF IInv, TypeOK, NotYetIssued, Issued, Fresh
<1>3. PresentedIssued'
  BY DEF IInv, TypeOK, PresentedIssued, Issued, Fresh
<1>4. VictimsKept'
  BY DEF IInv, TypeOK, VictimsKept, Issued, Members, Fresh
<1>5. OpFitsStep'
  BY DEF IInv, TypeOK, OpFitsStep
<1>6. AddressTaken'
  BY DEF IInv, TypeOK, AddressTaken
<1>7. FamiliesAreRooted'
  BY DEF IInv, TypeOK, FamiliesAreRooted, Issued, Fresh, NotYetIssued, PresentedIssued
<1>8. RegisteredOnce'
  BY DEF IInv, TypeOK, RegisteredOnce, AddressTaken
<1>9. KnownTokensRevoked'
  BY DEF IInv, TypeOK, KnownTokensRevoked, VictimsKept, NotYetIssued, Issued, Fresh
<1>10. QED
  BY <1>1, <1>2, <1>3, <1>4, <1>5, <1>6, <1>7, <1>8, <1>9 DEF IInv

\* Another statement fails.
LEMMA FailIInv ==
  ASSUME IInv, NEW r \in Request, Fail(r)
  PROVE  IInv'
<1> USE SessionsAssumption DEF Fail, Goto, Answer, inputs
<1>1. TypeOK'
  BY DEF IInv, TypeOK, Token, NoToken, Fresh
<1>2. NotYetIssued'
  BY DEF IInv, TypeOK, NotYetIssued, Issued, Fresh
<1>3. PresentedIssued'
  BY DEF IInv, TypeOK, PresentedIssued, Issued, Fresh
<1>4. VictimsKept'
  BY DEF IInv, TypeOK, VictimsKept, Issued, Members, Fresh
<1>5. OpFitsStep'
  BY DEF IInv, TypeOK, OpFitsStep
<1>6. AddressTaken'
  BY DEF IInv, TypeOK, AddressTaken
<1>7. FamiliesAreRooted'
  BY DEF IInv, TypeOK, FamiliesAreRooted, Issued, Fresh, NotYetIssued, PresentedIssued
<1>8. RegisteredOnce'
  BY DEF IInv, TypeOK, RegisteredOnce, AddressTaken
<1>9. KnownTokensRevoked'
  BY DEF IInv, TypeOK, KnownTokensRevoked, VictimsKept, NotYetIssued, Issued, Fresh
<1>10. QED
  BY <1>1, <1>2, <1>3, <1>4, <1>5, <1>6, <1>7, <1>8, <1>9 DEF IInv

\* A refresh arrives with a token.
LEMMA GetRefreshIInv ==
  ASSUME IInv, NEW r \in Request, NEW t \in Request, GetRefresh(r, t)
  PROVE  IInv'
<1> USE SessionsAssumption DEF GetRefresh, Goto, Answer, inputs
<1>1. TypeOK'
  <2>1. \E step \in {"revoking", "marking", "done"}, kind \in {"refresh", "reuse"} :
          /\ pc' = [pc EXCEPT ![r] = step]
          /\ op' = [op EXCEPT ![r] = kind]
          /\ resp' = [resp EXCEPT ![r] = 401] \/ resp' = resp
    OBVIOUS
  <2>2. QED
    BY <2>1 DEF IInv, TypeOK
<1>2. NotYetIssued'
  BY DEF IInv, TypeOK, NotYetIssued, Issued, Fresh
<1>3. PresentedIssued'
  BY DEF IInv, TypeOK, PresentedIssued, Issued, Fresh
<1>4. VictimsKept'
  BY DEF IInv, TypeOK, VictimsKept, Issued, Members, Fresh
<1>5. OpFitsStep'
  BY DEF IInv, TypeOK, OpFitsStep
<1>6. AddressTaken'
  BY DEF IInv, TypeOK, AddressTaken
<1>7. FamiliesAreRooted'
  <2>1. \A q \in Issued : q # r /\ op'[q] = op[q]
    BY DEF IInv, TypeOK, NotYetIssued, Issued
  <2>2. \A q \in Issued : token[q].family \in Issued
    BY DEF IInv, TypeOK, Token, Issued, FamiliesAreRooted
  <2>3. QED
    BY <2>1, <2>2 DEF IInv, FamiliesAreRooted, Issued
<1>8. RegisteredOnce'
  BY DEF IInv, TypeOK, RegisteredOnce, AddressTaken
<1>9. KnownTokensRevoked'
  BY DEF IInv, TypeOK, KnownTokensRevoked, VictimsKept, NotYetIssued, Issued, Fresh
<1>10. QED
  BY <1>1, <1>2, <1>3, <1>4, <1>5, <1>6, <1>7, <1>8, <1>9 DEF IInv

\* A logout arrives with a token.
LEMMA LogoutIInv ==
  ASSUME IInv, NEW r \in Request, NEW t \in Request, Logout(r, t)
  PROVE  IInv'
<1> USE SessionsAssumption DEF Logout, Goto, Answer, inputs
<1>1. TypeOK'
  BY DEF IInv, TypeOK, Token, NoToken, Fresh
<1>2. NotYetIssued'
  BY DEF IInv, TypeOK, NotYetIssued, Issued, Fresh
<1>3. PresentedIssued'
  BY DEF IInv, TypeOK, PresentedIssued, Issued, Fresh
<1>4. VictimsKept'
  BY DEF IInv, TypeOK, VictimsKept, Issued, Members, Fresh
<1>5. OpFitsStep'
  BY DEF IInv, TypeOK, OpFitsStep
<1>6. AddressTaken'
  BY DEF IInv, TypeOK, AddressTaken
<1>7. FamiliesAreRooted'
  BY DEF IInv, TypeOK, FamiliesAreRooted, Issued, Fresh, NotYetIssued, PresentedIssued
<1>8. RegisteredOnce'
  BY DEF IInv, TypeOK, RegisteredOnce, AddressTaken
<1>9. KnownTokensRevoked'
  BY DEF IInv, TypeOK, KnownTokensRevoked, VictimsKept, NotYetIssued, Issued, Fresh
<1>10. QED
  BY <1>1, <1>2, <1>3, <1>4, <1>5, <1>6, <1>7, <1>8, <1>9 DEF IInv

\* The empty table satisfies the invariant.
LEMMA InitIInv == Init => IInv
<1> SUFFICES ASSUME Init PROVE IInv
  OBVIOUS
<1> USE SessionsAssumption DEF Init, NoToken
<1>1. TypeOK
  BY DEF TypeOK, Token
<1>2. Issued = {}
  BY DEF Issued
<1>3. NotYetIssued /\ PresentedIssued /\ VictimsKept /\ OpFitsStep
  BY <1>2 DEF NotYetIssued, PresentedIssued, VictimsKept, OpFitsStep
<1>4. AddressTaken /\ RegisteredOnce
  BY DEF AddressTaken, RegisteredOnce
<1>5. FamiliesAreRooted /\ KnownTokensRevoked
  BY <1>2 DEF FamiliesAreRooted, KnownTokensRevoked
<1>6. QED
  BY <1>1, <1>3, <1>4, <1>5 DEF IInv

\* A step that changes nothing.
LEMMA StutterIInv == IInv /\ UNCHANGED vars => IInv'
BY DEF vars, IInv, TypeOK, NotYetIssued, PresentedIssued, VictimsKept,
       OpFitsStep, AddressTaken, FamiliesAreRooted, RegisteredOnce,
       KnownTokensRevoked, Issued

\* Every step keeps the inductive invariant.
LEMMA NextIInv == IInv /\ [Next]_vars => IInv'
<1> SUFFICES ASSUME IInv, [Next]_vars PROVE IInv'
  OBVIOUS
<1>1. ASSUME NEW r \in Request, Arrive(r) PROVE IInv'
  BY <1>1, StartRegisterIInv, FindByEmailIInv, GetRefreshIInv, LogoutIInv
  DEF Arrive
<1>2. ASSUME NEW r \in Request, Proceed(r) PROVE IInv'
  BY <1>2, CreateUserIInv, CommitRegisterIInv, GreetIInv, OpenSessionIInv,
     MarkRefreshUsedIInv, CommitRotationIInv, RevokeFamilyIInv, RevokeRowsIInv
  DEF Proceed
<1>3. QED
  BY <1>1, <1>2, RevokeFailsIInv, FailIInv, StutterIInv DEF Next

LEMMA Invariance == Spec => []IInv
BY InitIInv, NextIInv, PTL DEF Spec

\* The variables of Sessions keep their types.
THEOREM TypeCorrect == Spec => []TypeOK
<1>1. IInv => TypeOK
  BY DEF IInv
<1>2. QED
  BY <1>1, Invariance, PTL

\* One registration of an address succeeds, and a refused one is refused
\* because the account exists: register's INSERT and its answers.
THEOREM RegistrationsExclude == Spec => []RegisteredOnce
<1>1. IInv => RegisteredOnce
  BY DEF IInv
<1>2. QED
  BY <1>1, Invariance, PTL

\* Every token of a session stays in the family RevokeFamily looks for.
THEOREM FamiliesHold == Spec => []FamiliesAreRooted
<1>1. IInv => FamiliesAreRooted
  BY DEF IInv
<1>2. QED
  BY <1>1, Invariance, PTL

\* No rotation or later revocation undoes what RevokeFamily has committed.
THEOREM RevocationIsFinal == Spec => []KnownTokensRevoked
<1>1. IInv => KnownTokensRevoked
  BY DEF IInv
<1>2. QED
  BY <1>1, Invariance, PTL

\* The only step that makes an account stores a session of its owner with it:
\* the transaction of Register.
THEOREM AccountsComeWithSessions == Spec => AccountComesWithSession
<1> DEFINE A == \A u \in User :
                  account'[u] /\ ~account[u] =>
                    \E r \in Request : who[r] = u /\ op[r] = "register"
                                         /\ token'[r].family = r
<1>1. ASSUME IInv, NEW r \in Request, CommitRegister(r) PROVE A
  <2>1. op[r] = "register" /\ token'[r].family = r
    BY <1>1 DEF CommitRegister, IInv, TypeOK, OpFitsStep, Fresh
  <2>2. \A u \in User : account'[u] /\ ~account[u] => who[r] = u
    BY <1>1 DEF CommitRegister, IInv, TypeOK
  <2>3. QED
    BY <2>1, <2>2
<1>2. ASSUME NEW r \in Request,
             Arrive(r) \/ Proceed(r) \/ RevokeFails(r) \/ Fail(r),
             ~CommitRegister(r)
      PROVE  account' = account
  BY <1>2
  DEF Arrive, Proceed, RevokeFails, Fail, StartRegister, CreateUser, Greet,
      FindByEmail, OpenSession, GetRefresh, MarkRefreshUsed, CommitRotation,
      Logout, RevokeFamily, RevokeRows
<1>3. IInv /\ [Next]_vars => [A]_vars
  BY <1>1, <1>2 DEF Next, vars
<1>4. QED
  BY <1>3, Invariance, PTL DEF Spec, AccountComesWithSession
=============================================================================
