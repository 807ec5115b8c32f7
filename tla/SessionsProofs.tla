--------------------------- MODULE SessionsProofs ---------------------------
(***************************************************************************)
(* Proofs about Sessions for every number of logins, requests and tokens.  *)
(* Neither OneUsableToken nor RevocationHolds is inductive: both rest on   *)
(* what a request that has consumed a token, and has not yet written the   *)
(* next one, knows of its session.                                         *)
(***************************************************************************)
EXTENDS Sessions, TLAPS

\* A session is rotated by one request at a time, ...
OneRotation ==
    \A q, r \in Requests :
        (/\ rpc[q] \in RotateStages
         /\ rpc[r] \in RotateStages
         /\ SessionOf(q) = SessionOf(r)) => q = r

\* ... during which it has no refresh token.
RotationSpent ==
    \A r \in Requests : rpc[r] \in RotateStages =>
        \A t \in refresh : session[t] # SessionOf(r)

\* A login that has not issued its token has none, and is not late.
LoginFresh ==
    \A s \in Logins : lpc[s] # "done" =>
        /\ \A t \in 1..issued : session[t] # s
        /\ late[s] = 0

\* A token is late only in a revoked session, where no rotation is admitted.
LateIsRevoked == \A s \in Logins : late[s] # 0 => row[s] = "revoked"
WriteIsFirst ==
    \A r \in Requests : rpc[r] = "rotate write" => late[SessionOf(r)] = 0

TokenInv == /\ OneUsableToken /\ OneRotation /\ RotationSpent /\ LoginFresh
            /\ LateIsRevoked /\ WriteIsFirst /\ RevocationHolds

-----------------------------------------------------------------------------
\* Sets of tokens issued so far stay such sets when one more is issued.
LEMMA Grows ==
    \A n \in Nat : /\ 1..n \subseteq 1..(n + 1)
                   /\ \A S \in SUBSET (1..n) : S \cup {n + 1} \in SUBSET (1..(n + 1))
    OBVIOUS

LEMMA Widens ==
    ASSUME NEW D, NEW S, NEW T, S \subseteq T, NEW f \in [D -> SUBSET S]
    PROVE  /\ f \in [D -> SUBSET T]
           /\ \A x : \A y \in SUBSET T : [f EXCEPT ![x] = y] \in [D -> SUBSET T]
    <1>1. \A d \in D : f[d] \in SUBSET T
        OBVIOUS
    <1> QED BY <1>1

LEMMA TypeInit == Init => TypeOK
    <1>1. (CHOOSE s \in Logins : TRUE) \in Logins
        BY SessionConstants, Zenon
    <1>2. 0 \in 0..MaxTokens /\ 1 \in Tokens
        BY SessionConstants DEF Tokens
    <1>3. \A D : [d \in D |-> {}] \in [D -> SUBSET (1..0)]
        OBVIOUS
    <1>4. Init => /\ family \in [Logins -> SUBSET (1..issued)]
                  /\ found \in [Requests -> SUBSET (1..issued)]
        BY <1>3 DEF Init
    <1>5. \A s \in Logins : [t \in Tokens |-> s] \in [Tokens -> Logins]
        OBVIOUS
    <1>7. [r \in Requests |-> 1] \in [Requests -> Tokens]
        BY <1>2
    <1>8. Init => session \in [Tokens -> Logins]
        BY <1>1, <1>5 DEF Init
    <1>6. Init => rpc = [r \in Requests |-> "new"]
        BY DEF Init
    <1>9. Init => \A r \in Requests :
                rpc[r] \notin RotateStages \cup ReplayStages \cup LogoutStages
        BY <1>6 DEF RotateStages, ReplayStages, LogoutStages
    <1>10. Init => /\ row \in [Logins -> {"none", "open", "revoked"}]
                   /\ lpc \in [Logins -> {"new", "issue", "done"}]
                   /\ late \in [Logins -> Nat]
        BY DEF Init
    <1>11. Init => /\ issued \in 0..MaxTokens
                   /\ refresh \subseteq 1..issued
                   /\ index \subseteq 1..issued
                   /\ userSet \subseteq 1..issued
        BY <1>2 DEF Init
    <1>12. Init => /\ rpc \in [Requests -> {"new", "done", "failed"} \cup Stages]
                   /\ presented \in [Requests -> Tokens]
        BY <1>6, <1>7 DEF Init
    <1> QED
        BY <1>4, <1>8, <1>9, <1>10, <1>11, <1>12 DEF TypeOK

\* Writing a new token to Redis keeps the types of the keys.
LEMMA IssueTyped ==
    ASSUME TypeOK, NEW s \in Logins, NEW old,
           issued < MaxTokens,
           issued' = issued + 1,
           session' = [session EXCEPT ![issued'] = s],
           refresh' = refresh \cup {issued'},
           index' = index \cup {issued'},
           family' = [family EXCEPT ![s] = (@ \ old) \cup {issued'}],
           userSet' = (userSet \ old) \cup {issued'},
           Late(s),
           UNCHANGED <<row, presented, found>>,
           lpc' \in [Logins -> {"new", "issue", "done"}],
           rpc' \in [Requests -> {"new", "done", "failed"} \cup Stages],
           \A r \in Requests : rpc'[r] = rpc[r] \/ rpc'[r] = "done"
    PROVE  TypeOK'
    <1>1. issued \in Nat /\ issued \in 0..MaxTokens
        BY SessionConstants DEF TypeOK
    <1>2. issued' \in 0..MaxTokens /\ issued' \in Tokens
        BY <1>1, SessionConstants DEF Tokens
    <1>3. session' \in [Tokens -> Logins]
        BY <1>2 DEF TypeOK
    <1>4. 1..issued \subseteq 1..issued'
        BY <1>1, Grows
    <1>5. \A S \in SUBSET (1..issued) :
              S \cup {issued'} \in SUBSET (1..issued')
        BY <1>1, Grows
    <1>6. /\ refresh' \subseteq 1..issued'
          /\ index' \subseteq 1..issued'
          /\ userSet' \subseteq 1..issued'
        BY <1>5 DEF TypeOK
    <1>7. family' \in [Logins -> SUBSET (1..issued')]
        <2>1. (family[s] \ old) \cup {issued'} \in SUBSET (1..issued')
            BY <1>5 DEF TypeOK
        <2>2. family \in [Logins -> SUBSET (1..issued)]
            BY DEF TypeOK
        <2> QED BY <1>4, <2>1, <2>2, Widens
    <1>8. found' \in [Requests -> SUBSET (1..issued')]
        <2>1. found \in [Requests -> SUBSET (1..issued)]
            BY DEF TypeOK
        <2> QED BY <1>4, <2>1, Widens
    <1>9. late' \in [Logins -> Nat]
        BY DEF TypeOK, Late
    <1>10. \A r \in Requests :
               rpc'[r] \in RotateStages \cup ReplayStages \cup LogoutStages
                   => presented'[r] \in 1..issued'
        BY <1>4 DEF TypeOK, RotateStages, ReplayStages, LogoutStages
    <1> QED
        BY <1>2, <1>3, <1>6, <1>7, <1>8, <1>9, <1>10 DEF TypeOK

\* Every step keeps the types.
LEMMA TypeStep == TypeOK /\ [Next]_vars => TypeOK'
    <1> SUFFICES ASSUME TypeOK, [Next]_vars PROVE TypeOK'
        OBVIOUS
    <1> USE DEF redisVars, loginVars, Goto
    <1>1. ASSUME NEW s \in Logins, LoginRow(s) PROVE TypeOK'
        BY <1>1 DEF TypeOK, LoginRow
    <1>2. ASSUME NEW s \in Logins, IssueRefreshToken(s) PROVE TypeOK'
        <2>1. lpc' \in [Logins -> {"new", "issue", "done"}]
            BY <1>2 DEF TypeOK, IssueRefreshToken
        <2>2. /\ family' = [family EXCEPT ![s] = (@ \ {}) \cup {issued'}]
              /\ userSet' = (userSet \ {}) \cup {issued'}
            BY <1>2 DEF IssueRefreshToken
        <2> QED
            BY <1>2, <2>1, <2>2, IssueTyped DEF IssueRefreshToken, TypeOK
    <1>3. ASSUME NEW r \in Requests, RotateWrite(r) PROVE TypeOK'
        <2>1. SessionOf(r) \in Logins
            BY DEF TypeOK, SessionOf
        <2>2. /\ rpc' \in [Requests -> {"new", "done", "failed"} \cup Stages]
              /\ \A q \in Requests : rpc'[q] = rpc[q] \/ rpc'[q] = "done"
              /\ lpc' \in [Logins -> {"new", "issue", "done"}]
            BY <1>3 DEF TypeOK, RotateWrite
        <2> QED
            BY <1>3, <2>1, <2>2, IssueTyped DEF RotateWrite
    <1> USE DEF Stages, RotateStages, ReplayStages, LogoutStages, AllStages, ChangeStages
    <1>4. ASSUME NEW r \in Requests, NEW t \in 1..issued,
                 RotateConsume(r, t) \/ LogoutGet(r, t)
          PROVE  TypeOK'
        <2>1. t \in Tokens
            <3>1. issued \in 0..MaxTokens
                BY DEF TypeOK
            <3> QED BY <3>1, SessionConstants DEF Tokens
        <2>2. /\ presented' = [presented EXCEPT ![r] = t]
              /\ refresh' \subseteq refresh
              /\ \E q \in {"done", "rotate check", "replay lookup", "logout delete"} :
                    rpc' = [rpc EXCEPT ![r] = q]
              /\ UNCHANGED <<row, lpc, issued, session, index, family, userSet,
                             found, late>>
            BY <1>4 DEF RotateConsume, LogoutGet
        <2>3. presented' \in [Requests -> Tokens]
            BY <2>1, <2>2 DEF TypeOK
        <2>4. \A q \in Requests :
                  rpc'[q] \in RotateStages \cup ReplayStages \cup LogoutStages
                      => presented'[q] \in 1..issued
            BY <2>2 DEF TypeOK
        <2>5. rpc' \in [Requests -> {"new", "done", "failed"} \cup Stages]
            BY <2>2 DEF TypeOK
        <2> QED
            BY <2>2, <2>3, <2>4, <2>5 DEF TypeOK
    <1>5. ASSUME NEW r \in Requests,
                 \/ RotateCheck(r) \/ RequestFails(r) \/ ReplayLookup(r)
          PROVE  TypeOK'
        BY <1>5 DEF TypeOK, RotateCheck, RequestFails, ReplayLookup
    <1>6. ASSUME NEW r \in Requests, ReplayRevoke(r) \/ LogoutRevoke(r)
          PROVE  TypeOK'
        BY <1>6 DEF TypeOK, ReplayRevoke, LogoutRevoke, Revoke
    <1>7. ASSUME NEW r \in Requests, ChangePassword(r) \/ LogoutAllRevoke(r)
          PROVE  TypeOK'
        <2>1. row' \in [Logins -> {"none", "open", "revoked"}]
            BY <1>7 DEF TypeOK, ChangePassword, LogoutAllRevoke, RevokeAll
        <2>2. /\ \E q \in {"done", "change list"} : rpc' = [rpc EXCEPT ![r] = q]
              /\ UNCHANGED <<loginVars, redisVars, presented, found, late>>
            BY <1>7 DEF ChangePassword, LogoutAllRevoke
        <2>3. rpc' \in [Requests -> {"new", "done", "failed"} \cup Stages]
            BY <2>2 DEF TypeOK
        <2>4. \A q \in Requests :
                  rpc'[q] \in RotateStages \cup ReplayStages \cup LogoutStages
                      => presented'[q] \in 1..issued
            BY <2>2 DEF TypeOK
        <2> QED
            BY <2>1, <2>2, <2>3, <2>4 DEF TypeOK
    <1>8. ASSUME NEW r \in Requests,
                 ReplayList(r) \/ LogoutAllList(r) \/ ChangeList(r)
          PROVE  TypeOK'
        <2>1. SessionOf(r) \in Logins
            BY DEF TypeOK, SessionOf
        <2>2. family[SessionOf(r)] \in SUBSET (1..issued) /\ userSet \in SUBSET (1..issued)
            BY <2>1 DEF TypeOK
        <2>3. PICK S \in SUBSET (1..issued) : found' = [found EXCEPT ![r] = S]
            BY <1>8, <2>2 DEF ReplayList, LogoutAllList, ChangeList
        <2>4. found' \in [Requests -> SUBSET (1..issued)]
            BY <2>3 DEF TypeOK
        <2> QED
            BY <1>8, <2>4 DEF TypeOK, ReplayList, LogoutAllList, ChangeList
    <1>9. ASSUME NEW r \in Requests, ReplayDelete(r) PROVE TypeOK'
        BY <1>9 DEF TypeOK, ReplayDelete
    <1>10. ASSUME NEW r \in Requests, \/ LogoutDelete(r) \/ LogoutIndex(r) \/ LogoutSet(r)
                                      \/ DeleteUserSet(r)
           PROVE  TypeOK'
        BY <1>10 DEF TypeOK, LogoutDelete, LogoutIndex, LogoutSet, DeleteUserSet
    <1>13. ASSUME NEW r \in Requests, DeleteIndex(r) PROVE TypeOK'
        <2>1. /\ found' = [found EXCEPT ![r] = @ \ {presented[r]}]
              /\ index' = index \ {presented[r]}
              /\ \E q \in {"all delete", "change delete"} : rpc' = [rpc EXCEPT ![r] = q]
              /\ UNCHANGED <<row, lpc, issued, session, refresh, family, userSet,
                             presented, late>>
            BY <1>13 DEF DeleteIndex
        <2>2. found' \in [Requests -> SUBSET (1..issued)]
            BY <2>1 DEF TypeOK
        <2>3. rpc' \in [Requests -> {"new", "done", "failed"} \cup Stages]
            BY <2>1 DEF TypeOK
        <2>4. \A q \in Requests :
                  rpc'[q] \in RotateStages \cup ReplayStages \cup LogoutStages
                      => presented'[q] \in 1..issued
            BY <2>1 DEF TypeOK
        <2> QED BY <2>1, <2>2, <2>3, <2>4 DEF TypeOK
    <1>12. ASSUME NEW r \in Requests, DeleteListed(r) PROVE TypeOK'
        <2>1. PICK t \in found[r] : /\ refresh' = refresh \ {t}
                                   /\ presented' = [presented EXCEPT ![r] = t]
            BY <1>12 DEF DeleteListed
        <2>2. t \in Tokens
            <3>1. issued \in 0..MaxTokens /\ t \in 1..issued
                BY DEF TypeOK
            <3> QED BY <3>1, SessionConstants DEF Tokens
        <2>3. presented' \in [Requests -> Tokens]
            BY <2>1, <2>2 DEF TypeOK
        <2>4. /\ \E q \in {"all index", "change index"} : rpc' = [rpc EXCEPT ![r] = q]
              /\ UNCHANGED <<row, lpc, issued, session, index, family, userSet,
                             found, late>>
            BY <1>12 DEF DeleteListed
        <2>5. rpc' \in [Requests -> {"new", "done", "failed"} \cup Stages]
            BY <2>4 DEF TypeOK
        <2>6. \A q \in Requests :
                  rpc'[q] \in RotateStages \cup ReplayStages \cup LogoutStages
                      => presented'[q] \in 1..issued
            BY <2>1, <2>4 DEF TypeOK
        <2> QED BY <2>1, <2>3, <2>4, <2>5, <2>6 DEF TypeOK
    <1>11. CASE UNCHANGED vars
        BY <1>11 DEF TypeOK, vars
    <1> QED
        BY <1>1, <1>2, <1>3, <1>4, <1>5, <1>6, <1>7, <1>8, <1>9, <1>10, <1>11,
           <1>12, <1>13 DEF Next, Begin, Continue

-----------------------------------------------------------------------------
\* A step that issues nothing, only takes tokens away, only revokes, and lets
\* a request go on to anything but a rotation, disturbs none of it.
LEMMA Withdrawing ==
    ASSUME TypeOK, TokenInv,
           \A q \in Requests : rpc'[q] \in RotateStages =>
               rpc'[q] = rpc[q] /\ presented'[q] = presented[q],
           refresh' \subseteq refresh,
           \A s \in Logins : row'[s] = row[s] \/ row'[s] = "revoked",
           UNCHANGED <<issued, session, lpc, late>>
    PROVE  TokenInv'
    <1>1. \A q \in Requests : rpc'[q] \in RotateStages =>
              rpc[q] \in RotateStages /\ SessionOf(q)' = SessionOf(q)
        BY DEF SessionOf
    <1>2. OneUsableToken'
        BY DEF TokenInv, OneUsableToken
    <1>3. OneRotation'
        BY <1>1 DEF TokenInv, OneRotation
    <1>4. RotationSpent'
        BY <1>1 DEF TokenInv, RotationSpent
    <1>5. LoginFresh' /\ LateIsRevoked' /\ RevocationHolds'
        BY DEF TokenInv, LoginFresh, LateIsRevoked, RevocationHolds
    <1>6. WriteIsFirst'
        <2> SUFFICES ASSUME NEW q \in Requests, rpc'[q] = "rotate write"
                     PROVE  late'[SessionOf(q)'] = 0
            BY DEF WriteIsFirst
        <2>1. rpc[q] = "rotate write" /\ SessionOf(q)' = SessionOf(q)
            BY <1>1 DEF RotateStages
        <2> QED BY <2>1 DEF TokenInv, WriteIsFirst
    <1> QED BY <1>2, <1>3, <1>4, <1>5, <1>6 DEF TokenInv

\* One case per step that touches the chain of rotations; the others withdraw.
LEMMA TokenStep == TypeOK /\ TokenInv /\ [Next]_vars => TokenInv'
    <1> SUFFICES ASSUME TypeOK, TokenInv, [Next]_vars PROVE TokenInv'
        OBVIOUS
    <1> USE DEF Goto
    <1>a. \A r \in Requests : rpc[r] \in RotateStages =>
              presented[r] \in 1..issued /\ SessionOf(r) \in Logins
        BY DEF TypeOK, SessionOf, Tokens
    <1>1. ASSUME NEW s \in Logins, LoginRow(s) PROVE TokenInv'
        BY <1>1 DEF LoginRow, redisVars, TypeOK, TokenInv, OneUsableToken,
           OneRotation, RotationSpent, LoginFresh, LateIsRevoked,
           WriteIsFirst, RevocationHolds, SessionOf
    <1>2. ASSUME NEW s \in Logins, IssueRefreshToken(s) PROVE TokenInv'
        <2>1. /\ issued' = issued + 1 /\ issued' \in Tokens
              /\ session' = [session EXCEPT ![issued'] = s]
              /\ refresh' = refresh \cup {issued'}
              /\ lpc' = [lpc EXCEPT ![s] = "done"]
              /\ late' = [late EXCEPT ![s] = IF row[s] = "revoked" THEN @ + 1 ELSE @]
              /\ UNCHANGED <<row, rpc, presented>>
            <3>1. issued \in 0..MaxTokens
                BY DEF TypeOK
            <3>2. issued < MaxTokens /\ issued' = issued + 1
                BY <1>2 DEF IssueRefreshToken
            <3>3. issued' \in Tokens
                BY <3>1, <3>2, SessionConstants DEF Tokens
            <3> QED
                BY <1>2, <3>3 DEF IssueRefreshToken, Late
        <2>2. /\ late[s] = 0
              /\ \A t \in 1..issued : session[t] # s
            BY <1>2 DEF IssueRefreshToken, TokenInv, LoginFresh
        <2>3. \A t \in 1..issued : session'[t] = session[t]
            BY <2>1 DEF TypeOK, Tokens
        <2>4. session'[issued'] = s
            BY <2>1 DEF TypeOK
        <2>5. \A r \in Requests : rpc[r] \in RotateStages =>
                  SessionOf(r)' = SessionOf(r) /\ SessionOf(r) # s
            BY <1>a, <2>1, <2>2, <2>3 DEF SessionOf
        <2>6. OneUsableToken'
            BY <2>1, <2>2, <2>3, <2>4 DEF TypeOK, TokenInv, OneUsableToken
        <2>7. OneRotation'
            BY <2>1, <2>5 DEF TokenInv, OneRotation
        <2>8. RotationSpent'
            BY <2>1, <2>3, <2>4, <2>5 DEF TypeOK, TokenInv, RotationSpent
        <2>9. LoginFresh'
            BY <2>1, <2>3, <2>4 DEF TypeOK, TokenInv, LoginFresh
        <2>10. LateIsRevoked' /\ RevocationHolds'
            BY <2>1, <2>2 DEF TypeOK, TokenInv, LateIsRevoked, RevocationHolds
        <2>11. WriteIsFirst'
            BY <1>a, <2>1, <2>5 DEF TypeOK, TokenInv, WriteIsFirst, RotateStages
        <2> QED
            BY <2>6, <2>7, <2>8, <2>9, <2>10, <2>11 DEF TokenInv
    <1>3. ASSUME NEW r \in Requests, NEW t \in 1..issued, RotateConsume(r, t)
          PROVE  TokenInv'
        <2>1. CASE t \notin refresh
            BY <1>3, <2>1, Withdrawing DEF RotateConsume, loginVars, TypeOK,
               RotateStages
        <2>2. CASE t \in refresh
            <3>1. /\ rpc[r] = "new"
                  /\ rpc' = [rpc EXCEPT ![r] = "rotate check"]
                  /\ presented' = [presented EXCEPT ![r] = t]
                  /\ refresh' = refresh \ {t}
                  /\ UNCHANGED <<row, lpc, issued, session, late>>
                BY <1>3, <2>2 DEF RotateConsume, loginVars
            <3>2. SessionOf(r)' = session[t]
                BY <3>1 DEF SessionOf, TypeOK
            <3>3. \A q \in Requests : q # r =>
                      SessionOf(q)' = SessionOf(q) /\ rpc'[q] = rpc[q]
                BY <3>1 DEF SessionOf, TypeOK
            <3>4. \A q \in Requests : rpc[q] \in RotateStages =>
                      SessionOf(q) # session[t]
                BY <2>2 DEF TokenInv, RotationSpent
            <3>5. OneRotation'
                BY <3>2, <3>3, <3>4 DEF TokenInv, OneRotation
            <3>6. RotationSpent'
                <4> SUFFICES ASSUME NEW q \in Requests, rpc'[q] \in RotateStages,
                                    NEW u \in refresh, u # t
                             PROVE  session[u] # SessionOf(q)'
                    BY <3>1 DEF RotationSpent
                <4>1. session[u] # session[t]
                    BY <2>2 DEF TokenInv, OneUsableToken
                <4> QED
                    BY <3>2, <3>3, <4>1 DEF TokenInv, RotationSpent
            <3>7. WriteIsFirst'
                BY <3>1, <3>3 DEF TypeOK, TokenInv, WriteIsFirst
            <3> QED
                BY <3>1, <3>5, <3>6, <3>7 DEF TokenInv, OneUsableToken,
                   LoginFresh, LateIsRevoked, RevocationHolds
        <2> QED BY <2>1, <2>2
    <1>4. ASSUME NEW r \in Requests, RotateCheck(r) PROVE TokenInv'
        <2>1. CASE row[SessionOf(r)] = "revoked"
            BY <1>4, <2>1, Withdrawing DEF RotateCheck, redisVars, loginVars,
               TypeOK, RotateStages
        <2>2. CASE row[SessionOf(r)] # "revoked"
            <3>1. /\ rpc[r] = "rotate check"
                  /\ rpc' = [rpc EXCEPT ![r] = "rotate write"]
                  /\ UNCHANGED <<row, lpc, issued, session, refresh, presented,
                                 late>>
                BY <1>4, <2>2 DEF RotateCheck, redisVars, loginVars
            <3>2. late[SessionOf(r)] = 0
                BY <1>a, <2>2, <3>1 DEF TokenInv, LateIsRevoked, RotateStages
            <3>3. \A q \in Requests : /\ rpc'[q] \in RotateStages <=> rpc[q] \in RotateStages
                                      /\ SessionOf(q)' = SessionOf(q)
                                      /\ q # r => rpc'[q] = rpc[q]
                BY <3>1 DEF TypeOK, RotateStages, SessionOf
            <3>4. WriteIsFirst'
                BY <3>1, <3>2, <3>3 DEF TokenInv, WriteIsFirst
            <3>5. OneRotation'
                BY <3>3 DEF TokenInv, OneRotation
            <3>6. RotationSpent'
                BY <3>1, <3>3 DEF TokenInv, RotationSpent
            <3> QED
                BY <3>1, <3>4, <3>5, <3>6 DEF TokenInv, OneUsableToken,
                   LoginFresh, LateIsRevoked, RevocationHolds
        <2> QED BY <2>1, <2>2
    <1>5. ASSUME NEW r \in Requests, RotateWrite(r) PROVE TokenInv'
        <2>a. PICK s \in Logins : s = SessionOf(r)
            BY DEF TypeOK, SessionOf
        <2>b. /\ issued \in Nat /\ 1..issued \subseteq Tokens
              /\ session \in [Tokens -> Logins]
              /\ refresh \subseteq 1..issued
              /\ late \in [Logins -> Nat]
            <3>1. issued \in 0..MaxTokens
                BY DEF TypeOK
            <3>2. issued \in Nat /\ 1..issued \subseteq Tokens
                BY <3>1, SessionConstants DEF Tokens
            <3> QED BY <3>2 DEF TypeOK
        <2>c. /\ rpc[r] = "rotate write"
              /\ rpc' = [rpc EXCEPT ![r] = "done"]
              /\ UNCHANGED presented
            BY <1>5 DEF RotateWrite
        <2>1. /\ issued' = issued + 1 /\ issued' \in Tokens
              /\ session' = [session EXCEPT ![issued'] = s]
              /\ refresh' = refresh \cup {issued'}
              /\ late' = [late EXCEPT ![s] = IF row[s] = "revoked" THEN @ + 1 ELSE @]
              /\ UNCHANGED <<row, lpc>>
            <3>1. issued \in 0..MaxTokens
                BY DEF TypeOK
            <3>2. issued < MaxTokens /\ issued' = issued + 1
                BY <1>5 DEF RotateWrite
            <3>3. issued' \in Tokens
                BY <3>1, <3>2, SessionConstants DEF Tokens
            <3> QED
                BY <1>5, <2>a, <3>3 DEF RotateWrite, Late
        <2>2. /\ s \in Logins /\ presented[r] \in 1..issued /\ late[s] = 0
              /\ \A t \in refresh : session[t] # s
            BY <1>a, <2>a, <2>c DEF TokenInv, WriteIsFirst, RotationSpent,
               RotateStages
        <2>3. /\ \A t \in 1..issued : session'[t] = session[t]
              /\ session'[issued'] = s
            <3>1. /\ issued' = issued + 1 /\ issued' \in Tokens
                  /\ session' = [session EXCEPT ![issued'] = s]
                BY <2>1
            <3>2. \A t \in 1..issued : t # issued' /\ t \in Tokens
                BY <2>b, <3>1
            <3> QED BY <2>b, <3>1, <3>2
        <2>4. \A q \in Requests : rpc'[q] \in RotateStages =>
                  /\ rpc'[q] = rpc[q]
                  /\ SessionOf(q)' = SessionOf(q)
                  /\ SessionOf(q) # s
            <3> SUFFICES ASSUME NEW q \in Requests, rpc'[q] \in RotateStages
                         PROVE  /\ rpc'[q] = rpc[q]
                                /\ SessionOf(q)' = SessionOf(q)
                                /\ SessionOf(q) # s
                OBVIOUS
            <3>1. q # r /\ rpc'[q] = rpc[q]
                BY <2>c DEF TypeOK, RotateStages
            <3>2. SessionOf(q)' = SessionOf(q)
                BY <1>a, <2>c, <2>3, <3>1 DEF SessionOf
            <3>3. SessionOf(q) # s
                BY <2>a, <2>c, <3>1 DEF TokenInv, OneRotation, RotateStages
            <3> QED BY <3>1, <3>2, <3>3
        <2>5. OneUsableToken'
            BY <2>b, <2>1, <2>2, <2>3 DEF TokenInv, OneUsableToken
        <2>6. OneRotation'
            BY <2>4 DEF TokenInv, OneRotation
        <2>7. RotationSpent'
            BY <2>b, <2>1, <2>3, <2>4 DEF TokenInv, RotationSpent
        <2>8. LoginFresh'
            <3>1. lpc[s] = "done"
                BY <2>a, <2>2 DEF TokenInv, LoginFresh, SessionOf
            <3> QED
                BY <2>b, <2>1, <2>3, <3>1 DEF TokenInv, LoginFresh
        <2>9. LateIsRevoked' /\ RevocationHolds'
            BY <2>b, <2>1, <2>2 DEF TokenInv, LateIsRevoked, RevocationHolds
        <2>10. WriteIsFirst'
            BY <1>a, <2>1, <2>4 DEF TypeOK, TokenInv, WriteIsFirst, RotateStages
        <2> QED
            BY <2>5, <2>6, <2>7, <2>8, <2>9, <2>10 DEF TokenInv
    <1>6. ASSUME NEW r \in Requests,
                 \/ RequestFails(r) \/ ReplayLookup(r) \/ ReplayRevoke(r)
                 \/ ReplayList(r) \/ ReplayDelete(r)
          PROVE  TokenInv'
        BY <1>6, Withdrawing DEF RequestFails, ReplayLookup, ReplayRevoke,
           ReplayList, ReplayDelete, Revoke, redisVars, loginVars, TypeOK,
           RotateStages
    <1>7. ASSUME NEW r \in Requests,
                 \/ \E t \in 1..issued : LogoutGet(r, t)
                 \/ LogoutDelete(r) \/ LogoutIndex(r) \/ LogoutSet(r)
                 \/ LogoutRevoke(r)
          PROVE  TokenInv'
        BY <1>7, Withdrawing DEF LogoutGet, LogoutDelete, LogoutIndex,
           LogoutSet, LogoutRevoke, Revoke, redisVars, loginVars, TypeOK, RotateStages
    <1>8. ASSUME NEW r \in Requests,
                 \/ LogoutAllList(r) \/ ChangePassword(r) \/ ChangeList(r)
                 \/ DeleteListed(r) \/ DeleteIndex(r) \/ DeleteUserSet(r)
                 \/ LogoutAllRevoke(r)
          PROVE  TokenInv'
        BY <1>8, Withdrawing DEF LogoutAllList, ChangePassword, ChangeList,
           DeleteListed, DeleteIndex, DeleteUserSet, LogoutAllRevoke, RevokeAll, redisVars,
           loginVars, TypeOK, RotateStages
    <1>9. CASE UNCHANGED vars
        BY <1>9 DEF vars, loginVars, redisVars, TokenInv, OneUsableToken,
           OneRotation, RotationSpent, LoginFresh, LateIsRevoked,
           WriteIsFirst, RevocationHolds, SessionOf
    <1> QED
        BY <1>1, <1>2, <1>3, <1>4, <1>5, <1>6, <1>7, <1>8, <1>9
           DEF Next, Begin, Continue

LEMMA TokenInit == Init => TokenInv
    BY DEF Init, TokenInv, OneUsableToken, OneRotation, RotationSpent,
       LoginFresh, LateIsRevoked, WriteIsFirst, RevocationHolds, RotateStages

\* The sessions, the Redis keys and the requests keep their types.
THEOREM TypeCorrect == Spec => []TypeOK
    BY TypeInit, TypeStep, PTL DEF Spec

\* What in-flight rotations know of their sessions holds in every state.
THEOREM RotationAgreement == Spec => []TokenInv
    BY TypeInit, TypeStep, TokenInit, TokenStep, PTL DEF Spec

\* However many requests present its tokens at once, a session never has two
\* refresh tokens.
THEOREM OneTokenPerSession == Spec => []OneUsableToken
    BY RotationAgreement, PTL DEF TokenInv

\* A revoked session gains at most the one token that was being written.
THEOREM RevokedSessionEnds == Spec => []RevocationHolds
    BY RotationAgreement, PTL DEF TokenInv
=============================================================================
