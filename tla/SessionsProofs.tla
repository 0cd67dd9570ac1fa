--------------------------- MODULE SessionsProofs ---------------------------
(***************************************************************************)
(* Proofs about Sessions, for any set of users and requests.               *)
(***************************************************************************)
EXTENDS Sessions, TLAPS

-----------------------------------------------------------------------------
(* Type correctness *)

LEMMA TypeInit == Init => TypeOK
  BY ConstantsAssumption DEF Init, TypeOK, Handlers, NewRequest, States, Passwords

LEMMA TypeStep == TypeOK /\ [Next]_vars => TypeOK'
<1> SUFFICES ASSUME TypeOK, [Next]_vars PROVE TypeOK'
  OBVIOUS
<1> USE DEF TypeOK
<1>1. ASSUME NEW r \in Requests, Persist(r) PROVE TypeOK'
  BY <1>1 DEF Persist, Answer, Handlers, States, columns
<1>2. ASSUME NEW r \in Requests, Rotate(r) PROVE TypeOK'
  BY <1>2 DEF Rotate, Answer, Handlers, States, columns
<1>3. ASSUME NEW r \in Requests, LogoutClear(r) PROVE TypeOK'
  BY <1>3 DEF LogoutClear, Answer, Handlers, States, columns
<1>4. ASSUME NEW r \in Requests, NEW t \in Requests, RefreshRead(r, t) PROVE TypeOK'
  BY <1>4 DEF RefreshRead, Handle, Presenting, Handlers, States, Ops, columns
<1>5. ASSUME NEW r \in Requests, NEW t \in Requests, LogoutRead(r, t) PROVE TypeOK'
  BY <1>5 DEF LogoutRead, Handle, Presenting, Handlers, States, Ops, columns
<1>6. ASSUME NEW r \in Requests, NEW u \in Users, NEW p \in Passwords, LoginRead(r, u, p)
        PROVE TypeOK'
  BY <1>6 DEF LoginRead, Handle, SigningIn, Handlers, States, Ops, SignIns, columns
<1>7. ASSUME NEW r \in Requests, NEW u \in Users, Verify2faRead(r, u) PROVE TypeOK'
  BY <1>7 DEF Verify2faRead, Handle, SigningIn, Handlers, States, Ops, SignIns, columns
<1>8. ASSUME NEW r \in Requests, NEW u \in Users, VerifyEmailRead(r, u) PROVE TypeOK'
  BY <1>8 DEF VerifyEmailRead, MarkVerifiedAndSign, Handle, SigningIn, Handlers, States,
                Ops, SignIns
<1>9. ASSUME NEW r \in Requests, NEW u \in Users, OAuthRead(r, u) PROVE TypeOK'
  BY <1>9 DEF OAuthRead, MarkVerifiedAndSign, Handle, SigningIn, Handlers, States,
                Ops, SignIns
<1>10. ASSUME NEW r \in Requests, NEW u \in Users, OnboardingRead(r, u) PROVE TypeOK'
  BY <1>10 DEF OnboardingRead, Handle, SigningIn, Handlers, States, Ops, SignIns, columns
<1>11. ASSUME NEW r \in Requests, NEW u \in Users, ResetPassword(r, u) PROVE TypeOK'
  <2>1. InFlight(u) \X {r} \subseteq Requests \X Requests
    BY DEF InFlight
  <2> QED BY <1>11, <2>1 DEF ResetPassword, Handle, SettingPassword, Handlers, States, Ops, Passwords
<1>12. ASSUME NEW r \in Requests, NEW u \in Users, PatchPassword(r, u) PROVE TypeOK'
  BY <1>12 DEF PatchPassword, Handle, SettingPassword, Handlers, States, Ops, Passwords
<1>13. ASSUME NEW u \in Users, RemoveUser(u) PROVE TypeOK'
  BY <1>13 DEF RemoveUser
<1>14. ASSUME NEW u \in Users, NEW state \in BOOLEAN, Set2faState(u, state) PROVE TypeOK'
  BY <1>14 DEF Set2faState
<1>15. CASE UNCHANGED vars
  BY <1>15 DEF vars, columns
<1> QED
  BY <1>1, <1>2, <1>3, <1>4, <1>5, <1>6, <1>7, <1>8, <1>9, <1>10, <1>11, <1>12,
       <1>13, <1>14, <1>15 DEF Next

\* The variables always have the types TypeOK gives them.
THEOREM TypeCorrect == Spec => []TypeOK
BY TypeInit, TypeStep, PTL DEF Spec

-----------------------------------------------------------------------------
(* The inductive invariant *)

\* What every handler's first step records, in the state it starts from.
EntryOK(r, e) == e.user \in Users /\
  \/ e.op \in SignIns /\ e.state = "persist" /\ e.root = r
  \/ e.op \in {"reset", "patch"} /\ e.state = "ok"
  \/ /\ e.op \in {"refresh", "logout"}
     /\ e.token \in Delivered /\ e.user = req[e.token].user
     /\ \/ e.op = "refresh" /\ e.state = "rotate" /\ e.token \in written
        \/ e.op = "refresh" /\ e.state = "refused" /\ refreshTokenHash[e.user] # e.token
        \/ e.op = "logout" /\ e.state = "clear" /\ e.token \in written
        \/ e.op = "logout" /\ e.state = "ignored"
     /\ e.op = "refresh" => e.root = req[e.token].root

\* Starting a handler, even one that revokes sessions on the way, preserves
\* the invariant.
LEMMA StartPreservesInv ==
  ASSUME SessionInv, TypeOK', NEW r \in Requests, NEW e \in Handlers,
         Handle(r, e), EntryOK(r, e), written' = written,
         \A v \in Users : refreshTokenHash'[v] \in {refreshTokenHash[v], NULL},
         \A v \in Users : refreshTokenHash'[v] # NULL => v \in rows'
  PROVE  SessionInv'
<1> USE DEF TypeOK
<1>1. /\ req'[r] = e
      /\ \A s \in Requests : s # r => req'[s] = req[s]
      /\ req[r].state = "new"
  BY DEF Handle
<1>2. r \notin Delivered /\ Delivered \subseteq Delivered'
  BY <1>1 DEF Delivered
<1>3. written \subseteq Delivered
  BY DEF SessionInv, WrittenWereDelivered
<1>4. \A s \in Delivered : req'[s] = req[s] /\ s \in Requests
  BY <1>1, <1>2 DEF Delivered
<1>5. \A u \in Users : refreshTokenHash'[u] # NULL =>
        u \in rows' /\ refreshTokenHash'[u] = refreshTokenHash[u] /\ refreshTokenHash'[u] \in written'
  BY DEF SessionInv
<1>6. HashIsOwnToken'
  BY <1>3, <1>4, <1>5 DEF SessionInv, HashIsOwnToken
<1>7. WrittenWereDelivered'
  BY <1>2, <1>3, <1>4 DEF SessionInv, WrittenWereDelivered
<1>8. CarriedAcrossAwaits'
  <2> SUFFICES ASSUME NEW s \in Requests PROVE CarriedAcrossAwaits!(s)'
    BY DEF CarriedAcrossAwaits
  <2>1. CASE s = r
    BY <2>1, <1>1, <1>2, <1>4 DEF EntryOK, SignIns
  <2>2. CASE s # r
    BY <2>2, <1>1, <1>2, <1>4 DEF SessionInv, CarriedAcrossAwaits
  <2> QED BY <2>1, <2>2
<1>9. SpentIsFinal'
  <2> SUFFICES ASSUME NEW s \in Requests, req'[s].op = "refresh",
                      req'[s].state \in {"ok", "refused"}
               PROVE  refreshTokenHash'[req'[s].user] # req'[s].token
    BY DEF SpentIsFinal
  <2>1. req'[s].token # NULL
    BY <1>1, ConstantsAssumption DEF EntryOK, SessionInv, CarriedAcrossAwaits, Delivered, SignIns
  <2>2. refreshTokenHash[req'[s].user] # req'[s].token
    BY <1>1 DEF SessionInv, SpentIsFinal, EntryOK, SignIns
  <2>3. req'[s].user \in Users
    BY <1>1 DEF EntryOK, SessionInv, CarriedAcrossAwaits
  <2> QED
    BY <2>1, <2>2, <2>3 
<1>10. RefreshedAtMostOnce'
  BY <1>1 DEF SessionInv, RefreshedAtMostOnce, RefreshedWith, EntryOK, SignIns
<1>11. LogoutEndsFamily'
  <2> SUFFICES ASSUME NEW s \in Requests, req'[s].op = "logout", req'[s].state = "ok",
                      refreshTokenHash'[req'[s].user] # NULL
               PROVE  req'[refreshTokenHash'[req'[s].user]].root # req'[req'[s].token].root
    BY DEF LogoutEndsFamily
  <2>1. s # r /\ req'[s] = req[s]
    BY <1>1 DEF EntryOK, SignIns
  <2>2. req[s].token \in Delivered
    BY <2>1 DEF SessionInv, CarriedAcrossAwaits
  <2>3. req[s].user \in Users
    BY <2>1 DEF SessionInv, CarriedAcrossAwaits
  <2> QED
    BY <2>1, <2>2, <2>3, <1>3, <1>4, <1>5 DEF SessionInv, LogoutEndsFamily
<1> QED
  BY <1>5, <1>6, <1>7, <1>8, <1>9, <1>10, <1>11 DEF SessionInv

\* A write of the column by a sign-in, or by a refresh whose compare-and-swap
\* hit, preserves the invariant.
LEMMA InstallPreservesInv ==
  ASSUME SessionInv, TypeOK', NEW r \in Requests, NEW u \in Users,
         u \in rows, rows' = rows, req[r].user = u,
         \/ req[r].state = "persist"
         \/ req[r].state = "rotate" /\ refreshTokenHash[u] = req[r].token,
         refreshTokenHash' = [refreshTokenHash EXCEPT ![u] = r],
         written' = written \cup {r}, Answer(r, "ok")
  PROVE  SessionInv'
<1> USE DEF TypeOK
<1>0. r # NULL
  BY ConstantsAssumption
<1>1. /\ req'[r] = [req[r] EXCEPT !.state = "ok"]
      /\ req'[r].state = "ok" /\ req'[r].op = req[r].op /\ req'[r].user = u
      /\ req'[r].token = req[r].token /\ req'[r].root = req[r].root
      /\ \A s \in Requests : s # r => req'[s] = req[s]
  BY DEF Answer, Handlers
<1>2. r \notin Delivered /\ r \notin written /\ written \subseteq Delivered
      /\ req[r].op \in SignIns \cup {"refresh"}
  BY DEF Delivered, SessionInv, WrittenWereDelivered, CarriedAcrossAwaits
<1>3. Delivered' = Delivered \cup {r}
  BY <1>1, <1>2 DEF Delivered
<1>4. \A s \in Delivered : req'[s] = req[s] /\ s \in Requests
  BY <1>1, <1>2 DEF Delivered
<1>5. /\ refreshTokenHash'[u] = r
      /\ \A v \in Users : v # u => refreshTokenHash'[v] = refreshTokenHash[v]
  OBVIOUS
<1>6. \A v \in Users : refreshTokenHash'[v] # NULL =>
        v \in rows' /\ refreshTokenHash'[v] \in written'
  BY <1>5 DEF SessionInv
<1>7. HashIsOwnToken'
  <2> SUFFICES ASSUME NEW v \in Users, refreshTokenHash'[v] # NULL
               PROVE  req'[refreshTokenHash'[v]].user = v
    BY DEF HashIsOwnToken
  <2>1. CASE v = u
    BY <2>1, <1>1, <1>5
  <2>2. CASE v # u
    <3>1. refreshTokenHash'[v] = refreshTokenHash[v] /\ refreshTokenHash[v] \in Delivered
      BY <2>2, <1>2, <1>5 DEF SessionInv
    <3> QED
      BY <3>1, <1>4 DEF SessionInv, HashIsOwnToken
  <2> QED BY <2>1, <2>2
<1>8. WrittenWereDelivered'
  <2>1. req'[r].root \in written' /\ req'[req'[r].root].root = req'[r].root
        /\ req'[req'[r].root].user = req'[r].user
    <3>1. CASE req[r].state = "persist"
      BY <3>1, <1>1 DEF SessionInv, CarriedAcrossAwaits
    <3>2. CASE req[r].state = "rotate"
      <4>1. /\ req[r].op = "refresh" /\ req[r].token \in written
            /\ req[r].root = req[req[r].token].root /\ u = req[req[r].token].user
        BY <3>2 DEF SessionInv, CarriedAcrossAwaits
      <4> QED
        BY <4>1, <1>1, <1>2, <1>4 DEF SessionInv, WrittenWereDelivered
    <3> QED BY <3>1, <3>2
  <2> QED
    BY <2>1, <1>2, <1>3, <1>4 DEF SessionInv, WrittenWereDelivered
<1>9. CarriedAcrossAwaits'
  <2> SUFFICES ASSUME NEW s \in Requests PROVE CarriedAcrossAwaits!(s)'
    BY DEF CarriedAcrossAwaits
  <2>1. CASE s = r
    BY <2>1, <1>1, <1>2, <1>3, <1>4 DEF SessionInv, CarriedAcrossAwaits, SignIns
  <2>2. CASE s # r
    BY <2>2, <1>1, <1>2, <1>3, <1>4 DEF SessionInv, CarriedAcrossAwaits
  <2> QED BY <2>1, <2>2
<1>10. SpentIsFinal'
  <2> SUFFICES ASSUME NEW s \in Requests, req'[s].op = "refresh",
                      req'[s].state \in {"ok", "refused"}
               PROVE  refreshTokenHash'[req'[s].user] # req'[s].token
    BY DEF SpentIsFinal
  <2>0. /\ req[s].op = "refresh" /\ req[s].state # "new"
        /\ req'[s].token = req[s].token /\ req'[s].user = req[s].user
    BY <1>1
  <2>1. req'[s].token \in Delivered /\ req'[s].user \in Users
    BY <2>0 DEF SessionInv, CarriedAcrossAwaits
  <2>2. CASE req'[s].user = u
    BY <2>1, <2>2, <1>2, <1>5
  <2>3. CASE req'[s].user # u
    \* s is not r, whose user is u
    BY <2>0, <2>1, <2>3, <1>1, <1>5 DEF SessionInv, SpentIsFinal
  <2> QED BY <2>2, <2>3
<1>11. RefreshedAtMostOnce'
  \* Another refresh answered with r's token would have displaced it already.
  <2>1. ASSUME NEW s \in Requests, s # r, req[s].op = "refresh", req[s].state = "ok",
               req[r].op = "refresh", req[s].token = req[r].token
        PROVE  FALSE
    <3>1. req[r].state = "rotate" /\ refreshTokenHash[u] = req[r].token
      BY <2>1 DEF SessionInv, CarriedAcrossAwaits, SignIns
    <3>2. req[s].user = u
      BY <2>1 DEF SessionInv, CarriedAcrossAwaits
    <3> QED
      BY <2>1, <3>1, <3>2 DEF SessionInv, SpentIsFinal
  <2>2. SUFFICES ASSUME NEW s1 \in Requests, NEW s2 \in Requests, req'[s1].token = req'[s2].token,
                        req'[s1].op = "refresh", req'[s1].state = "ok",
                        req'[s2].op = "refresh", req'[s2].state = "ok"
                 PROVE  s1 = s2
    BY DEF RefreshedAtMostOnce, RefreshedWith
  <2>3. CASE s1 # r /\ s2 # r
    <3>1. req'[s1] = req[s1] /\ req'[s2] = req[s2]
      BY <2>3, <1>1
    <3>2. req[s1].token \in Requests
      BY <2>2, <3>1 DEF SessionInv, CarriedAcrossAwaits, Delivered
    <3> QED
      BY <2>2, <3>1, <3>2 DEF SessionInv, RefreshedAtMostOnce, RefreshedWith
  <2>4. CASE s1 = r /\ s2 # r
    <3>1. req'[s2] = req[s2] /\ req[r].op = "refresh" /\ req'[r].token = req[r].token
      BY <2>2, <2>4, <1>1
    <3> QED
      BY <2>1, <2>2, <2>4, <3>1
  <2>5. CASE s1 # r /\ s2 = r
    <3>1. req'[s1] = req[s1] /\ req[r].op = "refresh" /\ req'[r].token = req[r].token
      BY <2>2, <2>5, <1>1
    <3> QED
      BY <2>1, <2>2, <2>5, <3>1
  <2> QED BY <2>3, <2>4, <2>5
<1>12. LogoutEndsFamily'
  <2> SUFFICES ASSUME NEW s \in Requests, req'[s].op = "logout", req'[s].state = "ok",
                      refreshTokenHash'[req'[s].user] # NULL
               PROVE  req'[refreshTokenHash'[req'[s].user]].root # req'[req'[s].token].root
    BY DEF LogoutEndsFamily
  <2>1. s # r /\ req'[s] = req[s]
    BY <1>1, <1>2 DEF SignIns
  <2>2. req[s].token \in written /\ req[s].user \in Users
    BY <2>1 DEF SessionInv, CarriedAcrossAwaits
  <2>3. req'[req[s].token] = req[req[s].token]
    BY <2>2, <1>2, <1>4
  <2>4. CASE req[s].user # u
    <3>1. refreshTokenHash'[req[s].user] = refreshTokenHash[req[s].user]
      BY <2>2, <2>4, <1>5
    <3>2. refreshTokenHash[req[s].user] \in Delivered
      BY <2>1, <2>2, <3>1, <1>2 DEF SessionInv
    <3> QED
      BY <2>1, <2>3, <3>1, <3>2, <1>4 DEF SessionInv, LogoutEndsFamily
  <2>5. CASE req[s].user = u /\ req[r].state = "persist"
    <3>1. req'[r].root = r
      BY <2>5, <1>1 DEF SessionInv, CarriedAcrossAwaits
    <3> QED
      BY <2>1, <2>2, <2>3, <2>5, <3>1, <1>2, <1>5 DEF SessionInv, WrittenWereDelivered
  <2>6. CASE req[s].user = u /\ req[r].state = "rotate" /\ refreshTokenHash[u] = req[r].token
    <3>1. req'[r].root = req[refreshTokenHash[u]].root
      BY <2>6, <1>1 DEF SessionInv, CarriedAcrossAwaits
    <3>2. refreshTokenHash[u] # NULL
      BY <2>6, ConstantsAssumption DEF SessionInv, CarriedAcrossAwaits, Delivered
    <3> QED
      BY <2>1, <2>3, <2>6, <3>1, <3>2, <1>5 DEF SessionInv, LogoutEndsFamily
  <2> QED BY <2>4, <2>5, <2>6
<1> QED
  BY <1>6, <1>7, <1>8, <1>9, <1>10, <1>11, <1>12 DEF SessionInv

\* So does any other step: it may answer a request, and it may empty columns
\* or leave them alone.
LEMMA AnswerPreservesInv ==
  ASSUME SessionInv, TypeOK', written' = written,
         \A v \in Users : refreshTokenHash'[v] \in {refreshTokenHash[v], NULL},
         \A v \in Users : refreshTokenHash'[v] # NULL => v \in rows',
         NEW r \in Requests,
         \/ req' = req
         \/ req[r].state = "persist" /\ Answer(r, "ok")
         \/ /\ req[r].state = "rotate" /\ Answer(r, "refused")
            /\ refreshTokenHash[req[r].user] # req[r].token
         \/ /\ req[r].state = "clear" /\ Answer(r, "ok")
            /\ refreshTokenHash'[req[r].user] = NULL
  PROVE  SessionInv'
<1> USE DEF TypeOK
<1>1. /\ \A s \in Requests : /\ req'[s].op = req[s].op /\ req'[s].user = req[s].user
                             /\ req'[s].token = req[s].token /\ req'[s].root = req[s].root
      /\ \A s \in Requests : req'[s].state # req[s].state =>
           /\ s = r
           /\ \/ req[s].state = "persist" /\ req'[s].state = "ok"
              \/ /\ req[s].state = "rotate" /\ req'[s].state = "refused"
                 /\ refreshTokenHash[req[s].user] # req[s].token
              \/ /\ req[s].state = "clear" /\ req'[s].state = "ok"
                 /\ refreshTokenHash'[req[s].user] = NULL
  BY DEF Answer, Handlers
<1>2. Delivered \subseteq Delivered'
  BY <1>1 DEF Delivered
<1>3. \A s \in Delivered : req'[s].state = "ok" /\ s \in Requests
  BY <1>1 DEF Delivered
<1>4. \A u \in Users : refreshTokenHash'[u] # NULL =>
        u \in rows' /\ refreshTokenHash'[u] = refreshTokenHash[u] /\ refreshTokenHash'[u] \in written'
  BY DEF SessionInv
<1>5. HashIsOwnToken'
  BY <1>1, <1>4 DEF SessionInv, HashIsOwnToken
<1>6. WrittenWereDelivered'
  BY <1>1, <1>2 DEF SessionInv, WrittenWereDelivered
<1>7. CarriedAcrossAwaits'
  <2> SUFFICES ASSUME NEW s \in Requests PROVE CarriedAcrossAwaits!(s)'
    BY DEF CarriedAcrossAwaits
  <2>1. req[s].op \in {"refresh", "logout"} => req[s].token \in Requests
    BY DEF SessionInv, CarriedAcrossAwaits, Delivered
  <2>2. req'[s].op \in {"refresh", "logout"} /\ req'[s].state \in {"rotate", "clear", "ok"}
          => req'[s].token \in written'
    BY <1>1 DEF SessionInv, CarriedAcrossAwaits, SignIns
  <2> QED
    BY <1>1, <1>2, <2>1, <2>2 DEF SessionInv, CarriedAcrossAwaits, SignIns
<1>8. SpentIsFinal'
  <2> SUFFICES ASSUME NEW s \in Requests, req'[s].op = "refresh",
                      req'[s].state \in {"ok", "refused"}
               PROVE  refreshTokenHash'[req'[s].user] # req'[s].token
    BY DEF SpentIsFinal
  <2>1. /\ req[s].op = "refresh" /\ req[s].state # "new"
        /\ req'[s].token = req[s].token /\ req'[s].user = req[s].user
    BY <1>1
  <2>2. req[s].token # NULL /\ req[s].user \in Users
    BY <2>1, ConstantsAssumption DEF SessionInv, CarriedAcrossAwaits, Delivered
  <2>3. refreshTokenHash[req[s].user] # req[s].token
    <3>1. CASE req'[s].state = req[s].state
      BY <2>1, <3>1 DEF SessionInv, SpentIsFinal
    <3>2. CASE req'[s].state # req[s].state
      BY <2>1, <3>2, <1>1 DEF SessionInv, CarriedAcrossAwaits, SignIns
    <3> QED BY <3>1, <3>2
  <2> QED
    BY <2>1, <2>2, <2>3
<1>9. RefreshedAtMostOnce'
  <2>1. \A s \in Requests : req'[s].op = "refresh" /\ req'[s].state = "ok" =>
          req[s].op = "refresh" /\ req[s].state = "ok"
    BY <1>1 DEF SessionInv, CarriedAcrossAwaits, SignIns
  <2> QED
    BY <2>1, <1>1 DEF SessionInv, RefreshedAtMostOnce, RefreshedWith
<1>10. LogoutEndsFamily'
  <2> SUFFICES ASSUME NEW s \in Requests, req'[s].op = "logout", req'[s].state = "ok",
                      refreshTokenHash'[req'[s].user] # NULL
               PROVE  req'[refreshTokenHash'[req'[s].user]].root # req'[req'[s].token].root
    BY DEF LogoutEndsFamily
  <2>1. /\ req[s].op = "logout" /\ req[s].state = "ok"
        /\ req'[s].token = req[s].token /\ req'[s].user = req[s].user
    BY <1>1 DEF SessionInv, CarriedAcrossAwaits, SignIns
  <2>2. req[s].token \in Requests /\ req[s].user \in Users
    BY <2>1 DEF SessionInv, CarriedAcrossAwaits, Delivered
  <2> QED
    BY <2>1, <2>2, <1>1, <1>4 DEF SessionInv, LogoutEndsFamily
<1> QED
  BY <1>4, <1>5, <1>6, <1>7, <1>8, <1>9, <1>10 DEF SessionInv

LEMMA InvInductive == SessionInv /\ [Next]_vars => SessionInv'
<1> SUFFICES ASSUME SessionInv, [Next]_vars PROVE SessionInv'
  OBVIOUS
<1>1. TypeOK /\ TypeOK'
  BY TypeStep DEF SessionInv
<1> USE DEF columns
<1>2. /\ \A u \in Users : refreshTokenHash[u] \in {refreshTokenHash[u], NULL}
      /\ \A u \in Users : refreshTokenHash[u] # NULL => u \in rows
  BY DEF SessionInv
<1>3. ASSUME NEW r \in Requests, Persist(r) PROVE SessionInv'
  <2>1. req[r].state = "persist" /\ req[r].user \in Users
    BY <1>3 DEF Persist, SessionInv, CarriedAcrossAwaits
  <2>2. CASE req[r].user \in rows
    BY <1>1, <1>3, <2>1, <2>2, InstallPreservesInv DEF Persist
  <2>3. CASE req[r].user \notin rows
    BY <1>1, <1>2, <1>3, <2>1, <2>3, AnswerPreservesInv DEF Persist
  <2> QED BY <2>2, <2>3
<1>4. ASSUME NEW r \in Requests, Rotate(r) PROVE SessionInv'
  <2>1. /\ req[r].state = "rotate" /\ req[r].user \in Users
        /\ req[r].token # NULL
    BY <1>4, ConstantsAssumption DEF Rotate, SessionInv, CarriedAcrossAwaits, Delivered
  <2>2. CASE req[r].user \in rows /\ refreshTokenHash[req[r].user] = req[r].token
    BY <1>1, <1>4, <2>1, <2>2, InstallPreservesInv DEF Rotate
  <2>3. CASE ~(req[r].user \in rows /\ refreshTokenHash[req[r].user] = req[r].token)
    <3>1. refreshTokenHash[req[r].user] # req[r].token
      BY <2>1, <2>3, <1>2
    <3> QED
      BY <1>1, <1>2, <1>4, <2>1, <2>3, <3>1, AnswerPreservesInv DEF Rotate
  <2> QED BY <2>2, <2>3
<1>5. ASSUME NEW r \in Requests, LogoutClear(r) PROVE SessionInv'
  <2>1. req[r].state = "clear" /\ req[r].user \in Users
    BY <1>5 DEF LogoutClear, SessionInv, CarriedAcrossAwaits
  <2>2. /\ \A u \in Users : refreshTokenHash'[u] \in {refreshTokenHash[u], NULL}
        /\ refreshTokenHash'[req[r].user] = NULL
    BY <1>1, <1>5, <2>1 DEF LogoutClear, TypeOK
  <2> QED
    BY <1>1, <1>2, <1>5, <2>1, <2>2, AnswerPreservesInv DEF LogoutClear
<1>6. ASSUME NEW r \in Requests, NEW t \in Requests, RefreshRead(r, t) PROVE SessionInv'
  <2> DEFINE e == Presenting("refresh", IF Matches(t) THEN "rotate" ELSE "refused", t)
  <2>1. e \in Handlers
    BY <1>1 DEF Presenting, Handlers, TypeOK, Ops, States
  <2>2. t \in Delivered /\ req[t].user \in Users
    BY <1>6 DEF RefreshRead, Delivered, SessionInv, CarriedAcrossAwaits
  <2>3. Matches(t) => t \in written
    BY <2>2, ConstantsAssumption DEF Matches, SessionInv
  <2>4. ~Matches(t) => refreshTokenHash[req[t].user] # t
    BY <2>2, <1>2, ConstantsAssumption DEF Matches
  <2>5. EntryOK(r, e)
    BY <2>2, <2>3, <2>4 DEF EntryOK, Presenting
  <2> QED
    BY <1>1, <1>2, <1>6, <2>1, <2>5, StartPreservesInv DEF RefreshRead
<1>7. ASSUME NEW r \in Requests, NEW t \in Requests, LogoutRead(r, t) PROVE SessionInv'
  <2> DEFINE e == Presenting("logout", IF Matches(t) THEN "clear" ELSE "ignored", t)
  <2>1. e \in Handlers
    BY <1>1 DEF Presenting, Handlers, TypeOK, Ops, States
  <2>2. t \in Delivered /\ req[t].user \in Users
    BY <1>7 DEF LogoutRead, Delivered, SessionInv, CarriedAcrossAwaits
  <2>3. Matches(t) => t \in written
    BY <2>2, ConstantsAssumption DEF Matches, SessionInv
  <2>5. EntryOK(r, e)
    BY <2>2, <2>3 DEF EntryOK, Presenting
  <2> QED
    BY <1>1, <1>2, <1>7, <2>1, <2>5, StartPreservesInv DEF LogoutRead
\* Sign-ins, whatever their checks, start alike.
<1>8. ASSUME NEW r \in Requests, NEW u \in Users, NEW op \in SignIns,
             Handle(r, SigningIn(op, r, u)), refreshTokenHash' = refreshTokenHash,
             written' = written, rows' = rows
      PROVE  SessionInv'
  <2> DEFINE e == SigningIn(op, r, u)
  <2>1. e \in Handlers
    BY <1>1 DEF SigningIn, Handlers, TypeOK, Ops, States
  <2>2. EntryOK(r, e)
    BY DEF EntryOK, SigningIn
  <2> QED
    BY <1>1, <1>2, <1>8, <2>1, <2>2, StartPreservesInv
<1>9. ASSUME NEW r \in Requests, NEW u \in Users,
             \/ \E p \in Passwords : LoginRead(r, u, p)
             \/ Verify2faRead(r, u) \/ VerifyEmailRead(r, u)
             \/ OAuthRead(r, u) \/ OnboardingRead(r, u)
      PROVE  SessionInv'
  BY <1>8, <1>9 DEF SignIns, LoginRead, Verify2faRead, VerifyEmailRead, OAuthRead,
                    MarkVerifiedAndSign, OnboardingRead
<1>10. ASSUME NEW r \in Requests, NEW u \in Users, ResetPassword(r, u) PROVE SessionInv'
  <2> DEFINE e == SettingPassword("reset", r, u)
  <2>1. e \in Handlers /\ EntryOK(r, e)
    BY DEF SettingPassword, Handlers, Ops, States, Passwords, EntryOK
  <2>2. /\ \A v \in Users : refreshTokenHash'[v] \in {refreshTokenHash[v], NULL}
        /\ Handle(r, e) /\ rows' = rows /\ written' = written
    BY <1>1, <1>10 DEF ResetPassword, TypeOK
  <2> QED
    BY <1>1, <1>2, <2>1, <2>2, StartPreservesInv
<1>11. ASSUME NEW r \in Requests, NEW u \in Users, PatchPassword(r, u) PROVE SessionInv'
  <2> DEFINE e == SettingPassword("patch", r, u)
  <2>1. e \in Handlers /\ EntryOK(r, e)
    BY DEF SettingPassword, Handlers, Ops, States, Passwords, EntryOK
  <2> QED
    BY <1>1, <1>2, <1>11, <2>1, StartPreservesInv DEF PatchPassword
<1>12. ASSUME NEW u \in Users, RemoveUser(u) PROVE SessionInv'
  <2>1. \A v \in Users : refreshTokenHash'[v] \in {refreshTokenHash[v], NULL}
    BY <1>1, <1>12 DEF RemoveUser, TypeOK
  <2>2. \A v \in Users : refreshTokenHash'[v] # NULL => v \in rows'
    BY <1>1, <1>2, <1>12 DEF RemoveUser, TypeOK
  <2>3. CASE \E r \in Requests : TRUE
    BY <1>1, <1>12, <2>1, <2>2, <2>3, AnswerPreservesInv DEF RemoveUser
  <2>4. CASE Requests = {}
    BY <1>1, <1>12, <2>1, <2>2, <2>4
       DEF RemoveUser, SessionInv, TypeOK, HashIsOwnToken, WrittenWereDelivered,
           CarriedAcrossAwaits, SpentIsFinal, RefreshedAtMostOnce, RefreshedWith,
           LogoutEndsFamily
  <2> QED BY <2>3, <2>4
<1>13. ASSUME NEW u \in Users, NEW state \in BOOLEAN, Set2faState(u, state) PROVE SessionInv'
  <2>1. PICK r \in Requests : req[r].user = u
    BY <1>13 DEF Set2faState, Authenticated, Delivered
  <2> QED
    BY <1>1, <1>2, <1>13, AnswerPreservesInv DEF Set2faState
<1>14. CASE UNCHANGED vars
  BY <1>14 DEF vars, SessionInv, TypeOK, HashIsOwnToken, WrittenWereDelivered,
               CarriedAcrossAwaits, Delivered, SpentIsFinal, RefreshedAtMostOnce,
               RefreshedWith, LogoutEndsFamily
<1> QED
  BY <1>3, <1>4, <1>5, <1>6, <1>7, <1>9, <1>10, <1>11, <1>12, <1>13, <1>14 DEF Next

\* The inductive invariant holds of every behaviour: what handlers carry over
\* their awaits still describes the tokens, and the column holds none but those.
THEOREM SessionInvariant == Spec => []SessionInv
<1>1. Init => SessionInv
  <2> SUFFICES ASSUME Init PROVE SessionInv
    OBVIOUS
  <2>1. TypeOK
    BY TypeInit
  <2>2. written = {} /\ \A r \in Requests : req[r].op = "none" /\ req[r].state = "new"
    BY DEF Init, NewRequest
  <2>3. \A u \in Users : refreshTokenHash[u] = NULL
    BY DEF Init
  <2> QED
    BY <2>1, <2>2, <2>3 DEF SessionInv, HashIsOwnToken, WrittenWereDelivered,
          CarriedAcrossAwaits, SpentIsFinal, RefreshedAtMostOnce, RefreshedWith, LogoutEndsFamily
<1> QED
  BY <1>1, InvInductive, PTL DEF Spec

\* A refresh token is exchanged for new ones at most once, however refreshes,
\* sign-ins, logouts and resets interleave.
THEOREM RefreshTokensRotate == Spec => []RefreshedAtMostOnce
BY SessionInvariant, PTL DEF SessionInv

\* An exchanged or refused refresh token is never the current one again.
THEOREM SpentTokensStaySpent == Spec => []SpentIsFinal
BY SessionInvariant, PTL DEF SessionInv

\* Once a logout has revoked a session, no refresh of its family, not even one
\* in flight, brings the session back.
THEOREM LogoutIsFinal == Spec => []LogoutEndsFamily
BY SessionInvariant, PTL DEF SessionInv

\* A user's hash is always that of a token signed for the user.
THEOREM HashesAreOwn == Spec => []HashIsOwnToken
BY SessionInvariant, PTL DEF SessionInv

-----------------------------------------------------------------------------
(* The handlers implement the session slot of SessionSlot *)

\* Signed tokens keep the family they were signed in.
KeepsFamilies == \A t \in written : req'[t].root = req[t].root

\* A write that opens a family, seen through the mapping.
LEMMA OpenStep ==
  ASSUME SessionInv, KeepsFamilies, NEW r \in Requests \ written, NEW u \in Users,
         req'[r].root = r, written' = written \cup {r},
         refreshTokenHash' = [refreshTokenHash EXCEPT ![u] = r]
  PROVE  Slot!Open(u, r)
<1> USE DEF TypeOK
<1>1. refreshTokenHash \in [Users -> Requests \cup {NULL}] /\ written \subseteq Requests
  BY DEF SessionInv
<1>2. Slot!Fresh(r)
  BY DEF Slot!Fresh, familyOf
<1>3. familyOf' = [familyOf EXCEPT ![r] = r]
  BY <1>1, ConstantsAssumption DEF familyOf, KeepsFamilies
<1>4. /\ refreshTokenHash'[u] = r
      /\ \A v \in Users : v # u => refreshTokenHash'[v] = refreshTokenHash[v]
  BY <1>1
<1>5. \A v \in Users : refreshTokenHash[v] # NULL =>
        /\ refreshTokenHash[v] \in written
        /\ req[req[refreshTokenHash[v]].root].user = v
        /\ req[refreshTokenHash[v]].root \in written
        /\ req[req[refreshTokenHash[v]].root].root = req[refreshTokenHash[v]].root
        /\ req'[refreshTokenHash[v]].root = req[refreshTokenHash[v]].root
  BY DEF SessionInv, HashIsOwnToken, WrittenWereDelivered, KeepsFamilies
<1>6. ASSUME NEW t
      PROVE  t \in endedFamilies' <=> t \in Slot!EndedWith(u)
  <2>1. CASE t \notin written
    BY <2>1, <1>1, <1>4, <1>5, ConstantsAssumption
       DEF endedFamilies, Slot!EndedWith, familyOf
  <2>2. CASE t \in written
    <3>1. t \in endedFamilies' <=>
            /\ req[t].root = t
            /\ \A v \in Users \ {u} : refreshTokenHash[v] # NULL
                                       => req[refreshTokenHash[v]].root # t
      BY <2>2, <1>1, <1>4, <1>5, ConstantsAssumption DEF endedFamilies, KeepsFamilies
    <3>2. CASE refreshTokenHash[u] = NULL
      BY <2>2, <3>1, <3>2 DEF endedFamilies, Slot!EndedWith
    <3>3. CASE refreshTokenHash[u] # NULL
      <4>1. Slot!EndedWith(u) = endedFamilies \cup {req[refreshTokenHash[u]].root}
        BY <3>3, <1>1, <1>5 DEF Slot!EndedWith, familyOf
      <4> QED
        BY <2>2, <3>1, <3>3, <4>1, <1>5 DEF endedFamilies
    <3> QED BY <3>2, <3>3
  <2> QED BY <2>1, <2>2
<1> QED
  BY <1>2, <1>3, <1>6 DEF Slot!Open

\* A compare-and-swap that hit exchanges a token within its family.
LEMMA ExchangeStep ==
  ASSUME SessionInv, KeepsFamilies, NEW r \in Requests \ written, NEW u \in Users,
         refreshTokenHash[u] # NULL, req'[r].root = req[refreshTokenHash[u]].root,
         written' = written \cup {r},
         refreshTokenHash' = [refreshTokenHash EXCEPT ![u] = r]
  PROVE  Slot!Exchange(u, r)
<1> USE DEF TypeOK
<1>1. /\ refreshTokenHash \in [Users -> Requests \cup {NULL}] /\ written \subseteq Requests
      /\ refreshTokenHash[u] \in written
  BY DEF SessionInv
<1>2. Slot!Fresh(r)
  BY DEF Slot!Fresh, familyOf
<1>3. familyOf' = [familyOf EXCEPT ![r] = familyOf[refreshTokenHash[u]]]
  BY <1>1 DEF familyOf, KeepsFamilies
<1>4. req'[r].root \in written /\ req'[r].root # r
  BY <1>1 DEF SessionInv, WrittenWereDelivered
<1>5. /\ refreshTokenHash'[u] = r /\ r # NULL
      /\ \A v \in Users : v # u => refreshTokenHash'[v] = refreshTokenHash[v]
  BY <1>1, ConstantsAssumption
<1> DEFINE Family(v) == req[refreshTokenHash[v]].root
           Family_(v) == req'[refreshTokenHash'[v]].root
<1>6. ASSUME NEW v \in Users
      PROVE  /\ (refreshTokenHash'[v] = NULL) <=> (refreshTokenHash[v] = NULL)
             /\ refreshTokenHash[v] # NULL => Family_(v) = Family(v)
  <2>1. CASE v = u
    BY <2>1, <1>5
  <2>2. CASE v # u
    BY <2>2, <1>5 DEF SessionInv, KeepsFamilies
  <2> QED BY <2>1, <2>2
<1>7. ASSUME NEW t PROVE t \in endedFamilies' <=> t \in endedFamilies
  <2>1. t \in endedFamilies <=> /\ t \in written /\ req[t].root = t
                               /\ \A v \in Users : refreshTokenHash[v] # NULL => Family(v) # t
    BY DEF endedFamilies
  <2>2. t \in endedFamilies' <=>
          /\ t \in written' /\ req'[t].root = t
          /\ \A v \in Users : refreshTokenHash'[v] # NULL => Family_(v) # t
    BY DEF endedFamilies
  <2>3. (t \in written' /\ req'[t].root = t) <=> (t \in written /\ req[t].root = t)
    BY <1>4 DEF KeepsFamilies
  <2> HIDE DEF Family, Family_
  <2> QED BY <1>6, <2>1, <2>2, <2>3
<1> QED
  BY <1>2, <1>3, <1>7 DEF Slot!Exchange

\* Emptying a user's column closes its slot, or changes nothing.
LEMMA CloseStep ==
  ASSUME SessionInv, KeepsFamilies, NEW u \in Users, written' = written,
         refreshTokenHash' = [refreshTokenHash EXCEPT ![u] = NULL]
  PROVE  [Slot!SlotNext]_Slot!slotVars
<1> USE DEF TypeOK
<1>1. refreshTokenHash \in [Users -> Requests \cup {NULL}] /\ written \subseteq Requests
  BY DEF SessionInv
<1>2. familyOf' = familyOf
  BY DEF familyOf, KeepsFamilies
<1>3. CASE refreshTokenHash[u] = NULL
  <2>1. refreshTokenHash' = refreshTokenHash
    BY <1>1, <1>3
  <2>2. \A v \in Users : refreshTokenHash[v] # NULL =>
          req'[refreshTokenHash'[v]].root = req[refreshTokenHash[v]].root
    BY <2>1 DEF SessionInv, KeepsFamilies
  <2>3. endedFamilies' = endedFamilies
    BY <2>1, <2>2 DEF endedFamilies, KeepsFamilies
  <2> QED
    BY <1>2, <2>1, <2>3 DEF Slot!slotVars
<1>4. CASE refreshTokenHash[u] # NULL
  <2>1. /\ refreshTokenHash'[u] = NULL
        /\ \A v \in Users : v # u => refreshTokenHash'[v] = refreshTokenHash[v]
    BY <1>1
  <2>2. \A v \in Users : refreshTokenHash[v] # NULL =>
          /\ refreshTokenHash[v] \in written
          /\ req[req[refreshTokenHash[v]].root].user = v
          /\ req[refreshTokenHash[v]].root \in written
          /\ req[req[refreshTokenHash[v]].root].root = req[refreshTokenHash[v]].root
          /\ req'[refreshTokenHash[v]].root = req[refreshTokenHash[v]].root
    BY DEF SessionInv, HashIsOwnToken, WrittenWereDelivered, KeepsFamilies
  <2>3. Slot!EndedWith(u) = endedFamilies \cup {req[refreshTokenHash[u]].root}
    BY <1>1, <1>4, <2>2 DEF Slot!EndedWith, familyOf
  <2>4. ASSUME NEW t
        PROVE  t \in endedFamilies' <=> t \in Slot!EndedWith(u)
    <3>1. t \in endedFamilies' <=>
            /\ t \in written /\ req[t].root = t
            /\ \A v \in Users \ {u} : refreshTokenHash[v] # NULL
                                       => req[refreshTokenHash[v]].root # t
      BY <2>1, <2>2 DEF endedFamilies, KeepsFamilies
    <3>2. CASE t = req[refreshTokenHash[u]].root
      BY <1>4, <2>2, <2>3, <3>1, <3>2
    <3>3. CASE t # req[refreshTokenHash[u]].root
      BY <2>3, <3>1, <3>3 DEF endedFamilies
    <3> QED BY <3>2, <3>3
  <2>5. endedFamilies' = Slot!EndedWith(u)
    BY <2>4
  <2>6. Slot!Close(u)
    BY <1>2, <1>4, <2>5 DEF Slot!Close
  <2> QED
    BY <2>6 DEF Slot!SlotNext
<1> QED BY <1>3, <1>4

\* Steps that leave the column alone are invisible in the slot.
LEMMA QuietStep ==
  ASSUME SessionInv, KeepsFamilies, refreshTokenHash' = refreshTokenHash, written' = written
  PROVE  UNCHANGED Slot!slotVars
<1>1. familyOf' = familyOf
  BY DEF familyOf, KeepsFamilies
<1>2. \A v \in Users : refreshTokenHash[v] # NULL =>
        req'[refreshTokenHash'[v]].root = req[refreshTokenHash[v]].root
  BY DEF SessionInv, KeepsFamilies
<1>3. endedFamilies' = endedFamilies
  BY <1>2 DEF endedFamilies, KeepsFamilies
<1> QED
  BY <1>1, <1>3 DEF Slot!slotVars

\* Requests that hold a token in the column are answered, and stay as they are.
LEMMA KeepsFamiliesStep == SessionInv /\ [Next]_vars => KeepsFamilies
<1> SUFFICES ASSUME SessionInv, [Next]_vars, NEW t \in written
             PROVE  req'[t].root = req[t].root
  BY DEF KeepsFamilies
<1>1. req \in [Requests -> Handlers] /\ t \in Requests /\ req[t].state = "ok"
  BY DEF SessionInv, TypeOK, WrittenWereDelivered, Delivered
<1>2. ASSUME NEW r \in Requests, NEW e, Handle(r, e) PROVE req'[t] = req[t]
  BY <1>1, <1>2 DEF Handle
<1>3. ASSUME NEW r \in Requests, NEW x, Answer(r, x) PROVE req'[t].root = req[t].root
  BY <1>1, <1>3 DEF Answer, Handlers
<1> QED
  BY <1>2, <1>3 DEF Next, vars, columns, Persist, Rotate, LogoutClear, RefreshRead,
     LogoutRead, LoginRead, Verify2faRead, VerifyEmailRead, OAuthRead, MarkVerifiedAndSign,
     OnboardingRead, ResetPassword, PatchPassword, RemoveUser, Set2faState

LEMMA SlotStep == SessionInv /\ [Next]_vars => [Slot!SlotNext]_Slot!slotVars
<1> SUFFICES ASSUME SessionInv, [Next]_vars PROVE [Slot!SlotNext]_Slot!slotVars
  OBVIOUS
<1>1. KeepsFamilies
  BY KeepsFamiliesStep
<1>2. CASE refreshTokenHash' = refreshTokenHash /\ written' = written
  BY <1>1, <1>2, QuietStep
<1>3. ASSUME NEW r \in Requests, Persist(r) PROVE [Slot!SlotNext]_Slot!slotVars
  <2>1. /\ req[r].user \in Users /\ req[r].root = r /\ r \notin written
        /\ req \in [Requests -> Handlers]
    BY <1>3 DEF Persist, SessionInv, TypeOK, CarriedAcrossAwaits, WrittenWereDelivered, Delivered
  <2>2. req'[r].root = r
    BY <1>3, <2>1 DEF Persist, Answer, Handlers
  <2>3. CASE req[r].user \in rows
    <3>1. Slot!Open(req[r].user, r)
      BY <1>1, <1>3, <2>1, <2>2, <2>3, OpenStep DEF Persist
    <3> QED BY <2>1, <3>1 DEF Slot!SlotNext
  <2>4. CASE req[r].user \notin rows
    BY <1>2, <1>3, <2>4 DEF Persist
  <2> QED BY <2>3, <2>4
<1>4. ASSUME NEW r \in Requests, Rotate(r) PROVE [Slot!SlotNext]_Slot!slotVars
  <2>1. /\ req[r].user \in Users /\ req[r].root = req[req[r].token].root /\ r \notin written
        /\ req[r].token # NULL /\ req \in [Requests -> Handlers]
    BY <1>4, ConstantsAssumption
       DEF Rotate, SessionInv, TypeOK, CarriedAcrossAwaits, WrittenWereDelivered, Delivered
  <2>2. req'[r].root = req[r].root
    BY <1>4, <2>1 DEF Rotate, Answer, Handlers
  <2>3. CASE req[r].user \in rows /\ refreshTokenHash[req[r].user] = req[r].token
    <3>1. Slot!Exchange(req[r].user, r)
      BY <1>1, <1>4, <2>1, <2>2, <2>3, ExchangeStep DEF Rotate
    <3> QED BY <2>1, <3>1 DEF Slot!SlotNext
  <2>4. CASE ~(req[r].user \in rows /\ refreshTokenHash[req[r].user] = req[r].token)
    BY <1>2, <1>4, <2>4 DEF Rotate
  <2> QED BY <2>3, <2>4
<1>5. ASSUME NEW r \in Requests, LogoutClear(r) PROVE [Slot!SlotNext]_Slot!slotVars
  <2>1. req[r].user \in Users
    BY <1>5 DEF LogoutClear, SessionInv, CarriedAcrossAwaits
  <2> QED
    BY <1>1, <1>5, <2>1, CloseStep DEF LogoutClear
<1>6. ASSUME NEW r \in Requests, NEW u \in Users, ResetPassword(r, u)
      PROVE  [Slot!SlotNext]_Slot!slotVars
  BY <1>1, <1>6, CloseStep DEF ResetPassword
<1>7. ASSUME NEW u \in Users, RemoveUser(u) PROVE [Slot!SlotNext]_Slot!slotVars
  BY <1>1, <1>7, CloseStep DEF RemoveUser
<1> QED
  BY <1>2, <1>3, <1>4, <1>5, <1>6, <1>7
     DEF Next, vars, RefreshRead, LogoutRead, LoginRead, Verify2faRead, VerifyEmailRead,
         OAuthRead, MarkVerifiedAndSign, OnboardingRead, PatchPassword, Set2faState

\* The handlers of AuthService implement the session slot: the column changes
\* only by opening, exchanging within and closing families, and an ended
\* family never returns.
THEOREM SessionsImplementSlot == Spec => ImplementsSlot
<1>1. Init => Slot!SlotInit
  BY DEF Init, Slot!SlotInit, familyOf, endedFamilies
<1> QED
  BY <1>1, SlotStep, SessionInvariant, PTL DEF Spec, ImplementsSlot, Slot!SlotSpec

LEMMA SlotInvInductive ==
  Slot!SlotInv /\ [Slot!SlotNext]_Slot!slotVars => Slot!SlotInv'
<1> SUFFICES ASSUME Slot!SlotInv, [Slot!SlotNext]_Slot!slotVars PROVE Slot!SlotInv'
  OBVIOUS
<1> USE ConstantsAssumption DEF Slot!SlotInv, Slot!SlotTypeOK, Slot!FamiliesOpened,
        Slot!SlotsDisjoint, Slot!EndedHoldNoSlot
<1>1. ASSUME NEW u \in Users, NEW t \in Requests, Slot!Open(u, t) PROVE Slot!SlotInv'
  <2>1. Slot!SlotTypeOK' /\ Slot!FamiliesOpened'
    BY <1>1 DEF Slot!Open, Slot!Fresh, Slot!EndedWith
  <2>2. Slot!SlotsDisjoint'
    BY <1>1 DEF Slot!Open, Slot!Fresh
  <2>3. Slot!EndedHoldNoSlot'
    BY <1>1 DEF Slot!Open, Slot!Fresh, Slot!EndedWith
  <2> QED BY <2>1, <2>2, <2>3
<1>2. ASSUME NEW u \in Users, NEW t \in Requests, Slot!Exchange(u, t) PROVE Slot!SlotInv'
  <2>1. Slot!SlotTypeOK' /\ Slot!FamiliesOpened'
    BY <1>2 DEF Slot!Exchange, Slot!Fresh
  <2>2. Slot!SlotsDisjoint' /\ Slot!EndedHoldNoSlot'
    BY <1>2 DEF Slot!Exchange, Slot!Fresh
  <2> QED BY <2>1, <2>2
<1>3. ASSUME NEW u \in Users, Slot!Close(u) PROVE Slot!SlotInv'
  BY <1>3 DEF Slot!Close, Slot!EndedWith
<1>4. CASE UNCHANGED Slot!slotVars
  BY <1>4 DEF Slot!slotVars
<1> QED
  BY <1>1, <1>2, <1>3, <1>4 DEF Slot!SlotNext

\* What rotating refresh tokens is for: however the handlers interleave, a
\* family of tokens that lost the column never gets it back, and no two users
\* ever hold tokens of one family.
THEOREM EndedFamiliesStayEnded == Spec => [](Slot!SlotsDisjoint /\ Slot!EndedHoldNoSlot)
<1>1. Slot!SlotInit => Slot!SlotInv
  BY DEF Slot!SlotInit, Slot!SlotInv, Slot!SlotTypeOK, Slot!FamiliesOpened,
         Slot!SlotsDisjoint, Slot!EndedHoldNoSlot
<1>2. Slot!SlotInv => Slot!SlotsDisjoint /\ Slot!EndedHoldNoSlot
  BY DEF Slot!SlotInv
<1> QED
  BY <1>1, <1>2, SlotInvInductive, SessionsImplementSlot, PTL DEF ImplementsSlot, Slot!SlotSpec

-----------------------------------------------------------------------------
(* Unverified accounts have no session *)

\* Whoever is about to get tokens, or got some, belongs to a verified account.
VerifiedInv ==
  /\ \A u \in Users : two_fa_enabled[u] => is_verified[u]
  /\ \A r \in Requests : req[r].state = "persist" \/ r \in Delivered
                           => is_verified[req[r].user]

LEMMA VerifiedStep == SessionInv /\ VerifiedInv /\ [Next]_vars => VerifiedInv'
<1> SUFFICES ASSUME SessionInv, VerifiedInv, [Next]_vars PROVE VerifiedInv'
  OBVIOUS
<1>0. TypeOK /\ TypeOK'
  BY TypeStep DEF SessionInv
<1>1. \A r \in Requests : req[r].state # "new" => req[r].user \in Users
  BY DEF SessionInv, CarriedAcrossAwaits
\* Answering a request, whose user is verified if it then counts as delivered.
<1>2. ASSUME NEW r \in Requests, NEW x \in {"ok", "refused"}, Answer(r, x),
             is_verified' = is_verified, two_fa_enabled' = two_fa_enabled,
             x = "ok" /\ req[r].op \in SignIns \cup {"refresh"} => is_verified[req[r].user]
      PROVE  VerifiedInv'
  <2>1. \A s \in Requests :
          /\ req'[s].op = req[s].op /\ req'[s].user = req[s].user
          /\ IF s = r THEN req'[s].state = x ELSE req'[s].state = req[s].state
    BY <1>0, <1>2 DEF Answer, TypeOK, Handlers
  <2> QED
    BY <1>2, <2>1 DEF VerifiedInv, Delivered
\* Starting one, whose user is verified if it is a sign-in.
<1>3. ASSUME NEW r \in Requests, NEW e, Handle(r, e),
             e.state = "persist" => is_verified'[e.user],
             e.state # "ok" \/ e.op \in {"reset", "patch"},
             \A u \in Users : is_verified[u] => is_verified'[u],
             two_fa_enabled' = two_fa_enabled
      PROVE  VerifiedInv'
  <2>1. req'[r] = e /\ \A s \in Requests : s # r => req'[s] = req[s]
    BY <1>0, <1>3 DEF Handle, TypeOK
  <2>2. ASSUME NEW s \in Requests, req'[s].state = "persist" \/ s \in Delivered'
        PROVE  is_verified'[req'[s].user]
    <3>1. CASE s = r
      BY <1>3, <2>1, <2>2, <3>1 DEF Delivered, SignIns
    <3>2. CASE s # r
      BY <1>1, <1>3, <2>1, <2>2, <3>2 DEF VerifiedInv, Delivered
    <3> QED BY <3>1, <3>2
  <2> QED
    BY <1>3, <2>2 DEF VerifiedInv
<1>4. ASSUME NEW r \in Requests, Persist(r) PROVE VerifiedInv'
  BY <1>2, <1>4 DEF Persist, columns, VerifiedInv
<1>5. ASSUME NEW r \in Requests, Rotate(r) PROVE VerifiedInv'
  <2>1. is_verified[req[r].user]
    BY <1>5 DEF Rotate, SessionInv, CarriedAcrossAwaits, VerifiedInv, Delivered
  <2> QED
    BY <1>2, <1>5, <2>1 DEF Rotate, columns
<1>6. ASSUME NEW r \in Requests, LogoutClear(r) PROVE VerifiedInv'
  <2>1. req[r].op = "logout"
    BY <1>6 DEF LogoutClear, SessionInv, CarriedAcrossAwaits
  <2> QED
    BY <1>2, <1>6, <2>1 DEF LogoutClear, columns, SignIns
<1>7. ASSUME NEW r \in Requests, NEW t \in Requests, RefreshRead(r, t) \/ LogoutRead(r, t)
      PROVE  VerifiedInv'
  BY <1>3, <1>7 DEF RefreshRead, LogoutRead, Presenting, columns
<1>8. ASSUME NEW r \in Requests, NEW u \in Users,
             (\E p \in Passwords : LoginRead(r, u, p)) \/ Verify2faRead(r, u)
      PROVE  VerifiedInv'
  BY <1>3, <1>8 DEF LoginRead, Verify2faRead, SigningIn, columns, VerifiedInv
<1>9. ASSUME NEW r \in Requests, NEW u \in Users, VerifyEmailRead(r, u) \/ OAuthRead(r, u)
      PROVE  VerifiedInv'
  <2>1. is_verified'[u] /\ \A v \in Users : is_verified[v] => is_verified'[v]
    BY <1>0, <1>9 DEF VerifyEmailRead, OAuthRead, MarkVerifiedAndSign, TypeOK
  <2> QED
    BY <1>3, <1>9, <2>1 DEF VerifyEmailRead, OAuthRead, MarkVerifiedAndSign, SigningIn
<1>10. ASSUME NEW u \in Users, Authenticated(u) PROVE is_verified[u]
  BY <1>10 DEF Authenticated, VerifiedInv, Delivered
<1>11. ASSUME NEW r \in Requests, NEW u \in Users, OnboardingRead(r, u) PROVE VerifiedInv'
  BY <1>3, <1>10, <1>11 DEF OnboardingRead, SigningIn, columns
<1>12. ASSUME NEW r \in Requests, NEW u \in Users, ResetPassword(r, u) \/ PatchPassword(r, u)
       PROVE  VerifiedInv'
  BY <1>3, <1>12 DEF ResetPassword, PatchPassword, SettingPassword
<1>13. ASSUME NEW u \in Users, RemoveUser(u) PROVE VerifiedInv'
  BY <1>13 DEF RemoveUser, VerifiedInv, Delivered
<1>14. ASSUME NEW u \in Users, NEW state \in BOOLEAN, Set2faState(u, state) PROVE VerifiedInv'
  <2>1. \A v \in Users : two_fa_enabled'[v] => two_fa_enabled[v] \/ v = u
    BY <1>0, <1>14 DEF Set2faState, TypeOK
  <2> QED
    BY <1>10, <1>14, <2>1 DEF Set2faState, VerifiedInv, Delivered
<1>15. CASE UNCHANGED vars
  BY <1>15 DEF vars, columns, VerifiedInv, Delivered
<1> QED
  BY <1>4, <1>5, <1>6, <1>7, <1>8, <1>9, <1>11, <1>12, <1>13, <1>14, <1>15 DEF Next

\* Only verified accounts hold a session: every sign-in checks or sets
\* is_verified, some of them through what an earlier one proved.
THEOREM SessionsNeedVerification == Spec => []OnlyVerifiedHoldSessions
<1>1. Init => VerifiedInv
  <2> SUFFICES ASSUME Init PROVE VerifiedInv
    OBVIOUS
  <2>1. \A u \in Users : ~two_fa_enabled[u]
    BY DEF Init
  <2>2. \A r \in Requests : req[r].state = "new"
    BY DEF Init, NewRequest
  <2> QED
    BY <2>1, <2>2 DEF VerifiedInv, Delivered
<1>2. SessionInv /\ VerifiedInv => OnlyVerifiedHoldSessions
  <2> SUFFICES ASSUME SessionInv, VerifiedInv, NEW u \in Users, refreshTokenHash[u] # NULL
               PROVE  is_verified[u]
    BY DEF OnlyVerifiedHoldSessions
  <2>1. refreshTokenHash[u] \in Delivered /\ req[refreshTokenHash[u]].user = u
    BY DEF SessionInv, WrittenWereDelivered, HashIsOwnToken
  <2> QED
    BY <2>1 DEF VerifiedInv, Delivered
<1> QED
  BY <1>1, <1>2, VerifiedStep, SessionInvariant, PTL DEF Spec

-----------------------------------------------------------------------------
(* Resets and the sign-ins they race with *)

\* Passwords set by a request were set by one that has answered.
PasswordsWereSet ==
  \A u \in Users : password[u] \in Requests =>
    req[password[u]].op \in {"reset", "patch"} /\ req[password[u]].state = "ok"

\* A sign-in on its way to its UPDATE has read the password of the last reset
\* or was there when it happened; so has what is in the column, by descent.
RaceInv ==
  /\ PasswordsWereSet
  /\ \A u \in Users : ByReset(u) =>
       \A s \in InFlight(u) : ReadCurrent(s, u) \/ <<s, password[u]>> \in raced
  /\ OnlyRacesOutliveReset

\* What a request recorded when it began stays as it is.
LEMMA EntriesStay ==
  SessionInv /\ [Next]_vars =>
    \A s \in Requests : req[s].state # "new" =>
      /\ req'[s].op = req[s].op /\ req'[s].user = req[s].user
      /\ req'[s].root = req[s].root /\ req'[s].password = req[s].password
<1> SUFFICES ASSUME SessionInv, [Next]_vars, NEW s \in Requests, req[s].state # "new"
             PROVE  /\ req'[s].op = req[s].op /\ req'[s].user = req[s].user
                    /\ req'[s].root = req[s].root /\ req'[s].password = req[s].password
  OBVIOUS
<1>1. req \in [Requests -> Handlers]
  BY DEF SessionInv, TypeOK
<1>2. ASSUME NEW r \in Requests, NEW e, Handle(r, e) PROVE req'[s] = req[s]
  BY <1>1, <1>2 DEF Handle
<1>3. ASSUME NEW r \in Requests, NEW x, Answer(r, x)
      PROVE  /\ req'[s].op = req[s].op /\ req'[s].user = req[s].user
             /\ req'[s].root = req[s].root /\ req'[s].password = req[s].password
  BY <1>1, <1>3 DEF Answer, Handlers
<1> QED
  BY <1>2, <1>3 DEF Next, vars, columns, Persist, Rotate, LogoutClear, RefreshRead,
     LogoutRead, LoginRead, Verify2faRead, VerifyEmailRead, OAuthRead, MarkVerifiedAndSign,
     OnboardingRead, ResetPassword, PatchPassword, RemoveUser, Set2faState

LEMMA RaceStep == SessionInv /\ RaceInv /\ [Next]_vars => RaceInv'
<1> SUFFICES ASSUME SessionInv, RaceInv, [Next]_vars PROVE RaceInv'
  OBVIOUS
<1>typed. TypeOK /\ TypeOK'
  BY TypeStep DEF SessionInv
<1>stay. \A s \in Requests : req[s].state # "new" =>
           /\ req'[s].op = req[s].op /\ req'[s].user = req[s].user
           /\ req'[s].root = req[s].root /\ req'[s].password = req[s].password
  BY EntriesStay
\* The requests that a session, or a password, goes back to have begun.
<1>begun. /\ \A u \in Users : password[u] \in Requests => req[password[u]].state # "new"
          /\ \A u \in Users : refreshTokenHash[u] # NULL =>
               LET h == refreshTokenHash[u] IN
               /\ h \in Requests /\ req[h].state # "new"
               /\ req[h].root \in Requests /\ req[req[h].root].state # "new"
               /\ req[h].user = u
  <2>1. \A u \in Users : password[u] \in Requests => req[password[u]].state # "new"
    BY DEF RaceInv, PasswordsWereSet
  <2>2. ASSUME NEW u \in Users, refreshTokenHash[u] # NULL
        PROVE  LET h == refreshTokenHash[u] IN
               /\ h \in Requests /\ req[h].state # "new"
               /\ req[h].root \in Requests /\ req[req[h].root].state # "new"
               /\ req[h].user = u
    BY <2>2 DEF SessionInv, WrittenWereDelivered, HashIsOwnToken, Delivered
  <2> QED BY <2>1, <2>2
\* A setter of a password has answered, and nothing takes that back.
<1>answered. ASSUME NEW s \in Requests, req[s].state = "ok" PROVE req'[s].state = "ok"
  <2>1. ASSUME NEW r \in Requests, NEW e, Handle(r, e) PROVE req'[s] = req[s]
    BY <1>answered, <2>1, <1>typed DEF Handle, TypeOK
  <2>2. ASSUME NEW r \in Requests, NEW x, Answer(r, x), req[r].state # "ok" PROVE req'[s] = req[s]
    BY <1>answered, <2>2, <1>typed DEF Answer, TypeOK
  <2> QED
    BY <1>answered, <2>1, <2>2 DEF Next, vars, columns, Persist, Rotate, LogoutClear, RefreshRead,
       LogoutRead, LoginRead, Verify2faRead, VerifyEmailRead, OAuthRead, MarkVerifiedAndSign,
       OnboardingRead, ResetPassword, PatchPassword, RemoveUser, Set2faState
<1>byReset. ASSUME password' = password, NEW u \in Users PROVE ByReset(u)' <=> ByReset(u)
  BY <1>byReset, <1>stay, <1>begun DEF ByReset
\* Steps that set no password: sign-ins begin with the password of the time,
\* and what the column holds descends from what it held or from a sign-in.
<1>keeps. ASSUME password' = password, raced' = raced,
                 \A s \in Requests : req'[s].state = "persist" =>
                   \/ req[s].state = "persist"
                   \/ req'[s].user \in Users /\ req'[s].password = password[req'[s].user],
                 \A u \in Users : refreshTokenHash'[u] # NULL =>
                   LET root == req'[refreshTokenHash'[u]].root IN
                   \/ refreshTokenHash[u] # NULL /\ root = req[refreshTokenHash[u]].root
                   \/ root \in InFlight(u)
          PROVE  RaceInv'
  <2>1. PasswordsWereSet'
    <3> SUFFICES ASSUME NEW u \in Users, password[u] \in Requests
                 PROVE  req'[password[u]].op \in {"reset", "patch"}
                          /\ req'[password[u]].state = "ok"
      BY <1>keeps DEF PasswordsWereSet
    <3>1. req[password[u]].op \in {"reset", "patch"} /\ req[password[u]].state = "ok"
      BY DEF RaceInv, PasswordsWereSet
    <3> QED BY <3>1, <1>stay, <1>answered
  <2>2. ASSUME NEW u \in Users, ByReset(u)', NEW s \in Requests,
               req'[s].state = "persist", req'[s].user = u
        PROVE  req'[s].password = password[u] \/ <<s, password[u]>> \in raced
    <3>1. CASE req[s].state = "persist"
      <4>1. s \in InFlight(u) /\ req'[s].password = req[s].password
        BY <2>2, <3>1, <1>stay DEF InFlight
      <4> QED BY <2>2, <4>1, <1>keeps, <1>byReset DEF RaceInv, ReadCurrent
    <3>2. CASE req[s].state # "persist"
      BY <2>2, <3>2, <1>keeps
    <3> QED BY <3>1, <3>2
  <2>3. OnlyRacesOutliveReset'
    <3> SUFFICES ASSUME NEW u \in Users, refreshTokenHash'[u] # NULL, ByReset(u)'
                 PROVE  LET root == req'[refreshTokenHash'[u]].root IN
                        req'[root].password = password[u] \/ <<root, password[u]>> \in raced
      BY <1>keeps DEF OnlyRacesOutliveReset, ReadCurrent
    <3>1. ByReset(u)
      BY <1>keeps, <1>byReset
    <3>2. CASE req'[refreshTokenHash'[u]].root \in InFlight(u)
      BY <3>1, <3>2, <1>stay DEF InFlight, RaceInv, ReadCurrent
    <3>3. CASE refreshTokenHash[u] # NULL
                 /\ req'[refreshTokenHash'[u]].root = req[refreshTokenHash[u]].root
      BY <3>1, <3>3, <1>stay, <1>begun DEF RaceInv, OnlyRacesOutliveReset, ReadCurrent
    <3> QED BY <3>2, <3>3, <1>keeps
  <2> QED BY <2>1, <2>2, <2>3, <1>keeps DEF RaceInv, InFlight, ReadCurrent
\* What is left of the column holds the sessions it held.
<1>column. ASSUME NEW u \in Users, refreshTokenHash'[u] # NULL,
                  refreshTokenHash'[u] = refreshTokenHash[u]
           PROVE  refreshTokenHash[u] # NULL
                    /\ req'[refreshTokenHash'[u]].root = req[refreshTokenHash[u]].root
  BY <1>column, <1>stay, <1>begun
\* Answering changes the state of one request, that of one that had begun.
<1>answer. ASSUME NEW r \in Requests, NEW x, Answer(r, x)
           PROVE  /\ req'[r] = [req[r] EXCEPT !.state = x]
                  /\ \A s \in Requests : s # r => req'[s] = req[s]
  BY <1>answer, <1>typed DEF Answer, TypeOK
<1>handle. ASSUME NEW r \in Requests, NEW e, Handle(r, e)
           PROVE  /\ req'[r] = e /\ req[r].state = "new"
                  /\ \A s \in Requests : s # r => req'[s] = req[s]
  BY <1>handle, <1>typed DEF Handle, TypeOK
<1>1. ASSUME NEW r \in Requests, Persist(r) PROVE RaceInv'
  <2>1. /\ req[r].state = "persist" /\ req[r].user \in Users /\ req[r].root = r
        /\ req'[r].state = "ok" /\ req'[r].root = r
        /\ \A s \in Requests : s # r => req'[s] = req[s]
        /\ password' = password /\ raced' = raced
    BY <1>1, <1>answer, <1>typed
       DEF Persist, columns, SessionInv, CarriedAcrossAwaits, TypeOK, Handlers
  <2>2. ASSUME NEW u \in Users, refreshTokenHash'[u] # NULL
        PROVE  \/ refreshTokenHash'[u] = refreshTokenHash[u]
               \/ refreshTokenHash'[u] = r /\ req[r].user = u
    BY <1>1, <1>typed DEF Persist, TypeOK
  <2> QED BY <2>1, <2>2, <1>column, <1>keeps DEF InFlight
<1>2. ASSUME NEW r \in Requests, Rotate(r) PROVE RaceInv'
  <2>1. /\ req[r].state = "rotate" /\ req[r].root = req[req[r].token].root
        /\ req'[r].state \in {"ok", "refused"} /\ req'[r].root = req[r].root
        /\ req[r].token # NULL
        /\ \A s \in Requests : s # r => req'[s] = req[s]
        /\ password' = password /\ raced' = raced
    BY <1>2, <1>answer, <1>typed, ConstantsAssumption
       DEF Rotate, columns, SessionInv, CarriedAcrossAwaits, TypeOK, Handlers, Delivered
  <2>2. ASSUME NEW u \in Users, refreshTokenHash'[u] # NULL
        PROVE  \/ refreshTokenHash'[u] = refreshTokenHash[u]
               \/ refreshTokenHash'[u] = r /\ refreshTokenHash[u] = req[r].token
    BY <1>2, <1>typed DEF Rotate, TypeOK
  <2> QED BY <2>1, <2>2, <1>column, <1>keeps
<1>3. ASSUME NEW r \in Requests, LogoutClear(r) PROVE RaceInv'
  <2>1. /\ req'[r].state = "ok" /\ \A s \in Requests : s # r => req'[s] = req[s]
        /\ password' = password /\ raced' = raced
    BY <1>3, <1>answer, <1>typed DEF LogoutClear, columns, TypeOK, Handlers
  <2>2. \A u \in Users : refreshTokenHash'[u] # NULL => refreshTokenHash'[u] = refreshTokenHash[u]
    BY <1>3, <1>typed DEF LogoutClear, TypeOK
  <2> QED BY <2>1, <2>2, <1>column, <1>keeps
\* Handlers that begin, and the steps that touch neither requests nor passwords.
<1>4. ASSUME NEW r \in Requests, NEW e, Handle(r, e), password' = password, raced' = raced,
             refreshTokenHash' = refreshTokenHash,
             e.state = "persist" => e.user \in Users /\ e.password = password[e.user]
      PROVE  RaceInv'
  BY <1>4, <1>handle, <1>column, <1>keeps
<1>5. ASSUME NEW r \in Requests, NEW t \in Requests, RefreshRead(r, t) \/ LogoutRead(r, t)
      PROVE  RaceInv'
  BY <1>5, <1>4 DEF RefreshRead, LogoutRead, Presenting, columns
<1>6. ASSUME NEW r \in Requests, NEW u \in Users,
             \/ \E p \in Passwords : LoginRead(r, u, p)
             \/ Verify2faRead(r, u) \/ VerifyEmailRead(r, u) \/ OAuthRead(r, u)
             \/ OnboardingRead(r, u)
      PROVE  RaceInv'
  BY <1>6, <1>4 DEF LoginRead, Verify2faRead, VerifyEmailRead, OAuthRead, MarkVerifiedAndSign,
                    OnboardingRead, SigningIn, columns
<1>7. ASSUME req' = req, password' = password, raced' = raced,
             \A u \in Users : refreshTokenHash'[u] \in {refreshTokenHash[u], NULL}
      PROVE  RaceInv'
  BY <1>7, <1>column, <1>keeps
<1>8. ASSUME NEW u \in Users, RemoveUser(u) PROVE RaceInv'
  BY <1>7, <1>8, <1>typed DEF RemoveUser, TypeOK
<1>9. ASSUME NEW u \in Users, NEW state \in BOOLEAN, Set2faState(u, state) PROVE RaceInv'
  BY <1>7, <1>9 DEF Set2faState
\* A password is set: whoever is in flight is noted, if it is a reset that
\* sets it, and other users are left as they were.
<1>sets. ASSUME NEW r \in Requests, NEW u \in Users, NEW op \in {"reset", "patch"},
                Handle(r, SettingPassword(op, r, u)),
                password' = [password EXCEPT ![u] = r],
                raced \subseteq raced',
                \A v \in Users : refreshTokenHash'[v] \in {refreshTokenHash[v], NULL},
                op = "reset" => refreshTokenHash'[u] = NULL /\ InFlight(u) \X {r} \subseteq raced'
         PROVE  RaceInv'
  <2>1. /\ req'[r] = SettingPassword(op, r, u) /\ req[r].state = "new"
        /\ \A s \in Requests : s # r => req'[s] = req[s]
    BY <1>sets, <1>handle
  <2>2. password'[u] = r /\ \A v \in Users : v # u => password'[v] = password[v]
    BY <1>sets, <1>typed DEF TypeOK
  <2>3. \A v \in Users : password[v] # r
    BY <2>1, <1>begun
  <2>4. PasswordsWereSet'
    BY <2>1, <2>2, <2>3 DEF RaceInv, PasswordsWereSet, SettingPassword
  <2>5. ASSUME NEW v \in Users, v # u PROVE ByReset(v)' <=> ByReset(v)
    BY <2>1, <2>2, <2>3, <2>5 DEF ByReset
  <2>6. ByReset(u)' => op = "reset"
    BY <2>1, <2>2 DEF ByReset, SettingPassword
  <2>7. ASSUME NEW v \in Users, ByReset(v)', NEW s \in Requests,
               req'[s].state = "persist", req'[s].user = v
        PROVE  req'[s].password = password'[v] \/ <<s, password'[v]>> \in raced'
    <3>1. req'[s] = req[s] /\ s \in InFlight(v)
      BY <2>1, <2>7 DEF SettingPassword, InFlight
    <3>2. CASE v = u
      BY <2>2, <2>6, <2>7, <3>1, <3>2, <1>sets
    <3>3. CASE v # u
      BY <2>2, <2>5, <2>7, <3>1, <3>3, <1>sets DEF RaceInv, ReadCurrent
    <3> QED BY <3>2, <3>3
  <2>8. OnlyRacesOutliveReset'
    <3> SUFFICES ASSUME NEW v \in Users, refreshTokenHash'[v] # NULL, ByReset(v)'
                 PROVE  LET root == req'[refreshTokenHash'[v]].root IN
                        req'[root].password = password'[v] \/ <<root, password'[v]>> \in raced'
      BY DEF OnlyRacesOutliveReset, ReadCurrent
    <3>1. v # u
      BY <2>6, <1>sets
    <3>2. refreshTokenHash'[v] = refreshTokenHash[v]
      BY <1>sets
    <3> QED
      BY <2>1, <2>2, <2>5, <3>1, <3>2, <1>begun, <1>sets
         DEF RaceInv, OnlyRacesOutliveReset, ReadCurrent
  <2> QED BY <2>4, <2>7, <2>8 DEF RaceInv, InFlight, ReadCurrent
<1>10. ASSUME NEW r \in Requests, NEW u \in Users, ResetPassword(r, u) PROVE RaceInv'
  BY <1>10, <1>sets, <1>typed DEF ResetPassword, TypeOK
<1>11. ASSUME NEW r \in Requests, NEW u \in Users, PatchPassword(r, u) PROVE RaceInv'
  BY <1>11, <1>sets DEF PatchPassword
<1>12. CASE UNCHANGED vars
  BY <1>7, <1>12 DEF vars, columns
<1> QED
  BY <1>1, <1>2, <1>3, <1>5, <1>6, <1>8, <1>9, <1>10, <1>11, <1>12 DEF Next

\* A reset leaves no session behind but those of sign-ins it raced with, for
\* any users, requests and interleaving, refreshes in flight included.
THEOREM ResetsEndWhatTheyDoNotRace == Spec => []OnlyRacesOutliveReset
<1>1. Init => RaceInv
  <2> SUFFICES ASSUME Init PROVE RaceInv
    OBVIOUS
  <2>1. \A u \in Users : password[u] \notin Requests /\ refreshTokenHash[u] = NULL
    BY ConstantsAssumption DEF Init
  <2>2. \A s \in Requests : req[s].state = "new"
    BY DEF Init, NewRequest
  <2> QED BY <2>1, <2>2 DEF RaceInv, PasswordsWereSet, OnlyRacesOutliveReset, ByReset
<1>2. RaceInv => OnlyRacesOutliveReset
  BY DEF RaceInv
<1> QED
  BY <1>1, <1>2, RaceStep, SessionInvariant, PTL DEF Spec

\* So what the documentation says of resets holds as long as no sign-in is in
\* flight at one.
THEOREM ResetsRevokeWithoutRaces == Spec => [](raced = {} => ResetRevokesAllSessions)
<1>1. SessionInv /\ OnlyRacesOutliveReset => (raced = {} => ResetRevokesAllSessions)
  BY DEF OnlyRacesOutliveReset, ResetRevokesAllSessions, ByReset, ReadCurrent
<1> QED
  BY <1>1, ResetsEndWhatTheyDoNotRace, SessionInvariant, PTL

=============================================================================
