--------------------------- MODULE SessionsProofs ---------------------------
(***************************************************************************)
(* Theorems about Sessions, for any number of browsers, calls and tokens.  *)
(***************************************************************************)
EXTENDS Sessions, TLAPS

(* What a slot holds at each step.                                         *)
LEMMA CallShape ==
  ASSUME NEW ids, NEW c \in Call(ids)
  PROVE  /\ c.step \in {"idle", "loginRead", "loginIssue", "refreshClear", "refreshRead",
                        "refreshIssue", "logoutClear", "reply"}
         /\ c.step # "idle" => c # Idle /\ c.browser \in Browsers
         /\ c.step = "idle" => c = Idle
         /\ c.step \in {"refreshRead", "refreshIssue", "logoutClear"} => c.token \in ids
         /\ c.step = "reply" => c.token \in ids \cup {NoToken}
BY DEF Call, Idle

(* More tokens given: the slots are still well typed.                      *)
LEMMA CallMonotone ==
  ASSUME NEW ids, NEW more, ids \subseteq more
  PROVE  Call(ids) \subseteq Call(more)
BY DEF Call, Idle

(* Moving one slot to a well-typed step keeps all of them well typed.      *)
LEMMA GotoTyped ==
  ASSUME SessionsTypeOK, minted \subseteq minted', NEW r \in Requests,
         NEW c \in Call(minted'), Goto(r, c)
  PROVE  call' \in [Requests -> Call(minted')]
<1>1. Call(minted) \subseteq Call(minted')
  BY CallMonotone
<1> QED
  BY <1>1 DEF SessionsTypeOK, Goto

(* Every variable is of its type, and the token a refresh or logout under  *)
(* way holds is one that has been given: SessionsTypeOK is inductive.      *)
LEMMA TypeStep ==
  ASSUME SessionsTypeOK, [Next]_vars
  PROVE  SessionsTypeOK'
<1> USE SessionsAssumption
<1>1. ASSUME NEW r \in Requests, NEW b \in Browsers, NEW c \in Call(minted), Begin(r, b, c)
      PROVE  SessionsTypeOK'
  <2>1. Goto(r, c)
    BY <1>1 DEF Begin, Goto
  <2>2. call' \in [Requests -> Call(minted')]
    BY <1>1, <2>1, GotoTyped DEF Begin
  <2> QED
    BY <1>1, <2>2 DEF Begin, SessionsTypeOK
<1>2. ASSUME NEW r \in Requests, NEW b \in Browsers,
             NEW step \in {"refreshRead", "logoutClear"}, Present(r, b, step)
      PROVE  SessionsTypeOK'
  <2>1. CASE Verified(b)
    <3>1. [step |-> step, browser |-> b, token |-> jar[b]] \in Call(minted)
      BY <2>1 DEF Verified, SessionsTypeOK, Call
    <3> QED
      BY <1>1, <1>2, <2>1, <3>1 DEF Present
  <2>2. CASE ~Verified(b)
    <3>1. [step |-> "reply", browser |-> b, token |-> NoToken] \in Call(minted)
      BY DEF Call
    <3> QED
      BY <1>1, <1>2, <2>2, <3>1 DEF Present
  <2> QED
    BY <2>1, <2>2
<1>3. ASSUME NEW r \in Requests, NEW t \in minted' \cup {NoToken}, call[r].step # "idle",
             minted \subseteq minted', Reply(r, t)
      PROVE  call' \in [Requests -> Call(minted')]
  <2>1. call[r] \in Call(minted)
    BY DEF SessionsTypeOK
  <2>2. call[r].browser \in Browsers
    BY <1>3, <2>1, CallShape
  <2>3. [step |-> "reply", browser |-> call[r].browser, token |-> t] \in Call(minted')
    BY <1>3, <2>2 DEF Call
  <2> QED
    BY <1>3, <2>3, GotoTyped DEF Reply
<1>4. ASSUME NEW r \in Requests, minted' = minted, Goto(r, Idle)
      PROVE  call' \in [Requests -> Call(minted')]
  <2>1. Idle \in Call(minted')
    BY DEF Call
  <2> QED
    BY <1>4, <2>1, GotoTyped
<1>5. ASSUME NEW r \in Requests, NEW b \in Browsers, LoginBegin(r, b)
      PROVE  SessionsTypeOK'
  <2>1. [step |-> "loginRead", browser |-> b] \in Call(minted)
    BY DEF Call
  <2> QED
    BY <1>1, <1>5, <2>1 DEF LoginBegin
<1>6. ASSUME NEW r \in Requests, LoginRead(r)
      PROVE  SessionsTypeOK'
  <2>1. call[r] \in Call(minted)
    BY DEF SessionsTypeOK
  <2>2. [step |-> "loginIssue", browser |-> call[r].browser] \in Call(minted')
    BY <1>6, <2>1, CallShape DEF LoginRead, Call
  <2>3. call' \in [Requests -> Call(minted')]
    BY <1>4, <1>6, <2>2, GotoTyped DEF LoginRead
  <2> QED
    BY <1>6, <2>3 DEF LoginRead, SessionsTypeOK
<1>7. ASSUME NEW r \in Requests, RefreshRead(r)
      PROVE  SessionsTypeOK'
  <2>1. call[r] \in Call(minted)
    BY DEF SessionsTypeOK
  <2>2. /\ [step |-> "refreshIssue", browser |-> call[r].browser, token |-> call[r].token]
             \in Call(minted')
        /\ [step |-> "refreshClear", browser |-> call[r].browser] \in Call(minted')
    BY <1>7, <2>1, CallShape DEF RefreshRead, Call
  <2>3. call' \in [Requests -> Call(minted')]
    BY <1>3, <1>7, <2>2, GotoTyped DEF RefreshRead
  <2> QED
    BY <1>7, <2>3 DEF RefreshRead, SessionsTypeOK
<1>8. ASSUME NEW r \in Requests, Issue(r)
      PROVE  SessionsTypeOK'
  <2>1. call[r] \in Call(minted)
    BY DEF SessionsTypeOK
  <2>2. call[r].browser \in Browsers
    BY <1>8, <2>1, CallShape DEF Issue
  <2>3. CASE present
    <3>1. PICK t \in NewTokens(r) : stored' = t /\ minted' = minted \cup {t} /\ Reply(r, t)
      BY <1>8, <2>3 DEF Issue
    <3>2. call' \in [Requests -> Call(minted')]
      BY <1>3, <1>8, <3>1 DEF Issue
    <3> QED
      BY <1>8, <2>2, <2>3, <3>1, <3>2 DEF Issue, Wrote, NewTokens, SessionsTypeOK
  <2>4. CASE ~present
    <3>1. minted' = minted /\ (Goto(r, Idle) \/ Reply(r, NoToken))
      BY <1>8, <2>4 DEF Issue
    <3>2. call' \in [Requests -> Call(minted')]
      BY <1>3, <1>4, <1>8, <3>1 DEF Issue
    <3> QED
      BY <1>8, <2>4, <3>2 DEF Issue, SessionsTypeOK
  <2> QED
    BY <2>3, <2>4
<1>9. ASSUME NEW r \in Requests, Clear(r)
      PROVE  SessionsTypeOK'
  <2>1. call[r] \in Call(minted)
    BY DEF SessionsTypeOK
  <2>2. call[r].browser \in Browsers
    BY <1>9, <2>1, CallShape DEF Clear
  <2>3. call' \in [Requests -> Call(minted')]
    BY <1>3, <1>9 DEF Clear
  <2> QED
    BY <1>9, <2>2, <2>3 DEF Clear, Cleared, Wrote, SessionsTypeOK
<1>10. ASSUME NEW r \in Requests, Deliver(r)
       PROVE  SessionsTypeOK'
  <2>1. call[r] \in Call(minted)
    BY DEF SessionsTypeOK
  <2>2. call[r].token \in minted \cup {NoToken}
    BY <1>10, <2>1, CallShape DEF Deliver
  <2>3. call' \in [Requests -> Call(minted')]
    BY <1>4, <1>10 DEF Deliver
  <2> QED
    BY <1>10, <2>2, <2>3 DEF Deliver, HandedOut, SessionsTypeOK
<1>11. ASSUME NEW r \in Requests, Lose(r) \/ Fail(r)
       PROVE  SessionsTypeOK'
  <2>1. call' \in [Requests -> Call(minted')]
    BY <1>3, <1>4, <1>11 DEF Lose, Fail
  <2> QED
    BY <1>11, <2>1 DEF Lose, Fail, Disown, SessionsTypeOK
<1>12. ASSUME NEW b \in Browsers, ForgetCookie(b)
       PROVE  SessionsTypeOK'
  BY <1>12 DEF ForgetCookie, Disown, SessionsTypeOK
<1>13. ASSUME NEW t \in Tokens, Expire(t)
       PROVE  SessionsTypeOK'
  BY <1>13 DEF Expire, SessionsTypeOK
<1>14. CASE AccountRemoved
  BY <1>14 DEF AccountRemoved, SessionsTypeOK
<1>15. CASE UNCHANGED vars
  BY <1>15 DEF vars, SessionsTypeOK
<1> QED
  BY <1>2, <1>5, <1>6, <1>7, <1>8, <1>9, <1>10, <1>11, <1>12, <1>13, <1>14, <1>15
     DEF Next, RefreshBegin, LogoutBegin

(* The variables of a session are of their types at all times.             *)
THEOREM SessionsTypeCorrect == Spec => []SessionsTypeOK
<1>1. Init => SessionsTypeOK
  BY DEF Init, SessionsTypeOK, Call
<1> QED
  BY <1>1, TypeStep, PTL DEF Spec
-----------------------------------------------------------------------------
(* A token that is not the row's never becomes the row's: what a step      *)
(* writes is a token never given before, or none.                          *)
LEMMA SupersededStep ==
  ASSUME SessionsTypeOK, [Next]_vars
  PROVE  \A t \in minted : stored # t => stored' # t
<1>1. \A t \in minted : t # NoToken
  BY SessionsAssumption DEF SessionsTypeOK
<1>2. ASSUME NEW r \in Requests, Issue(r)
      PROVE  stored' = stored \/ stored' \notin minted
  BY <1>2 DEF Issue, NewTokens
<1>3. ASSUME NEW r \in Requests, Clear(r)
      PROVE  stored' = stored \/ stored' = NoToken
  BY <1>3 DEF Clear, Cleared
<1>4. ASSUME NEW r \in Requests, NEW b \in Browsers,
             LoginBegin(r, b) \/ RefreshBegin(r, b) \/ LogoutBegin(r, b)
      PROVE  stored' = stored
  BY <1>4 DEF LoginBegin, RefreshBegin, LogoutBegin, Present, Begin
<1>5. ASSUME NEW r \in Requests,
             LoginRead(r) \/ RefreshRead(r) \/ Deliver(r) \/ Lose(r) \/ Fail(r)
      PROVE  stored' = stored
  BY <1>5 DEF LoginRead, RefreshRead, Deliver, Lose, Fail
<1>6. ASSUME (\E b \in Browsers : ForgetCookie(b)) \/ (\E t \in Tokens : Expire(t))
               \/ UNCHANGED vars
      PROVE  stored' = stored
  BY <1>6 DEF ForgetCookie, Expire, vars
<1>7. CASE AccountRemoved
  BY <1>1, <1>7 DEF AccountRemoved
<1> QED
  BY <1>1, <1>2, <1>3, <1>4, <1>5, <1>6, <1>7 DEF Next

(* A token the row has let go of is never its token again.                 *)
THEOREM SupersededAlwaysDead == Spec => SupersededStaysDead
<1>1. SessionsTypeOK /\ [Next]_vars => [\A t \in minted : stored # t => stored' # t]_vars
  BY SupersededStep
<1> QED
  BY <1>1, SessionsTypeCorrect, PTL DEF Spec, SupersededStaysDead

-----------------------------------------------------------------------------
(* A slot that moves on without a token to hand out gives none to anybody. *)
LEMMA NoNewHolder ==
  ASSUME SessionsTypeOK, NEW r \in Requests, NEW c, Goto(r, c),
         c.step # "reply" \/ c.token = NoToken, jar' = jar,
         NEW t \in minted, NEW b \in Browsers, Holds(b, t)'
  PROVE  Holds(b, t)
<1>1. t # NoToken
  BY SessionsAssumption DEF SessionsTypeOK
<1>2. ASSUME NEW s \in Requests, Answering(s, b)', call'[s].token = t
      PROVE  Answering(s, b) /\ call[s].token = t
  <2>1. s # r
    BY <1>1, <1>2 DEF SessionsTypeOK, Goto, Answering, Of
  <2> QED
    BY <1>2, <2>1 DEF SessionsTypeOK, Goto, Answering, Of
<1> QED
  BY <1>2 DEF Holds

(* No step adds a browser to the holders of a token already given.         *)
LEMMA HoldersStep ==
  ASSUME SessionsTypeOK, [Next]_vars, NEW t \in minted, NEW b \in Browsers, Holds(b, t)'
  PROVE  Holds(b, t)
<1>1. Idle.step = "idle"
  BY DEF Idle
<1>2. ASSUME NEW r \in Requests, NEW d \in Browsers,
             LoginBegin(r, d) \/ RefreshBegin(r, d) \/ LogoutBegin(r, d)
      PROVE  Holds(b, t)
  <2>1. CASE LoginBegin(r, d)
    BY <2>1, NoNewHolder DEF LoginBegin, Begin, Goto
  <2>2. ASSUME NEW step \in {"refreshRead", "logoutClear"}, Present(r, d, step)
        PROVE  Holds(b, t)
    <3>1. CASE Verified(d)
      BY <2>2, <3>1, NoNewHolder DEF Present, Begin, Goto
    <3>2. CASE ~Verified(d)
      BY <2>2, <3>2, NoNewHolder DEF Present, Begin, Goto
    <3> QED
      BY <3>1, <3>2
  <2> QED
    BY <1>2, <2>1, <2>2 DEF RefreshBegin, LogoutBegin
<1>3. ASSUME NEW r \in Requests, jar' = jar, Goto(r, Idle) \/ Reply(r, NoToken)
      PROVE  Holds(b, t)
  BY <1>1, <1>3, NoNewHolder DEF Reply
<1>4. ASSUME NEW r \in Requests, LoginRead(r) \/ RefreshRead(r)
      PROVE  Holds(b, t)
  <2>1. CASE LoginRead(r)
    BY <1>3, <2>1, NoNewHolder DEF LoginRead
  <2>2. CASE RefreshRead(r)
    BY <1>3, <2>2, NoNewHolder DEF RefreshRead
  <2> QED
    BY <1>4, <2>1, <2>2
<1>5. ASSUME NEW r \in Requests, Issue(r)
      PROVE  Holds(b, t)
  <2>1. CASE ~present
    BY <1>3, <1>5, <2>1 DEF Issue
  <2>2. CASE present
    <3>1. PICK u \in Tokens \ minted : Reply(r, u)
      BY <1>5, <2>2 DEF Issue, NewTokens
    <3>2. ASSUME NEW s \in Requests, Answering(s, b)', call'[s].token = t
          PROVE  Answering(s, b) /\ call[s].token = t
      <4>1. s # r
        BY <3>1, <3>2 DEF SessionsTypeOK, Reply, Goto
      <4> QED
        BY <3>1, <3>2, <4>1 DEF SessionsTypeOK, Reply, Goto, Answering, Of
    <3> QED
      BY <1>5, <3>2 DEF Issue, Holds
  <2> QED
    BY <2>1, <2>2
<1>6. ASSUME NEW r \in Requests, Clear(r) \/ Lose(r) \/ Fail(r)
      PROVE  Holds(b, t)
  BY <1>3, <1>6 DEF Clear, Lose, Fail
<1>7. ASSUME NEW r \in Requests, Deliver(r)
      PROVE  Holds(b, t)
  <2>1. ASSUME NEW s \in Requests, Answering(s, b)', call'[s].token = t
        PROVE  Answering(s, b) /\ call[s].token = t
    BY <1>1, <1>7, <2>1 DEF Deliver, SessionsTypeOK, Goto, Answering, Of
  <2>2. ASSUME jar'[b] = t, jar[b] # t
        PROVE  Answering(r, b) /\ call[r].token = t
    BY <1>1, <1>7, <2>2 DEF Deliver, HandedOut, SessionsTypeOK, Answering, Of
  <2> QED
    BY <2>1, <2>2 DEF Holds
<1>8. ASSUME NEW d \in Browsers, ForgetCookie(d)
      PROVE  Holds(b, t)
  <2>1. jar'[b] = t => jar[b] = t
    BY <1>8, SessionsAssumption DEF ForgetCookie, SessionsTypeOK
  <2> QED
    BY <1>8, <2>1 DEF ForgetCookie, Holds, Answering, Of
<1>9. ASSUME (\E u \in Tokens : Expire(u)) \/ AccountRemoved \/ UNCHANGED vars
      PROVE  Holds(b, t)
  <2>1. jar' = jar /\ call' = call
    BY <1>9 DEF Expire, AccountRemoved, vars
  <2> QED
    BY <2>1 DEF Holds, Answering, Of
<1> QED
  BY <1>2, <1>4, <1>5, <1>6, <1>7, <1>8, <1>9 DEF Next

(* A token given by this step is on its way to one browser.                *)
LEMMA NewHolder ==
  ASSUME SessionsTypeOK, [Next]_vars, NEW t \in minted', t \notin minted,
         NEW b1 \in Browsers, NEW b2 \in Browsers, Holds(b1, t)', Holds(b2, t)'
  PROVE  b1 = b2
<1>1. PICK r \in Requests : Issue(r) /\ present
  <2>1. ASSUME NEW r \in Requests, NEW b \in Browsers,
               LoginBegin(r, b) \/ RefreshBegin(r, b) \/ LogoutBegin(r, b)
        PROVE  FALSE
    BY <2>1 DEF LoginBegin, RefreshBegin, LogoutBegin, Present, Begin
  <2>2. ASSUME NEW r \in Requests,
               LoginRead(r) \/ RefreshRead(r) \/ Clear(r) \/ Deliver(r) \/ Lose(r) \/ Fail(r)
        PROVE  FALSE
    BY <2>2 DEF LoginRead, RefreshRead, Clear, Deliver, Lose, Fail
  <2>3. ASSUME \/ \E b \in Browsers : ForgetCookie(b)
               \/ \E u \in Tokens : Expire(u)
               \/ AccountRemoved \/ UNCHANGED vars
        PROVE  FALSE
    BY <2>3 DEF ForgetCookie, Expire, AccountRemoved, vars
  <2>4. PICK r \in Requests : Issue(r)
    BY <2>1, <2>2, <2>3 DEF Next
  <2> QED
    BY <2>4 DEF Issue
<1>2. PICK u \in Tokens : minted' = minted \cup {u} /\ Reply(r, u)
  BY <1>1 DEF Issue, NewTokens
<1>3. u = t /\ t # NoToken
  BY <1>2, SessionsAssumption
<1>4. ASSUME NEW b \in Browsers, Holds(b, t)'
      PROVE  b = call[r].browser
  <2>1. jar'[b] # t
    BY <1>1, <1>3 DEF Issue, SessionsTypeOK
  <2>2. PICK s \in Requests : Answering(s, b)' /\ call'[s].token = t
    BY <1>4, <2>1 DEF Holds
  <2>3. s = r
    <3>1. SUFFICES ASSUME s # r PROVE FALSE
      OBVIOUS
    <3>2. call'[s] = call[s] /\ call[s] \in Call(minted) /\ call[s].step = "reply"
      BY <1>2, <2>2, <3>1 DEF SessionsTypeOK, Reply, Goto, Answering
    <3>3. call[s].token \in minted \cup {NoToken}
      BY <3>2, CallShape
    <3> QED
      BY <1>3, <2>2, <3>2, <3>3
  <2> QED
    BY <1>2, <2>2, <2>3 DEF SessionsTypeOK, Reply, Goto, Answering, Of
<1> QED
  BY <1>4

(* No token is in the hands of two browsers.                               *)
THEOREM OneBrowserAlways == Spec => []OneBrowserPerToken
<1>1. Init => OneBrowserPerToken
  BY DEF Init, OneBrowserPerToken
<1>2. SessionsTypeOK /\ OneBrowserPerToken /\ [Next]_vars => OneBrowserPerToken'
  <2> SUFFICES ASSUME SessionsTypeOK, OneBrowserPerToken, [Next]_vars,
                      NEW t \in minted', NEW b1 \in Browsers, NEW b2 \in Browsers,
                      Holds(b1, t)', Holds(b2, t)'
               PROVE  b1 = b2
    BY DEF OneBrowserPerToken
  <2>1. CASE t \in minted
    BY <2>1, HoldersStep DEF OneBrowserPerToken
  <2>2. CASE t \notin minted
    BY <2>2, NewHolder
  <2> QED
    BY <2>1, <2>2
<1> QED
  BY <1>1, <1>2, SessionsTypeCorrect, PTL DEF Spec
-----------------------------------------------------------------------------
(* Why LastWriterHoldsSession: an answer under way to that browser brings  *)
(* what the row has, and it has no second call that could change either.   *)
OwnerInTouch ==
  owner # Nobody =>
    /\ present
    /\ \A r, s \in Requests : Of(r, owner) /\ Of(s, owner) => r = s
    /\ \A r \in Requests : Answering(r, owner) => Usable(call[r].token) = Usable(stored)
    /\ LastWriterHoldsSession

(* What other browsers' calls do to their slots and cookies is no matter.  *)
LEMMA Elsewhere ==
  ASSUME SessionsTypeOK, OwnerInTouch, owner' = owner, owner # Nobody,
         NEW r \in Requests, NEW c, Goto(r, c), ~Of(r, owner), c = Idle \/ c.browser # owner,
         present' = present, stored' = stored, expired' = expired, jar'[owner] = jar[owner]
  PROVE  OwnerInTouch'
<1>1. \A s \in Requests : /\ Of(s, owner)' <=> Of(s, owner)
                          /\ Of(s, owner) => call'[s] = call[s]
  BY DEF SessionsTypeOK, Goto, Of
<1> QED
  BY <1>1 DEF OwnerInTouch, LastWriterHoldsSession, Answering, Usable

(* A slot that moves on before it answers, for the browser it was for.     *)
LEMMA OnTheWay ==
  ASSUME SessionsTypeOK, OwnerInTouch, NEW r \in Requests, NEW c, Goto(r, c),
         call[r].step \notin {"idle", "reply"}, c.step # "reply",
         c = Idle \/ c.browser = call[r].browser,
         UNCHANGED <<present, stored, expired, jar, owner>>
  PROVE  OwnerInTouch'
<1>1. \A s \in Requests : /\ Of(s, owner)' => Of(s, owner)
                          /\ Answering(s, owner)' <=> Answering(s, owner)
                          /\ Answering(s, owner) => call'[s] = call[s]
  BY DEF SessionsTypeOK, Goto, Answering, Of, Idle
<1> QED
  BY <1>1 DEF OwnerInTouch, LastWriterHoldsSession, Usable

(* The row and the answer are written together.                            *)
LEMMA Written ==
  ASSUME SessionsTypeOK, present', NEW r \in Requests, NEW t, Reply(r, t), Wrote(r), stored' = t,
         call[r].step # "idle"
  PROVE  OwnerInTouch'
<1>1. SUFFICES ASSUME owner' # Nobody PROVE OwnerInTouch'
  BY DEF OwnerInTouch
<1>2. /\ owner' = call[r].browser
      /\ \A s \in Requests \ {r} : ~Of(s, call[r].browser)
  BY <1>1 DEF Wrote
<1>3. call' = [call EXCEPT ![r] = [step |-> "reply", browser |-> owner', token |-> t]]
  BY <1>2 DEF Reply, Goto
<1>4. \A s \in Requests \ {r} : ~Of(s, owner)'
  BY <1>2, <1>3 DEF SessionsTypeOK, Of
<1>5. call'[r] = [step |-> "reply", browser |-> owner', token |-> t]
  BY <1>3 DEF SessionsTypeOK
<1>6. Answering(r, owner)'
  BY <1>5 DEF Answering, Of, Idle
<1> QED
  BY <1>4, <1>5, <1>6 DEF OwnerInTouch, LastWriterHoldsSession, Answering, Usable

(* Every step keeps the last writer in touch, or makes it nobody.          *)
LEMMA OwnerStep ==
  ASSUME SessionsTypeOK, OwnerInTouch, [Next]_vars
  PROVE  OwnerInTouch'
<1>1. Idle.step = "idle"
  BY DEF Idle
<1>2. ASSUME owner' = Nobody
      PROVE  OwnerInTouch'
  BY <1>2 DEF OwnerInTouch
<1>3. ASSUME NEW r \in Requests, NEW b \in Browsers, NEW c, Begin(r, b, c),
             c.browser = b, c # Idle,
             c.step = "reply" => c.token = NoToken /\ ~Verified(b)
      PROVE  OwnerInTouch'
  <2>1. CASE owner # b
    BY <1>2, <1>3, <2>1, Elsewhere DEF Begin, Goto, Of
  <2>2. CASE owner = b
    <3>1. SUFFICES ASSUME owner # Nobody, owner' = owner, \A s \in Requests : ~Of(s, b)
                   PROVE  OwnerInTouch'
      BY <1>2, <1>3, <2>2 DEF Begin
    <3>2. \A s \in Requests \ {r} : ~Of(s, owner)'
      BY <1>3, <2>2, <3>1 DEF Begin, SessionsTypeOK, Of
    <3>3. Usable(jar[b]) = Usable(stored)
      BY <2>2, <3>1 DEF OwnerInTouch, LastWriterHoldsSession, Answering
    <3>4. call'[r] = c
      BY <1>3 DEF Begin, SessionsTypeOK
    <3>5. c.step = "reply" => Usable(c.token) = Usable(stored)
      BY <1>3, <3>3 DEF Verified, Usable
    <3>6. (\A s \in Requests : ~Answering(s, owner)') => Usable(jar[owner])' = Usable(stored)'
      BY <1>3, <2>2, <3>1, <3>3 DEF Begin, Usable
    <3>7. expired' = expired /\ stored' = stored
      BY <1>3 DEF Begin
    <3>8. present'
      BY <1>3, <3>1 DEF Begin, OwnerInTouch
    <3> QED
      BY <3>1, <3>2, <3>4, <3>5, <3>6, <3>7, <3>8
         DEF OwnerInTouch, LastWriterHoldsSession, Answering, Usable
  <2> QED
    BY <2>1, <2>2
<1>4. ASSUME NEW r \in Requests, NEW b \in Browsers, LoginBegin(r, b)
      PROVE  OwnerInTouch'
  <2>1. [step |-> "loginRead", browser |-> b] # Idle
    BY DEF Idle
  <2> QED
    BY <1>3, <1>4, <2>1 DEF LoginBegin
<1>5. ASSUME NEW r \in Requests, NEW b \in Browsers,
             NEW step \in {"refreshRead", "logoutClear"}, Present(r, b, step)
      PROVE  OwnerInTouch'
  <2>1. /\ [step |-> step, browser |-> b, token |-> jar[b]] # Idle
        /\ [step |-> "reply", browser |-> b, token |-> NoToken] # Idle
    BY DEF Idle
  <2>2. CASE Verified(b)
    BY <1>3, <1>5, <2>1, <2>2 DEF Present
  <2>3. CASE ~Verified(b)
    BY <1>3, <1>5, <2>1, <2>3 DEF Present
  <2> QED
    BY <2>2, <2>3
<1>6. ASSUME NEW r \in Requests, LoginRead(r)
      PROVE  OwnerInTouch'
  BY <1>1, <1>6, OnTheWay DEF LoginRead
<1>7. ASSUME NEW r \in Requests, RefreshRead(r)
      PROVE  OwnerInTouch'
  <2>1. CASE present
    BY <1>7, <2>1, OnTheWay DEF RefreshRead
  <2>2. CASE ~present
    BY <1>2, <1>7, <2>2 DEF RefreshRead, OwnerInTouch
  <2> QED
    BY <2>1, <2>2
<1>8. ASSUME NEW r \in Requests, Issue(r)
      PROVE  OwnerInTouch'
  <2>1. CASE present
    BY <1>8, <2>1, Written DEF Issue
  <2>2. CASE ~present
    BY <1>2, <1>8, <2>2 DEF Issue, OwnerInTouch
  <2> QED
    BY <2>1, <2>2
<1>9. ASSUME NEW r \in Requests, Clear(r)
      PROVE  OwnerInTouch'
  <2>1. CASE present
    BY <1>9, <2>1, Written DEF Clear, Cleared
  <2>2. CASE ~present
    BY <1>2, <1>9, <2>2 DEF Clear, OwnerInTouch
  <2> QED
    BY <2>1, <2>2
<1>10. ASSUME NEW r \in Requests, Deliver(r)
       PROVE  OwnerInTouch'
  <2>1. SUFFICES ASSUME owner # Nobody PROVE OwnerInTouch'
    BY <1>2, <1>10 DEF Deliver
  <2>2. CASE call[r].browser # owner
    <3>1. jar'[owner] = jar[owner]
      BY <1>10, <2>1, <2>2 DEF Deliver, SessionsTypeOK
    <3> QED
      BY <1>10, <2>1, <2>2, <3>1, Elsewhere DEF Deliver, Of
  <2>3. CASE call[r].browser = owner
    <3>1. Answering(r, owner)
      BY <1>1, <1>10, <2>3 DEF Deliver, Answering, Of
    <3>2. \A s \in Requests \ {r} : ~Of(s, owner)
      BY <2>1, <3>1 DEF OwnerInTouch, Answering
    <3>3. \A s \in Requests : ~Of(s, owner)'
      BY <1>10, <3>2 DEF Deliver, Goto, SessionsTypeOK, Of
    <3>4. jar'[owner] = call[r].token
      BY <1>10, <2>1, <2>3 DEF Deliver, HandedOut, SessionsTypeOK
    <3>5. Usable(call[r].token) = Usable(stored)
      BY <2>1, <3>1 DEF OwnerInTouch
    <3>6. Usable(jar[owner])' = Usable(stored)'
      BY <1>10, <3>4, <3>5 DEF Deliver, Usable
    <3>7. present'
      BY <1>10, <2>1 DEF Deliver, OwnerInTouch
    <3> QED
      BY <3>3, <3>6, <3>7 DEF OwnerInTouch, LastWriterHoldsSession, Answering
  <2> QED
    BY <2>2, <2>3
<1>11. ASSUME NEW r \in Requests, Lose(r) \/ Fail(r)
       PROVE  OwnerInTouch'
  <2>1. SUFFICES ASSUME owner' # Nobody PROVE OwnerInTouch'
    BY <1>2
  <2>2. owner' = owner /\ call[r].browser # owner
    BY <1>11, <2>1 DEF Lose, Fail, Disown
  <2>3. CASE Lose(r)
    BY <2>1, <2>2, <2>3, Elsewhere DEF Lose, Of
  <2>4. CASE Fail(r)
    BY <2>1, <2>2, <2>4, Elsewhere DEF Fail, Reply, Of
  <2> QED
    BY <1>11, <2>3, <2>4
<1>12. ASSUME NEW b \in Browsers, ForgetCookie(b)
       PROVE  OwnerInTouch'
  <2>1. SUFFICES ASSUME owner' # Nobody PROVE OwnerInTouch'
    BY <1>2
  <2>2. owner' = owner /\ b # owner
    BY <1>12, <2>1 DEF ForgetCookie, Disown
  <2>3. jar'[owner] = jar[owner]
    BY <1>12, <2>1, <2>2 DEF ForgetCookie, SessionsTypeOK
  <2> QED
    BY <1>12, <2>1, <2>2, <2>3
       DEF ForgetCookie, OwnerInTouch, LastWriterHoldsSession, Answering, Of, Usable
<1>13. ASSUME NEW t \in Tokens, Expire(t)
       PROVE  OwnerInTouch'
  <2>1. \A u, v : Usable(u) = Usable(v) => Usable(u)' = Usable(v)'
    BY <1>13 DEF Expire, Usable
  <2> QED
    BY <1>13, <2>1 DEF Expire, OwnerInTouch, LastWriterHoldsSession, Answering, Of, Usable
<1>14. CASE AccountRemoved
  BY <1>2, <1>14 DEF AccountRemoved
<1>15. CASE UNCHANGED vars
  BY <1>15 DEF vars, OwnerInTouch, LastWriterHoldsSession, Answering, Of, Usable
<1> QED
  BY <1>4, <1>5, <1>6, <1>7, <1>8, <1>9, <1>10, <1>11, <1>12, <1>13, <1>14, <1>15
     DEF Next, RefreshBegin, LogoutBegin

(* The browser that wrote the row last, alone, and has its answer, is      *)
(* signed in exactly if the row says so.                                   *)
THEOREM LastWriterAlwaysHolds == Spec => []LastWriterHoldsSession
<1>1. Init => OwnerInTouch
  BY DEF Init, OwnerInTouch
<1>2. SessionsTypeOK /\ OwnerInTouch /\ [Next]_vars => OwnerInTouch'
  BY OwnerStep
<1>3. OwnerInTouch => LastWriterHoldsSession
  BY DEF OwnerInTouch, LastWriterHoldsSession
<1> QED
  BY <1>1, <1>2, <1>3, SessionsTypeCorrect, PTL DEF Spec
=============================================================================
