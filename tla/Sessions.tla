------------------------------ MODULE Sessions ------------------------------
(***************************************************************************)
(* The refresh session of one account: login, refresh and logout of        *)
(* AuthController and AuthService.  The account's row keeps one refresh    *)
(* token, each browser at most one in its cookie.  Every login and refresh *)
(* replaces the row's token with a new one and sends it to the browser; a  *)
(* refresh or logout presents the one in the cookie.                       *)
(*                                                                         *)
(* A token stands for its id and its hash, which the row stores and        *)
(* compares together.  The answer to a call is a step of its own: answers  *)
(* to one browser arrive in any order, or not at all.  Other accounts have *)
(* rows of their own; one that signs in with the same browser takes the    *)
(* cookie away, as expiry and the user do (ForgetCookie).                  *)
(***************************************************************************)
CONSTANTS Browsers,
          Requests,  \* slots for calls under way
          Tokens,    \* ids a token may be given: bounds the number of sessions
          NoToken,   \* null in the row, no cookie in the browser
          Nobody     \* in place of a browser

VARIABLES present,  \* the account exists
          stored,   \* the token of its row
          minted,   \* tokens given so far: uuids are never given twice
          expired,  \* tokens that no longer verify
          jar,      \* the cookie of each browser
          call,     \* what each slot is about to do
          owner     \* history: the browser that wrote the row last, if it then
                    \* had no other call under way and its cookie was left alone

vars == <<present, stored, minted, expired, jar, call, owner>>

Idle == [step |-> "idle"]

Call(ids) == {Idle}
  \cup [step : {"loginRead", "loginIssue", "refreshClear"}, browser : Browsers]
  \cup [step : {"refreshRead", "refreshIssue", "logoutClear"}, browser : Browsers, token : ids]
  \cup [step : {"reply"}, browser : Browsers, token : ids \cup {NoToken}]

ASSUME SessionsAssumption == NoToken \notin Tokens /\ Nobody \notin Browsers

SessionsTypeOK ==
  /\ present \in BOOLEAN
  /\ minted \subseteq Tokens
  /\ expired \subseteq minted
  /\ stored \in minted \cup {NoToken}
  /\ jar \in [Browsers -> minted \cup {NoToken}]
  /\ call \in [Requests -> Call(minted)]
  /\ owner \in Browsers \cup {Nobody}

(* An account that has just been registered, or signed out everywhere.     *)
Init ==
  /\ present = TRUE
  /\ stored = NoToken
  /\ minted = {}
  /\ expired = {}
  /\ jar = [b \in Browsers |-> NoToken]
  /\ call = [r \in Requests |-> Idle]
  /\ owner = Nobody

-----------------------------------------------------------------------------
Of(r, b) == call[r] # Idle /\ call[r].browser = b

(* A call of browser b begins.                                             *)
Begin(r, b, c) ==
  /\ call[r] = Idle
  /\ call' = [call EXCEPT ![r] = c]
  /\ owner' = IF owner = b /\ \E s \in Requests : Of(s, b) THEN Nobody ELSE owner
  /\ UNCHANGED <<present, stored, minted, expired, jar>>

Goto(r, c) == call' = [call EXCEPT ![r] = c]

Reply(r, token) ==
  Goto(r, [step |-> "reply", browser |-> call[r].browser, token |-> token])

(* The call of slot r has written the row.                                 *)
Wrote(r) ==
  owner' = IF \E s \in Requests \ {r} : Of(s, call[r].browser) THEN Nobody
                                                               ELSE call[r].browser

-----------------------------------------------------------------------------
(* login: the account and its password are read; register, which inserts   *)
(* the account, goes on the same way.                                      *)
LoginBegin(r, b) == Begin(r, b, [step |-> "loginRead", browser |-> b])

LoginRead(r) ==
  /\ call[r].step = "loginRead"
  /\ \/ present /\ Goto(r, [step |-> "loginIssue", browser |-> call[r].browser])
     \/ Goto(r, Idle)
  /\ UNCHANGED <<present, stored, minted, expired, jar, owner>>

(* verifyRefreshToken, of the cookie a refresh or logout came with.  One    *)
(* without a cookie, or with one that has expired, is answered by clearing *)
(* the cookie, as it is by the time the answer arrives.                    *)
\* Variant: a call without the cookie goes on.
NotExpired(b) == jar[b] \notin expired
Verified(b) == jar[b] # NoToken /\ jar[b] \notin expired

Present(r, b, step) ==
  Begin(r, b, IF Verified(b) THEN [step |-> step, browser |-> b, token |-> jar[b]]
                             ELSE [step |-> "reply", browser |-> b, token |-> NoToken])

RefreshBegin(r, b) == Present(r, b, "refreshRead")

(* refreshSession: the row's token and the one presented are compared.     *)
RefreshRead(r) ==
  LET b == call[r].browser
      token == call[r].token
  IN  /\ call[r].step = "refreshRead"
      /\ \/ /\ present /\ stored = token
            /\ Goto(r, [step |-> "refreshIssue", browser |-> b, token |-> token])
         \/ /\ present /\ stored # token
            /\ Goto(r, [step |-> "refreshClear", browser |-> b])
         \/ ~present /\ Reply(r, NoToken)
      /\ UNCHANGED <<present, stored, minted, expired, jar, owner>>

\* Variant: a refresh writes the token back that it was given.
SameTokenAgain(r) == IF call[r].step = "refreshIssue" THEN {call[r].token} ELSE Tokens \ minted
NewTokens(r) == Tokens \ minted

(* issueSessionTokens: the row gets the new token, whatever it has by now. *)
(* If the account is gone, a refresh answers by clearing the cookie, a     *)
(* login with an error that leaves it.                                     *)
Issue(r) ==
  /\ call[r].step \in {"loginIssue", "refreshIssue"}
  /\ \/ /\ present
        /\ \E t \in NewTokens(r) :
             /\ stored' = t
             /\ minted' = minted \cup {t}
             /\ Reply(r, t)
        /\ Wrote(r)
     \/ /\ ~present
        /\ IF call[r].step = "loginIssue" THEN Goto(r, Idle) ELSE Reply(r, NoToken)
        /\ UNCHANGED <<stored, minted, owner>>
  /\ UNCHANGED <<present, expired, jar>>

(* logout: the token is not compared with the row's.                       *)
LogoutBegin(r, b) == Present(r, b, "logoutClear")

(* clearRefreshSession, of a logout or of a refresh whose token was not    *)
(* the row's.                                                              *)
\* Variant: the cookie is cleared, the row is left.
CookieOnly == stored
Cleared == NoToken

Clear(r) ==
  /\ call[r].step \in {"refreshClear", "logoutClear"}
  /\ \/ present /\ stored' = Cleared /\ Wrote(r)
     \/ ~present /\ UNCHANGED <<stored, owner>>
  /\ Reply(r, NoToken)
  /\ UNCHANGED <<present, minted, expired, jar>>

-----------------------------------------------------------------------------
(* The answer arrives: setRefreshTokenCookie or clearAuthCookies.          *)
\* Variant: the answer is made of the row read back, not of what was issued.
ReadBack(r) == IF call[r].token = NoToken THEN NoToken ELSE stored
HandedOut(r) == call[r].token

Deliver(r) ==
  /\ call[r].step = "reply"
  /\ jar' = [jar EXCEPT ![call[r].browser] = HandedOut(r)]
  /\ Goto(r, Idle)
  /\ UNCHANGED <<present, stored, minted, expired, owner>>

(* The browser of the history variable loses touch.                        *)
Disown(b) == owner' = IF owner = b THEN Nobody ELSE owner

(* The process dies, the answer is lost, or a statement of a login fails.  *)
Lose(r) ==
  /\ call[r] # Idle
  /\ Disown(call[r].browser)
  /\ Goto(r, Idle)
  /\ UNCHANGED <<present, stored, minted, expired, jar>>

(* A statement of a refresh or logout fails: the answer clears the cookie, *)
(* and the row is as it was.                                               *)
Fail(r) ==
  /\ call[r].step \in {"refreshRead", "refreshIssue", "refreshClear", "logoutClear"}
  /\ Disown(call[r].browser)
  /\ Reply(r, NoToken)
  /\ UNCHANGED <<present, stored, minted, expired, jar>>

ForgetCookie(b) ==
  /\ jar[b] # NoToken
  /\ jar' = [jar EXCEPT ![b] = NoToken]
  /\ Disown(b)
  /\ UNCHANGED <<present, stored, minted, expired, call>>

Expire(t) ==
  /\ t \in minted \ expired
  /\ expired' = expired \cup {t}
  /\ UNCHANGED <<present, stored, minted, jar, call, owner>>

(* UsersService.remove: the row goes, and its token with it.               *)
AccountRemoved ==
  /\ present
  /\ present' = FALSE
  /\ stored' = NoToken
  /\ owner' = Nobody
  /\ UNCHANGED <<minted, expired, jar, call>>

Next ==
  \/ \E r \in Requests :
       \/ \E b \in Browsers : LoginBegin(r, b) \/ RefreshBegin(r, b) \/ LogoutBegin(r, b)
       \/ LoginRead(r) \/ RefreshRead(r) \/ Issue(r) \/ Clear(r)
       \/ Deliver(r) \/ Lose(r) \/ Fail(r)
  \/ \E b \in Browsers : ForgetCookie(b)
  \/ \E t \in Tokens : Expire(t)
  \/ AccountRemoved

Spec == Init /\ [][Next]_vars

-----------------------------------------------------------------------------
Usable(t) == IF t \in expired THEN NoToken ELSE t

Answering(r, b) == Of(r, b) /\ call[r].step = "reply"

(* The browser that wrote the row last, by a login, a refresh or a logout  *)
(* that overlapped with no other call of its own, and got the answer, has  *)
(* the row's token in its cookie, or neither has one: whatever the other   *)
(* browsers do, it is not signed out by its own next refresh, and a logout *)
(* leaves no session behind.                                               *)
LastWriterHoldsSession ==
  owner # Nobody /\ (\A r \in Requests : ~Answering(r, owner))
    => Usable(jar[owner]) = Usable(stored)

(* In the cookie of b, or on its way there.                                *)
Holds(b, t) ==
  \/ jar[b] = t
  \/ \E r \in Requests : Answering(r, b) /\ call[r].token = t

(* No token is in, or on its way to, two browsers: overlapping calls never *)
(* give one browser the session of another.                                *)
OneBrowserPerToken ==
  \A t \in minted : \A b1, b2 \in Browsers : Holds(b1, t) /\ Holds(b2, t) => b1 = b2

(* A token the row has let go of, replaced or cleared, is never the row's  *)
(* again: not even a refresh that found it there and writes later brings   *)
(* it back.                                                                *)
SupersededStaysDead == [][\A t \in minted : stored # t => stored' # t]_vars
=============================================================================
