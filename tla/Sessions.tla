-------------------------------- MODULE Sessions --------------------------------
(***************************************************************************)
(* The sessions of one account: apps/api/src/auth/auth.service.ts, users/  *)
(* users.service.ts and the guard of every authenticated request, common/  *)
(* guards/access-auth.guard.ts.                                            *)
(*                                                                         *)
(* A session row stands for its refresh token and for the access token     *)
(* issued with it.  Nothing is locked: a call reads, and writes later what *)
(* it decided; only resetPassword, setPassword and the deletion write      *)
(* their rows in one transaction.                                          *)
(***************************************************************************)
EXTENDS Naturals

CONSTANTS Session, AuthCall, MaxVersion

VARIABLES
  account,   \* [deleted, version]  version: tokenVersion
  reset,     \* the password reset token: "NONE", "ISSUED", "CONSUMED"
  session,   \* [Session -> [status, version, login]]  login: the session
             \* that the login issued, of which this one is a refresh
  call,      \* [AuthCall -> [op, at, what, version]]
  over,      \* the logins that ended: no live session, and no call about to issue one
  forked     \* the logins of which one token was refreshed by two calls at once
sessionVars == <<account, reset, session, call, over, forked>>

NoOne == "none"
NewSession == [status |-> "NONE", version |-> 0, login |-> NoOne]
NoCall == [op |-> "none", at |-> "idle", what |-> NoOne, version |-> 0]
Ops == {"none", "login", "refresh", "reset", "setPassword", "revoke", "revokeAll", "delete"}

SessionTypeOK ==
    /\ account \in [deleted : BOOLEAN, version : 0..MaxVersion]
    /\ reset \in {"NONE", "ISSUED", "CONSUMED"}
    /\ session \in [Session -> [status : {"NONE", "LIVE", "EXPIRED", "REVOKED"},
                                version : 0..MaxVersion, login : Session \cup {NoOne}]]
    /\ call \in [AuthCall -> [op : Ops, at : {"idle", "admitted", "read", "used"},
                              what : Session \cup {NoOne}, version : 0..MaxVersion]]
    /\ over \subseteq Session /\ forked \subseteq Session

Init ==
    /\ account = [deleted |-> FALSE, version |-> 0]
    /\ reset = "NONE"
    /\ session = [s \in Session |-> NewSession]
    /\ call = [k \in AuthCall |-> NoCall]
    /\ over = {} /\ forked = {}

Live == {s \in Session : session[s].status = "LIVE"}
Known == {s \in Session : session[s].status # "NONE"}

----------------------------------------------------------------------------
(* The guard: the access token of a session lets a request in.             *)
Admitted(s) == s \in Live /\ ~account.deleted /\ session[s].version = account.version

Revoked(these) == [s \in Session |-> IF s \in these \cap Known
                                     THEN [session[s] EXCEPT !.status = "REVOKED"]
                                     ELSE session[s]]

(* An operation ends these sessions.  A refresh in flight is not stopped.  *)
EndSessions(these) ==
    /\ session' = Revoked(these)
    /\ LET going == {session[s].login : s \in Live \ these}
                    \cup {session[call[c].what].login :
                            c \in {k \in AuthCall : call[k].op = "refresh"}}
       IN  over' = over \cup ({session[s].login : s \in Live \cap these} \ going)

Done(k) == call' = [call EXCEPT ![k] = NoCall]

(* The row is inserted with what the call read of the account.             *)
IssueTokens(k, login) ==
    LET s == CHOOSE t \in Session \ Known : TRUE
    IN  /\ Session # Known
        /\ session' = [session EXCEPT ![s] =
             [status |-> "LIVE", version |-> call[k].version,
              login |-> IF login = NoOne THEN s ELSE login]]
        /\ Done(k)
        /\ UNCHANGED <<account, reset, over, forked>>

----------------------------------------------------------------------------
(* Login with the password or a provider: read the user, then issue.       *)
Login(k) ==
    /\ call[k] = NoCall /\ ~account.deleted
    /\ call' = [call EXCEPT ![k] = [NoCall EXCEPT !.op = "login", !.version = account.version]]
    /\ UNCHANGED <<account, reset, session, over, forked>>

LoginIssue(k) == call[k].op = "login" /\ IssueTokens(k, NoOne)

(* Refresh: read the session of the token, read the user, revoke the       *)
(* session, issue another.                                                 *)
MayRefresh_Any(s) == s \in Known

MayRefresh(s) == s \in Live

ReadToken(k, s) ==
    /\ call[k] = NoCall /\ MayRefresh(s)
    /\ call' = [call EXCEPT ![k] = [NoCall EXCEPT !.op = "refresh", !.at = "admitted", !.what = s]]
    /\ forked' = IF \E c \in AuthCall : call[c].op = "refresh" /\ call[c].what = s
                 THEN forked \cup {session[s].login} ELSE forked
    /\ UNCHANGED <<account, reset, session, over>>

(* A revoked token is presented: every session of the user is revoked.     *)
ReuseDetected(s) ==
    /\ session[s].status = "REVOKED"
    /\ EndSessions(Session)
    /\ UNCHANGED <<account, reset, call, forked>>

RevokeUsed(k) ==
    /\ call[k].op = "refresh" /\ call[k].at = "read"
    /\ session' = Revoked({call[k].what})
    /\ call' = [call EXCEPT ![k].at = "used"]
    /\ UNCHANGED <<account, reset, over, forked>>

RefreshIssue(k) ==
    /\ call[k].op = "refresh" /\ call[k].at = "used"
    /\ IssueTokens(k, session[call[k].what].login)

Expire(s) ==
    /\ s \in Live
    /\ session' = [session EXCEPT ![s].status = "EXPIRED"]
    /\ UNCHANGED <<account, reset, call, over, forked>>

----------------------------------------------------------------------------
(* A request of a session passes the guard; its handler runs later, and    *)
(* goes on if the account is not deleted by then.  what: the session to    *)
(* keep, or the one to revoke (revoking one that is revoked changes        *)
(* nothing).                                                               *)
Admit(k, op, what) ==
    /\ call[k] = NoCall
    /\ call' = [call EXCEPT ![k] = [NoCall EXCEPT !.op = op, !.at = "admitted", !.what = what]]
    /\ UNCHANGED <<account, reset, session, over, forked>>

ReadUser(k) ==
    /\ call[k].op \in {"refresh", "setPassword", "delete"} /\ call[k].at = "admitted"
    /\ IF account.deleted THEN Done(k)
       ELSE call' = [call EXCEPT ![k].at = "read",
                                 ![k].version = IF call[k].op = "refresh" THEN account.version ELSE 0]
    /\ UNCHANGED <<account, reset, session, over, forked>>

(* The new version and the end of the sessions, in one transaction.        *)
Bump(deleted) ==
    /\ account.version < MaxVersion
    /\ account' = [deleted |-> deleted, version |-> account.version + 1]

SetPassword(k) ==
    /\ call[k].op = "setPassword" /\ call[k].at = "read"
    /\ Bump(account.deleted)
    /\ EndSessions(Session \ {call[k].what})
    /\ Done(k)
    /\ UNCHANGED <<reset, forked>>

RequestDeletion(k) ==
    /\ call[k].op = "delete" /\ call[k].at = "read"
    /\ Bump(TRUE)
    /\ EndSessions(Session)
    /\ Done(k)
    /\ UNCHANGED <<reset, forked>>

(* Logout revokes the caller's own session.                                *)
RevokeSession(k) ==
    /\ call[k].op = "revoke"
    /\ EndSessions({call[k].what})
    /\ Done(k)
    /\ UNCHANGED <<account, reset, forked>>

RevokeAllSessions(k) ==
    /\ call[k].op = "revokeAll"
    /\ EndSessions(Session \ {call[k].what})
    /\ Done(k)
    /\ UNCHANGED <<account, reset, forked>>

----------------------------------------------------------------------------
ForgotPassword ==
    /\ ~account.deleted /\ reset # "ISSUED"
    /\ reset' = "ISSUED"
    /\ UNCHANGED <<account, session, call, over, forked>>

(* The token is checked, and consumed later by a transaction that does not *)
(* look again: two resets with one token may both go through.              *)
ReadReset(k) ==
    /\ call[k] = NoCall /\ reset = "ISSUED"
    /\ call' = [call EXCEPT ![k] = [NoCall EXCEPT !.op = "reset"]]
    /\ UNCHANGED <<account, reset, session, over, forked>>

ResetPassword(k) ==
    /\ call[k].op = "reset"
    /\ reset' = "CONSUMED"
    /\ Bump(account.deleted)
    /\ EndSessions(Session)
    /\ Done(k)
    /\ UNCHANGED forked

Next ==
    \/ \E s \in Session : ReuseDetected(s) \/ Expire(s)
    \/ ForgotPassword
    \/ \E k \in AuthCall :
         \/ Login(k) \/ LoginIssue(k) \/ RevokeUsed(k) \/ RefreshIssue(k) \/ ReadUser(k)
         \/ SetPassword(k) \/ RevokeSession(k) \/ RevokeAllSessions(k) \/ RequestDeletion(k)
         \/ ReadReset(k) \/ ResetPassword(k)
         \/ \E s \in Session :
              \/ ReadToken(k, s)
              \/ Admitted(s) /\ Admit(k, "setPassword", s)
              \/ Admitted(s) /\ Admit(k, "revokeAll", s)
              \/ Admitted(s) /\ Admit(k, "delete", NoOne)
              \/ Admitted(s) /\ \E t \in Live : Admit(k, "revoke", t)

Spec == Init /\ [][Next]_sessionVars

----------------------------------------------------------------------------
(* A login whose sessions something ended (a new password, the deletion, a *)
(* revocation, a token used twice) has no live session again, unless a     *)
(* refresh was in flight; and a login has one live session, unless two     *)
(* calls refreshed one token together (auth.service.ts:131, :158).         *)
SessionsEnded ==
    \A s, t \in Live :
      /\ session[s].login \notin over
      /\ session[s].login = session[t].login => s = t \/ session[s].login \in forked
=============================================================================
