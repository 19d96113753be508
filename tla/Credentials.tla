---------------------------- MODULE Credentials -----------------------------
(***************************************************************************)
(* API keys, and how a request comes by its authority: resolveIdentity and *)
(* the wrappers of internal/server/auth_middleware.go, the handlers of     *)
(* internal/server/api_apikeys.go, the table of internal/store/apikeys.go. *)
(*                                                                         *)
(* Once per request the middleware reads the key, then the account that    *)
(* owns it, then notes the time of use.  Everything after that, wrapper    *)
(* and handler, trusts these two rows, while keys are revoked and expire   *)
(* and accounts are disabled, promoted, demoted and deleted.               *)
(*                                                                         *)
(* Requests with a session are here for what only they may do, make and    *)
(* revoke keys; how sessions end is in Accounts.  The scopes of a key are  *)
(* reduced to one for users or one for administrators, which includes it.  *)
(* Access tokens of an identity provider, which nobody here can revoke,    *)
(* are left out.                                                           *)
(***************************************************************************)
EXTENDS FiniteSets

CONSTANTS
  Owners,  \* accounts
  ApiKeys, \* ids of keys, each used once
  Callers, \* requests in progress at the same time
  Session, \* in place of a key: the caller has a session
  NoOwner

ASSUME CredentialsAssumption == Session \notin ApiKeys /\ NoOwner \notin Owners

VARIABLES
  apiKeys,  \* the table of keys
  accounts, \* what matters of the table of users
  calls,    \* what each request knows
  over,     \* ghost: keys that were revoked, have expired, or went with the account
  standing  \* ghost: what was true at some moment since the request began

credentialsVars == <<apiKeys, accounts, calls, over, standing>>

-----------------------------------------------------------------------------
Scopes  == {"links:write", "admin:*"}
KeyRow  == [is : {"unmade", "live", "revoked", "gone"}, scope : Scopes,
            owner : Owners \cup {NoOwner}, expired : BOOLEAN, used : BOOLEAN]
Unmade  == [is |-> "unmade", scope |-> "links:write", owner |-> NoOwner,
            expired |-> FALSE, used |-> FALSE]
Account == [is : {"active", "disabled", "deleted"}, admin : BOOLEAN]
Nobodys == [is |-> "deleted", admin |-> FALSE]

\* `by` is the key, `key` and `user` the rows that were read, `about` the key
\* that is to be revoked.
Call   == [at : {"idle", "owner", "touch", "enter", "links", "admin", "keys", "revoke"},
           by : ApiKeys \cup {Session}, owner : Owners \cup {NoOwner},
           key : KeyRow, user : Account, about : ApiKeys \cup {Session}]
NoCall == [at |-> "idle", by |-> Session, owner |-> NoOwner, key |-> Unmade,
           user |-> Nobodys, about |-> Session]

CredentialsTypeOK ==
  /\ apiKeys \in [ApiKeys -> KeyRow]
  /\ accounts \in [Owners -> Account]
  /\ calls \in [Callers -> Call]
  /\ over \in SUBSET ApiKeys
  /\ standing \in [Callers -> SUBSET {"key", "active", "admin"}]

CredentialsInit ==
  /\ apiKeys = [k \in ApiKeys |-> Unmade]
  /\ accounts = [u \in Owners |-> [is |-> "active", admin |-> TRUE]]
  /\ calls = [c \in Callers |-> NoCall]
  /\ over = {}
  /\ standing = [c \in Callers |-> {}]

\* What holds at this moment of the credential of c and of its owner.
Facts(c) ==
  LET u == calls[c].owner IN
    {f \in {"key", "active", "admin"} :
       \/ f = "key" /\ calls[c].by \notin over
       \/ f = "active" /\ accounts[u].is = "active"
       \/ f = "admin" /\ accounts[u].admin}

Observe ==
  standing' = [c \in Callers |-> IF calls'[c].at = "idle" THEN {}
                                 ELSE standing[c] \cup Facts(c)']

-----------------------------------------------------------------------------
(* resolveIdentity and the wrappers of the handlers.                       *)

\* The response is written: refused, failed or done.
Respond(c) == calls' = [calls EXCEPT ![c] = NoCall]

\* GetAPIKeyByHash finds a key that is neither revoked nor expired.
CallWithKey(c, k) ==
  /\ calls[c].at = "idle"
  /\ apiKeys[k].is = "live" /\ ~apiKeys[k].expired
  /\ calls' = [calls EXCEPT ![c] = [NoCall EXCEPT !.at = "owner", !.by = k,
                                      !.owner = apiKeys[k].owner, !.key = apiKeys[k]]]
  /\ UNCHANGED <<apiKeys, accounts, over>>

\* GetSession: a session is only there while the account is.
CallWithSession(c, u) ==
  /\ calls[c].at = "idle"
  /\ accounts[u].is # "deleted"
  /\ calls' = [calls EXCEPT ![c] = [NoCall EXCEPT !.at = "owner", !.owner = u]]
  /\ UNCHANGED <<apiKeys, accounts, over>>

\* GetUserByID, and IsActive.
ReadOwner(c) ==
  /\ calls[c].at = "owner"
  /\ LET u == accounts[calls[c].owner] IN
       IF u.is = "active"
         THEN calls' = [calls EXCEPT ![c].user = u,
                          ![c].at = IF calls[c].by = Session THEN "enter" ELSE "touch"]
         ELSE Respond(c)
  /\ UNCHANGED <<apiKeys, accounts, over>>

\* A mutant: the row is written as it was read.
NoteUse_WholeRow(k, read) == apiKeys' = [apiKeys EXCEPT ![k] = [read EXCEPT !.used = TRUE]]

\* An UPDATE of one column.
NoteUse(k, read) == apiKeys' = [apiKeys EXCEPT ![k].used = TRUE]

\* TouchAPIKey, at most once a minute; its errors are ignored.
TouchAPIKey(c) ==
  /\ calls[c].at = "touch"
  /\ \/ apiKeys[calls[c].by].is # "gone" /\ NoteUse(calls[c].by, calls[c].key)
     \/ UNCHANGED apiKeys
  /\ calls' = [calls EXCEPT ![c].at = "enter"]
  /\ UNCHANGED <<accounts, over>>

HasScope(scope, want) == scope \in {want, "admin:*"}

\* requireScope, requireAdmin, requireSession: none of them reads anything, and
\* no handler looks at the key again.
Admits(c, to) ==
  \/ to = "links" /\ (calls[c].by = Session \/ HasScope(calls[c].key.scope, "links:write"))
  \/ to = "admin" /\ calls[c].user.admin
                  /\ (calls[c].by = Session \/ HasScope(calls[c].key.scope, "admin:*"))
  \/ to = "keys" /\ calls[c].by = Session

PassWrapper(c, to) ==
  /\ calls[c].at = "enter"
  /\ Admits(c, to)
  /\ calls' = [calls EXCEPT ![c] = [@ EXCEPT !.at = to, !.key = Unmade]]
  /\ UNCHANGED <<apiKeys, accounts, over>>

\* The wrapper refuses, the handler is done, a statement fails.
CallEnds(c) ==
  /\ calls[c].at # "idle"
  /\ Respond(c)
  /\ UNCHANGED <<apiKeys, accounts, over>>

-----------------------------------------------------------------------------
(* The handlers of keys, the clock, and what becomes of accounts.          *)

\* handleCreateAPIKey: the right to give the scope of administrators is that
\* of the row the middleware read; the owner is a foreign key.
CreateAPIKey(c, k, scope) ==
  /\ calls[c].at = "keys"
  /\ scope = "admin:*" => calls[c].user.admin
  /\ apiKeys[k] = Unmade
  /\ accounts[calls[c].owner].is # "deleted"
  /\ apiKeys' = [apiKeys EXCEPT ![k] =
                   [@ EXCEPT !.is = "live", !.scope = scope, !.owner = calls[c].owner]]
  /\ Respond(c)
  /\ UNCHANGED <<accounts, over>>

\* handleDeleteAPIKey looks at the key ...
FindAPIKey(c, k) ==
  /\ calls[c].at = "keys"
  /\ apiKeys[k].is \in {"live", "revoked"} /\ apiKeys[k].owner = calls[c].owner
  /\ calls' = [calls EXCEPT ![c].at = "revoke", ![c].about = k]
  /\ UNCHANGED <<apiKeys, accounts, over>>

\* ... and revokes it, unless it went with the account meanwhile.
RevokeAPIKey(c) ==
  /\ calls[c].at = "revoke"
  /\ LET k == calls[c].about IN
       /\ apiKeys' = IF apiKeys[k].is = "gone" THEN apiKeys
                     ELSE [apiKeys EXCEPT ![k].is = "revoked"]
       /\ over' = over \cup {k}
  /\ Respond(c)
  /\ UNCHANGED accounts

\* The time of a key is over.
Expire(k) ==
  /\ apiKeys[k].is = "live" /\ ~apiKeys[k].expired
  /\ apiKeys' = [apiKeys EXCEPT ![k].expired = TRUE]
  /\ over' = over \cup {k}
  /\ UNCHANGED <<accounts, calls>>

\* An administrator edits status and role (Accounts); keys are not touched.
EditAccount(u) ==
  /\ accounts[u].is # "deleted"
  /\ \E row \in [is : {"active", "disabled"}, admin : BOOLEAN] \ {accounts[u]} :
       accounts' = [accounts EXCEPT ![u] = row]
  /\ UNCHANGED <<apiKeys, calls, over>>

\* ON DELETE CASCADE.
DeleteAccount(u) ==
  /\ accounts[u].is # "deleted"
  /\ accounts' = [accounts EXCEPT ![u] = Nobodys]
  /\ apiKeys' = [k \in ApiKeys |-> IF apiKeys[k].owner = u
                                   THEN [apiKeys[k] EXCEPT !.is = "gone"] ELSE apiKeys[k]]
  /\ over' = over \cup {k \in ApiKeys : apiKeys[k].owner = u}
  /\ UNCHANGED calls

CredentialsStep ==
  \/ \E c \in Callers :
       \/ ReadOwner(c) \/ TouchAPIKey(c) \/ CallEnds(c) \/ RevokeAPIKey(c)
       \/ \E u \in Owners : CallWithSession(c, u)
       \/ \E to \in {"links", "admin", "keys"} : PassWrapper(c, to)
       \/ \E k \in ApiKeys :
            \/ CallWithKey(c, k) \/ FindAPIKey(c, k)
            \/ \E scope \in Scopes : CreateAPIKey(c, k, scope)
  \/ \E k \in ApiKeys : Expire(k)
  \/ \E u \in Owners : EditAccount(u) \/ DeleteAccount(u)

CredentialsNext == CredentialsStep /\ Observe

CredentialsSpec == CredentialsInit /\ [][CredentialsNext]_credentialsVars

-----------------------------------------------------------------------------
\* A request that gets past its wrapper has a credential that was good, and
\* an owner who was active, at some moment since it began, and one that
\* reaches a handler of administrators an owner who was one: a request that
\* begins after a key was revoked or expired, or after its owner was disabled,
\* demoted or deleted, has nothing of it, whatever older requests with the
\* same key still write (resolveIdentity, TouchAPIKey, RevokeAPIKey).
AuthorityIsCurrent ==
  \A c \in Callers :
    /\ calls[c].at \in {"links", "admin", "keys", "revoke"}
         => {"key", "active"} \subseteq standing[c]
    /\ calls[c].at = "admin" => "admin" \in standing[c]

=============================================================================
