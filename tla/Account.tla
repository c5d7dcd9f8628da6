------------------------------ MODULE Account ------------------------------
(***************************************************************************)
(* The login family: the requests DaemonHandler dispatches through the     *)
(* AuthProvider cell (apps/daemon/src/lib.rs, services.rs) and the adapter *)
(* that answers them (crates/api/src/auth.rs).  Every adapter call holds   *)
(* the state mutex across its wire exchange; login_status reads the store  *)
(* without it.  Muon, the engine behind the adapter, is external: it holds *)
(* one auth per session key and answers each exchange as it likes.         *)
(***************************************************************************)
EXTENDS Integers, FiniteSets

CONSTANTS Peers,       \* the IPC sessions with a request in flight
          MaxLogins,   \* logins and imports Muon completes, in part or whole
          MaxDrops     \* times Muon loses a session by itself

VARIABLES cell,        \* AuthProvider: is an adapter installed?
          auth,        \* the auth Muon's store holds for the session key
          pending,     \* AuthState::pending, a set of at most one challenge
          forks,       \* AuthState::fork_scrub_guards, counted
          lock,        \* AuthState's mutex: the peers that hold it
          calls,       \* the request each peer has in flight
          credentials, \* CredentialStore: the short names with a value
          logins, drops

vars == <<cell, auth, pending, forks, lock, calls, credentials, logins, drops>>

Shapes == {"None", "Anonymous", "Access", "Refresh", "External"}

\* A stored auth: its token shape, the login that minted it, and whether the
\* second factor is still missing (Muon's scopes, which no code here reads).
Auth(shape, of, partial) == [shape |-> shape, of |-> of, partial |-> partial]

NoAuth == Auth("None", 0, FALSE)

Internal == {"Access", "Refresh"}

status_of(a) ==
    CASE a.shape = "Access"  -> "LoggedIn"
      [] a.shape = "Refresh" -> "NeedsRefresh"
      [] OTHER               -> "LoggedOut"

\* The identity an observed auth carries: none unless it is internal.
info_of(a) == IF a.shape \in Internal THEN {a.of} ELSE {}

\* A challenge is the second-factor arms a client can answer.  A FIDO2
\* response without its authentication options offers none.
challenge_from(totp, fido) ==
    (IF totp THEN {"totp"} ELSE {}) \cup (IF fido = "options" THEN {"fido2"} ELSE {})

INTERACTIVE_CREDENTIAL_NAMES == {"session", "username", "password"}

Codes == {"totp", "recovery"}

is_totp_shape(code) == code = "totp"

Requests == {"BeginLogin", "SubmitTwoFactor", "SubmitFidoPayload",
             "RefreshSession", "Logout", "fork", "import_fork"}

\* A call: the request, how far it is, the logins there had been when its
\* guard read the status (`saw`), what it answered and, for a finished login,
\* the identity it reported.
Call(request, at, saw, answer, info) ==
    [request |-> request, at |-> at, saw |-> saw, answer |-> answer, info |-> info]

Idle == Call("none", "idle", 0, "none", {})

Init ==
    /\ cell = FALSE /\ auth = NoAuth /\ pending = {} /\ forks = 0
    /\ lock = {} /\ calls = [p \in Peers |-> Idle] /\ credentials = {}
    /\ logins = 0 /\ drops = 0

api_error_to_rpc(error) ==
    CASE error = "BlockedUpstream"      -> "UpstreamCapabilityBlocked"
      [] error = "UnsupportedChallenge" -> "UnsupportedChallenge"
      [] error = "InvalidState"         -> "InvalidParams"
      [] error = "RateLimited"          -> "RateLimited"
      [] error = "Transport"            -> "NetworkUnavailable"

Move(p, at) == calls' = [calls EXCEPT ![p].at = at]

Answer(p, answer, info) ==
    calls' = [calls EXCEPT ![p].at = "answered", ![p].answer = answer, ![p].info = info]

Refuse(p, error) == Answer(p, api_error_to_rpc(error), {})

Release(p) == lock' = lock \ {p}

\* MuonAuth::build over a preloaded store, then AuthProvider::install: a
\* stored internal or external auth is resumed, and a stored session that has
\* vanished leaves the cell empty.
build ==
    /\ ~cell
    /\ \E shape \in Shapes \ {"Anonymous"}, found \in BOOLEAN :
          LET resumes == shape \in Internal \cup {"External"}
          IN  /\ auth' = Auth(shape, 0, FALSE)
              /\ cell' = (~resumes \/ found)
    /\ pending' = {} /\ forks' = 0
    /\ UNCHANGED <<lock, calls, credentials, logins, drops>>

\* A peer's request reaches the handler.  with_auth refuses an empty cell.
with_auth(p) ==
    /\ calls[p].at \in {"idle", "answered"}
    /\ \E r \in Requests :
          calls' = [calls EXCEPT ![p] =
                      IF cell THEN Call(r, "called", 0, "none", {})
                              ELSE Call(r, "answered", 0, "NotImplemented", {})]
    /\ UNCHANGED <<cell, auth, pending, forks, lock, credentials, logins, drops>>

\* begin_login_guarded: the login status is read before the adapter's mutex
\* is taken, and only a logged-out account lets the credentials go on.
begin_login_guarded(p) ==
    /\ calls[p].request = "BeginLogin" /\ calls[p].at = "called"
    /\ IF status_of(auth) = "LoggedOut"
         THEN calls' = [calls EXCEPT ![p].at = "guarded", ![p].saw = logins]
         ELSE Refuse(p, "InvalidState")
    /\ UNCHANGED <<cell, auth, pending, forks, lock, credentials, logins, drops>>

\* begin_login takes the mutex and the credentials cross the wire.
begin_login(p) ==
    /\ calls[p].request = "BeginLogin" /\ calls[p].at = "guarded" /\ lock = {}
    /\ lock' = {p} /\ Move(p, "wire")
    /\ UNCHANGED <<cell, auth, pending, forks, credentials, logins, drops>>

NewLogin == logins < MaxLogins /\ logins' = logins + 1

\* LoginFlow::Ok: the session is complete and no challenge stays behind.
login_ok(p) ==
    /\ calls[p].request = "BeginLogin" /\ calls[p].at = "wire" /\ NewLogin
    /\ auth' = Auth("Access", logins', FALSE)
    /\ pending' = {} /\ Answer(p, "Session", {logins'}) /\ Release(p)
    /\ UNCHANGED <<cell, forks, credentials, drops>>

PendingOf_KeepsOld(of, arms) == IF arms = {} THEN pending ELSE {[of |-> of, arms |-> arms]}

\* The challenge a two-factor answer leaves pending: none when it offers no
\* arm a client can submit.
PendingOf(of, arms) == IF arms = {} THEN {} ELSE {[of |-> of, arms |-> arms]}

\* LoginFlow::TwoFactor: Muon parks the partial auth in its store.
login_two_factor(p) ==
    /\ calls[p].request = "BeginLogin" /\ calls[p].at = "wire" /\ NewLogin
    /\ \E totp \in BOOLEAN, fido \in {"absent", "bare", "options"}, shape \in Internal :
          LET arms == challenge_from(totp, fido)
          IN  /\ auth' = Auth(shape, logins', TRUE)
              /\ pending' = PendingOf(logins', arms)
              /\ Answer(p, IF arms = {} THEN "Blocked" ELSE "Challenge", {})
    /\ Release(p)
    /\ UNCHANGED <<cell, forks, credentials, drops>>

\* LoginFlow::Failed: an earlier challenge, if there is one, stays pending.
\* Muon's first exchange may have minted an anonymous session.
login_failed(p) ==
    /\ calls[p].request = "BeginLogin" /\ calls[p].at = "wire"
    /\ auth' = IF auth.shape = "None" THEN Auth("Anonymous", 0, FALSE) ELSE auth
    /\ Refuse(p, "Transport") /\ Release(p)
    /\ UNCHANGED <<cell, pending, forks, credentials, logins, drops>>

Arm(request) == IF request = "SubmitTwoFactor" THEN "totp" ELSE "fido2"

Submits == {"SubmitTwoFactor", "SubmitFidoPayload"}

\* What submit_two_factor and submit_fido_payload refuse before the wire: a
\* code of another shape, no challenge, and an arm the challenge lacks.
SubmitRefusal(request, code) ==
    IF request = "SubmitTwoFactor" /\ ~is_totp_shape(code) THEN {"UnsupportedChallenge"}
    ELSE IF pending = {} THEN {"InvalidState"}
    ELSE IF \E c \in pending : Arm(request) \notin c.arms THEN {"UnsupportedChallenge"}
    ELSE {}

submit(p) ==
    /\ calls[p].request \in Submits /\ calls[p].at = "called" /\ lock = {}
    /\ \E code \in Codes :
          LET refusal == SubmitRefusal(calls[p].request, code)
          IN  IF refusal = {}
                THEN lock' = {p} /\ Move(p, "wire")
                ELSE lock' = lock /\ \E error \in refusal : Refuse(p, error)
    /\ UNCHANGED <<cell, auth, pending, forks, credentials, logins, drops>>

\* The answer to a second factor.  Muon completes only a session whose partial
\* auth it still holds; any failure restores the challenge for another try.
submitted(p) ==
    /\ calls[p].request \in Submits /\ calls[p].at = "wire"
    /\ \/ /\ auth.partial
          /\ auth' = Auth("Access", auth.of, FALSE)
          /\ pending' = {} /\ Answer(p, "Session", {c.of : c \in pending})
       \/ UNCHANGED <<auth, pending>> /\ Refuse(p, "Transport")
    /\ Release(p)
    /\ UNCHANGED <<cell, forks, credentials, logins, drops>>

\* refresh drops the pending challenge before it tries the wire.
refresh(p) ==
    /\ calls[p].request = "RefreshSession" /\ calls[p].at = "called" /\ lock = {}
    /\ pending' = {} /\ lock' = {p} /\ Move(p, "wire")
    /\ UNCHANGED <<cell, auth, forks, credentials, logins, drops>>

refreshed(p) ==
    /\ calls[p].request = "RefreshSession" /\ calls[p].at = "wire"
    /\ \/ /\ auth.shape \in Internal
          /\ auth' = [auth EXCEPT !.shape = "Access"] /\ Move(p, "observe")
       \/ auth' = auth /\ Refuse(p, "Transport")
    /\ Release(p)
    /\ UNCHANGED <<cell, pending, forks, credentials, logins, drops>>

\* The status refresh reports is observed after the mutex is dropped.
refresh_observes(p) ==
    /\ calls[p].request = "RefreshSession" /\ calls[p].at = "observe"
    /\ Answer(p, status_of(auth), {})
    /\ UNCHANGED <<cell, auth, pending, forks, lock, credentials, logins, drops>>

\* Muon's logout cannot fail: the local auth goes whatever the server says.
logout(p) ==
    /\ calls[p].request = "Logout" /\ calls[p].at = "called" /\ lock = {}
    /\ auth' = NoAuth /\ pending' = {} /\ Answer(p, "Acknowledged", {})
    /\ UNCHANGED <<cell, forks, lock, credentials, logins, drops>>

\* fork mints a selector from a live session and keeps its scrub guard.
fork(p) ==
    /\ calls[p].request = "fork" /\ calls[p].at = "called" /\ lock = {}
    /\ IF status_of(auth) = "LoggedOut"
         THEN Refuse(p, "InvalidState") /\ UNCHANGED forks
         ELSE \/ Answer(p, "Selector", {}) /\ forks' = IF forks = MaxLogins THEN forks ELSE forks + 1
              \/ Refuse(p, "Transport") /\ UNCHANGED forks
    /\ UNCHANGED <<cell, auth, pending, lock, credentials, logins, drops>>

\* import_fork adopts a selector, never over a stored session.
import_fork(p) ==
    /\ calls[p].request = "import_fork" /\ calls[p].at = "called" /\ lock = {}
    /\ IF auth.shape \in Internal \cup {"External"}
         THEN Refuse(p, "InvalidState") /\ lock' = lock
         ELSE Move(p, "wire") /\ lock' = {p}
    /\ UNCHANGED <<cell, auth, pending, forks, credentials, logins, drops>>

imported(p) ==
    /\ calls[p].request = "import_fork" /\ calls[p].at = "wire"
    /\ \/ /\ NewLogin
          /\ \E shape \in {"Access", "External"} : auth' = Auth(shape, logins', FALSE)
          /\ pending' = {}
          /\ IF info_of(auth') = {} THEN Refuse(p, "Transport")
                                    ELSE Answer(p, "Session", info_of(auth'))
       \/ UNCHANGED <<auth, pending, logins>> /\ Refuse(p, "Transport")
    /\ Release(p)
    /\ UNCHANGED <<cell, forks, credentials, drops>>

\* SubmitCredential: the store takes the documented short names only, and the
\* newest value wins.
submit_credential(name) ==
    /\ credentials' = IF name \in INTERACTIVE_CREDENTIAL_NAMES
                        THEN credentials \cup {name} ELSE credentials
    /\ UNCHANGED <<cell, auth, pending, forks, lock, calls, logins, drops>>

\* External: another Muon call finds the tokens refused, and the store loses
\* the access token or the whole session under the adapter.
Drop ==
    /\ auth.shape \in Internal /\ drops < MaxDrops /\ drops' = drops + 1
    /\ \/ auth' = NoAuth
       \/ auth.shape = "Access" /\ auth' = [auth EXCEPT !.shape = "Refresh"]
    /\ UNCHANGED <<cell, pending, forks, lock, calls, credentials, logins>>

Next ==
    \/ build
    \/ \E p \in Peers :
          \/ with_auth(p) \/ begin_login_guarded(p) \/ begin_login(p)
          \/ login_ok(p) \/ login_two_factor(p) \/ login_failed(p)
          \/ submit(p) \/ submitted(p)
          \/ refresh(p) \/ refreshed(p) \/ refresh_observes(p)
          \/ logout(p) \/ fork(p) \/ import_fork(p) \/ imported(p)
    \/ \E name \in {"session", "other"} : submit_credential(name)
    \/ Drop

Spec == Init /\ [][Next]_vars

TypeOK ==
    /\ cell \in BOOLEAN /\ forks \in 0..MaxLogins /\ lock \subseteq Peers
    /\ auth.shape \in Shapes /\ auth.of \in 0..MaxLogins
    /\ Cardinality(pending) <= 1 /\ credentials \subseteq INTERACTIVE_CREDENTIAL_NAMES
    /\ Cardinality(lock) <= 1

\* A login that is completed by its second factor reports the identity of the
\* session Muon stores: the challenge that was answered is the one the stored
\* partial auth came with, however logins, failures, refreshes and lost
\* sessions of several peers came between (auth.rs keeps `pending` apart from
\* the store).
SecondFactorCompletesItsOwnLogin ==
    \A p \in Peers :
          (calls[p].request \in Submits /\ calls[p].at = "wire"
             /\ calls'[p].answer = "Session" /\ calls'[p].at = "answered")
          => calls'[p].info = {auth'.of}

\* Credentials cross the wire over a stored session only when that session is
\* newer than the guard's read: a login or an import of another peer was
\* completed in the window between the read and the adapter's mutex
\* (begin_login_guarded, "refuses every non-logged-out state").
LoginWasGuarded ==
    \A p \in Peers :
        (calls[p].request = "BeginLogin" /\ calls[p].at = "wire" /\ auth.shape \in Internal)
        => auth.of > calls[p].saw
=============================================================================
