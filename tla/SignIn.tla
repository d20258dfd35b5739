------------------------------- MODULE SignIn -------------------------------
(***************************************************************************)
(* Signing in to the panel: accounts with a second factor (TOTP), sessions *)
(* that expire and are revoked, and the lockout after failed attempts.     *)
(* Handlers run one at a time on the event loop; between the look at a     *)
(* session in the middleware, the second one in a dependency (a thread)    *)
(* and the handler, others run.                                            *)
(*                                                                         *)
(* A password or a code is right or wrong.  The key that signs sessions is *)
(* made once and never changes, so it is left out.                         *)
(***************************************************************************)
EXTENDS Integers, FiniteSets, Sequences

CONSTANTS
    Users, Ips, NoUser,
    RoleOf,           \* role of an account written into the file by hand, or
                      \* NoUser: there is none of that name
    Installed,        \* what the panel may start with: administrator of the
                      \* environment and of the file, local bypass
    TokenTtl, ChallengeTtl, Window, LockTime, MaxFails,
    MaxTime,          \* bound: the clock
    MaxTokens,        \* bound: sessions given out
    MaxSecrets,       \* bound: secrets made for a second factor
    MaxMisses,        \* bound: failed attempts of one key
    MaxRequests       \* bound: requests in flight

Roles == {"admin", "moderator"}

ASSUME SignInAssumption ==
    /\ NoUser \notin Users \cup Roles
    /\ RoleOf \in [Users -> Roles \cup {NoUser}]
    /\ Installed \subseteq [env : Users \cup {NoUser}, admin : Users \cup {NoUser},
                             bypass : BOOLEAN]
    /\ TokenTtl \in Nat \ {0} /\ ChallengeTtl \in Nat \ {0}
    /\ Window \in Nat \ {0} /\ MaxFails \in Nat \ {0}
    /\ LockTime \in Nat /\ LockTime >= Window
    /\ MaxTime \in Nat /\ MaxTokens \in Nat /\ MaxSecrets \in Nat
    /\ MaxMisses \in Nat /\ MaxRequests \in Nat

VARIABLES
    now,
    env, bypass,      \* the administrator of the environment; local bypass
    auth,             \* auth.json: its administrator, version of all sessions,
                      \* secrets (0: none), the secret waiting for its first code
    rate,             \* login_rate.json: per key, failures kept and a lock
    revoked,          \* revoked_jti.json
    tokens, challenges,
    requests,         \* in flight: what, whose session, seen by the dependency
    \* history: per key, the times of all failures since the last success;
    \* sessions that logged out, and that were there when all were ended; who
    \* each secret was made for
    misses, loggedOut, dismissed, madeFor

config == <<env, bypass>>
ended == <<loggedOut, dismissed>>
history == <<misses, ended, madeFor>>
vars == <<now, config, auth, rate, revoked, tokens, challenges, requests, history>>

Keys == Ips \X Users

Token == [id : Nat \ {0}, user : Users \cup {NoUser}, role : Roles, local : BOOLEAN,
          ver : Nat, exp : Nat]
Challenge == [user : Users, role : Roles, exp : Nat]
Pending == [user : Users \cup {NoUser}, secret : Nat]
AuthFile == [admin : Users \cup {NoUser}, ver : Nat, totp : [Users -> Nat],
             pending : Pending]
Ops == {"logout-all", "totp/setup", "totp/enable", "totp/disable", "write"}
Request == [op : Ops, token : Token, checked : BOOLEAN]

NoPending == [user |-> NoUser, secret |-> 0]
NoRate == [fails |-> {}, until |-> 0]

Init ==
    /\ now = 0
    /\ \E i \in Installed :
          /\ env = i.env /\ bypass = i.bypass
          /\ auth = [admin |-> i.admin, ver |-> 0, totp |-> [u \in Users |-> 0],
                     pending |-> NoPending]
    /\ rate = [k \in Keys |-> NoRate]
    /\ revoked = {} /\ tokens = {} /\ challenges = {} /\ requests = {}
    /\ misses = [k \in Keys |-> <<>>] /\ loggedOut = {} /\ dismissed = {} /\ madeFor = <<>>
-----------------------------------------------------------------------------
(* Accounts. *)

\* _primary_credentials: the environment comes before the file.
Primary == IF env # NoUser THEN env ELSE auth.admin

Extra == {u \in Users : RoleOf[u] # NoUser}

NeedsSetup == ~ bypass /\ Primary = NoUser

\* _match_user: the name is an account, and the password is right.
Account(u) == u = Primary \/ u \in Extra
AccountRoles(u) ==
    {role \in Roles : (u = Primary /\ role = "admin") \/ (u \in Extra /\ role = RoleOf[u])}

\* totp_secret_for knows the administrator of the file and the extra accounts.
Filed(u) == u = auth.admin \/ u \in Extra
SecretOf(u) == IF u \in Users /\ Filed(u) THEN auth.totp[u] ELSE 0

\* set_totp_secret writes an administrator of the environment into the file.
Overlaid(u) == auth.admin = NoUser /\ env # NoUser /\ u = env
Settable(u) == Filed(u) \/ Overlaid(u)
WithSecret(u, secret) ==
    [auth EXCEPT !.totp[u] = secret, !.admin = IF Overlaid(u) THEN u ELSE @]

\* A second factor: no secret, or a code that is right.
CodeRight(u, code) == SecretOf(u) = 0 \/ code
-----------------------------------------------------------------------------
(* The lockout. *)

Kept(k) == {i \in rate[k].fails : now - misses[k][i] < Window}
Locked(k) == rate[k].until > now

\* Rows without a lock and without a failure in the window are pruned.
Pruned(rows) ==
    [k \in Keys |-> IF rows[k].until > now \/ rows[k].fails # {}
                    THEN rows[k] ELSE NoRate]

\* Mutant: a failure leaves the older ones as they were counted.
RecordNoLock(k) ==
    /\ Len(misses[k]) < MaxMisses
    /\ misses' = [misses EXCEPT ![k] = Append(@, now)]
    /\ rate' = [rate EXCEPT ![k].fails = {Len(misses[k]) + 1}]

RecordFailure(k) ==
    LET fails == Kept(k) \cup {Len(misses[k]) + 1}
        row == IF Cardinality(fails) >= MaxFails
               THEN [fails |-> {}, until |-> now + LockTime]
               ELSE [fails |-> fails, until |-> rate[k].until]
    IN /\ Len(misses[k]) < MaxMisses
       /\ misses' = [misses EXCEPT ![k] = Append(@, now)]
       /\ rate' = Pruned([j \in Keys |->
                             IF j = k THEN row ELSE [rate[j] EXCEPT !.fails = Kept(j)]])

\* Mutant: the failures stay in the file.
RecordSuccessKeeps(k) ==
    /\ misses' = [misses EXCEPT ![k] = <<>>]
    /\ UNCHANGED rate

RecordSuccess(k) ==
    /\ rate' = [rate EXCEPT ![k] = NoRate]
    /\ misses' = [misses EXCEPT ![k] = <<>>]
-----------------------------------------------------------------------------
(* Sessions. *)

NewToken(u, role, local) ==
    [id |-> Cardinality(tokens) + 1, user |-> u, role |-> role, local |-> local,
     ver |-> auth.ver, exp |-> now + TokenTtl]

GiveSession(u, role, local) ==
    /\ Cardinality(tokens) < MaxTokens
    /\ tokens' = tokens \cup {NewToken(u, role, local)}

IsRevoked(t) == \E r \in revoked : r.id = t.id /\ r.exp >= now

\* Local sessions have no version.
Valid(t) ==
    /\ now < t.exp
    /\ ~ IsRevoked(t)
    /\ t.ver = auth.ver \/ t.local

\* Mutant: the older entries are dropped.
RevokeLast(t) == revoked' = {[id |-> t.id, exp |-> t.exp]}

\* Entries of sessions that have expired are dropped.
RevokeJti(t) ==
    revoked' = {r \in revoked \cup {[id |-> t.id, exp |-> t.exp]} : r.exp > now}

\* bump_token_version, upon a file that was changed before.  All sessions are
\* meant, and those of the local bypass stay valid.
Bump(file) ==
    /\ auth' = [file EXCEPT !.ver = @ + 1]
    /\ dismissed' = dismissed \cup tokens
    /\ UNCHANGED loggedOut

\* Of another address than the machine's own a local session is worth nothing.
Authenticated(t, loopback) == Valid(t) /\ (t.local => bypass /\ loopback)
-----------------------------------------------------------------------------
(* Requests without a session. *)

Setup(u) ==
    /\ NeedsSetup
    /\ auth' = [auth EXCEPT !.admin = u]
    /\ GiveSession(u, "admin", FALSE)
    /\ UNCHANGED <<now, config, rate, revoked, challenges, requests, history>>

\* authenticate_user: the lock first, then the account and its password.
LoginRefused(ip, u, right) ==
    /\ ~ Locked(<<ip, u>>)
    /\ ~ (Account(u) /\ right)
    /\ RecordFailure(<<ip, u>>)
    /\ UNCHANGED <<now, config, auth, revoked, tokens, challenges, requests, ended,
                   madeFor>>

LoginChallenged(ip, u) ==
    /\ ~ Locked(<<ip, u>>) /\ Account(u) /\ SecretOf(u) # 0
    /\ RecordSuccess(<<ip, u>>)
    /\ \E role \in AccountRoles(u) :
          challenges' = challenges \cup {[user |-> u, role |-> role,
                                          exp |-> now + ChallengeTtl]}
    /\ UNCHANGED <<now, config, auth, revoked, tokens, requests, ended, madeFor>>

Login(ip, u) ==
    /\ ~ Locked(<<ip, u>>) /\ Account(u) /\ SecretOf(u) = 0
    /\ RecordSuccess(<<ip, u>>)
    /\ \E role \in AccountRoles(u) : GiveSession(u, role, FALSE)
    /\ UNCHANGED <<now, config, auth, revoked, challenges, requests, ended, madeFor>>

LoginTotp(c) ==
    /\ now < c.exp
    /\ SecretOf(c.user) # 0
    /\ GiveSession(c.user, c.role, FALSE)
    /\ UNCHANGED <<now, config, auth, rate, revoked, challenges, requests, history>>

LocalSession ==
    /\ bypass
    /\ GiveSession(NoUser, "admin", TRUE)
    /\ UNCHANGED <<now, config, auth, rate, revoked, challenges, requests, history>>

\* logout looks at the session itself and forgives one that is not valid.
Logout(t) ==
    /\ Valid(t)
    /\ RevokeJti(t)
    /\ loggedOut' = loggedOut \cup {t}
    /\ UNCHANGED <<now, config, auth, rate, tokens, challenges, requests, misses,
                   dismissed, madeFor>>
-----------------------------------------------------------------------------
(* Requests with a session. *)

\* Paths a moderator may not write to; paths that ask for the password again.
Forbidden(op) == op = "write"
NeedsStepUp(op) == op \in {"totp/disable", "write"}

StepUp(t, password, code) ==
    t.local \/ (Account(t.user) /\ password /\ CodeRight(t.user, code))

Admit(t, op, loopback, password, code) ==
    /\ Cardinality(requests) < MaxRequests
    /\ ~ NeedsSetup
    /\ Authenticated(t, loopback)
    /\ ~ (t.role = "moderator" /\ Forbidden(op))
    /\ NeedsStepUp(op) => StepUp(t, password, code)
    /\ requests' = requests \cup {[op |-> op, token |-> t, checked |-> FALSE]}
    /\ UNCHANGED <<now, config, auth, rate, revoked, tokens, challenges, history>>

\* Depends(get_current_user), or require_role, which takes the user it is given.
Dependency(r) ==
    /\ ~ r.checked
    /\ requests' = (requests \ {r}) \cup
                   (IF r.op = "write" \/ Valid(r.token)
                    THEN {[r EXCEPT !.checked = TRUE]} ELSE {})
    /\ UNCHANGED <<now, config, auth, rate, revoked, tokens, challenges, history>>

Handled(r, op) == r.op = op /\ r.checked /\ requests' = requests \ {r}

LogoutAll(r) ==
    /\ Handled(r, "logout-all")
    /\ r.token.role = "admin" \/ r.token.local
    /\ Bump(auth)
    /\ UNCHANGED <<now, config, rate, revoked, tokens, challenges, misses, madeFor>>

TotpSetup(r) ==
    /\ Handled(r, "totp/setup")
    /\ ~ r.token.local /\ Len(madeFor) < MaxSecrets
    /\ madeFor' = Append(madeFor, r.token.user)
    /\ auth' = [auth EXCEPT !.pending = [user |-> r.token.user,
                                         secret |-> Len(madeFor) + 1]]
    /\ UNCHANGED <<now, config, rate, revoked, tokens, challenges, misses, ended>>

\* Mutant: whoever asks gets the secret that is waiting.
ConfirmedByAny(t) == ~ t.local /\ auth.pending.user # NoUser

\* A local session has a name ("local") that no account and no secret has.
Confirmed(t) == ~ t.local /\ auth.pending.user = t.user

TotpEnable(r) ==
    /\ Handled(r, "totp/enable")
    /\ Confirmed(r.token) /\ Settable(r.token.user)
    /\ Bump([WithSecret(r.token.user, auth.pending.secret)
                EXCEPT !.pending = NoPending])
    /\ UNCHANGED <<now, config, rate, revoked, tokens, challenges, misses, madeFor>>

\* Only the first administrator's password is looked at.
TotpDisable(r) ==
    /\ Handled(r, "totp/disable")
    /\ ~ r.token.local /\ r.token.user = Primary /\ SecretOf(r.token.user) # 0
    /\ Bump(WithSecret(r.token.user, 0))
    /\ UNCHANGED <<now, config, rate, revoked, tokens, challenges, misses, madeFor>>

\* Refused by the handler, or a write that concerns another component.
Answered(r) ==
    /\ r.checked
    /\ requests' = requests \ {r}
    /\ UNCHANGED <<now, config, auth, rate, revoked, tokens, challenges, history>>

Tick ==
    /\ now < MaxTime
    /\ now' = now + 1
    /\ UNCHANGED <<config, auth, rate, revoked, tokens, challenges, requests, history>>
-----------------------------------------------------------------------------
Next ==
    \/ Tick
    \/ \E u \in Users :
          \/ Setup(u)
          \/ \E ip \in Ips :
                \/ \E right \in BOOLEAN : LoginRefused(ip, u, right)
                \/ LoginChallenged(ip, u) \/ Login(ip, u)
    \/ \E c \in challenges : LoginTotp(c)
    \/ LocalSession
    \/ \E t \in tokens :
          \/ Logout(t)
          \/ \E op \in Ops, loopback, password, code \in BOOLEAN :
                Admit(t, op, loopback, password, code)
    \/ \E r \in requests :
          \/ Dependency(r) \/ LogoutAll(r) \/ TotpSetup(r)
          \/ TotpEnable(r) \/ TotpDisable(r) \/ Answered(r)

Spec == Init /\ [][Next]_vars
-----------------------------------------------------------------------------
(* Properties. *)

(***************************************************************************)
(* Types; and sessions have different numbers, which is what revocation    *)
(* goes by.  A failure that is counted is one that happened.               *)
(***************************************************************************)
TypeOK ==
    /\ now \in Nat /\ env \in Users \cup {NoUser} /\ bypass \in BOOLEAN
    /\ auth \in AuthFile
    /\ rate \in [Keys -> [fails : SUBSET (Nat \ {0}), until : Nat]]
    /\ revoked \subseteq [id : Nat \ {0}, exp : Nat]
    /\ IsFiniteSet(tokens) /\ tokens \subseteq Token
    /\ challenges \subseteq Challenge
    /\ requests \subseteq Request
    /\ misses \in [Keys -> Seq(Nat)] /\ loggedOut \cup dismissed \subseteq tokens
    /\ madeFor \in Seq(Users)
    /\ \A t, s \in tokens : t.id = s.id => t = s
    /\ \A k \in Keys : rate[k].fails \subseteq 1..Len(misses[k])

(***************************************************************************)
(* Of MaxFails + 1 failures in a row of one address and account the last   *)
(* comes at least a window after the first, whatever other addresses do    *)
(* and however locks and pruning fall.                                     *)
(***************************************************************************)
NoBurst ==
    \A k \in Keys : \A i \in 1..Len(misses[k]) :
        i > MaxFails => misses[k][i] - misses[k][i - MaxFails] >= Window

(***************************************************************************)
(* A session that logged out is never valid again, though the list of      *)
(* revoked sessions is cut; nor is one that was there at a logout of all   *)
(* or at a change of the second factor.  Excepted there is a session of    *)
(* the local bypass, which has no version and outlives them (decode_token, *)
(* revoke_jti, bump_token_version).                                        *)
(***************************************************************************)
EndedStaysOut ==
    \A t \in loggedOut \cup dismissed : Valid(t) => t.local /\ t \notin loggedOut

(***************************************************************************)
(* The secret an account signs in with is one that was made for it, though *)
(* one slot holds the secret of whoever asked last.                        *)
(***************************************************************************)
SecretIsOwn == \A u \in Users : auth.totp[u] # 0 => madeFor[auth.totp[u]] = u
=============================================================================
