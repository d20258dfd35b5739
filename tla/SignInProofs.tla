---------------------------- MODULE SignInProofs ----------------------------
(***************************************************************************)
(* Theorems about signing in, for every set of accounts and addresses and  *)
(* every value of the times and bounds.  The invariant has three parts:    *)
(* sessions, secrets of the second factor, and failed attempts.            *)
(***************************************************************************)
EXTENDS SignIn, FiniteSetTheorems, SequenceTheorems, TLAPS

\* What keeps a session that was ended out: it has expired, is of an older
\* version, or is listed, with the time of its end, among those revoked.
Out(t) ==
    \/ now >= t.exp
    \/ ~ t.local /\ t.ver < auth.ver
    \/ [id |-> t.id, exp |-> t.exp] \in revoked

\* The sessions that are out for good.
Gone == loggedOut \cup {t \in dismissed : ~ t.local}

SessionsInv ==
    /\ now \in Nat /\ env \in Users \cup {NoUser} /\ bypass \in BOOLEAN
    /\ auth \in AuthFile
    /\ revoked \subseteq [id : Nat \ {0}, exp : Nat]
    /\ IsFiniteSet(tokens) /\ tokens \subseteq Token
    /\ challenges \subseteq Challenge
    /\ requests \subseteq Request
    /\ \A r \in requests : r.token \in tokens
    /\ \A t \in tokens : /\ t.id <= Cardinality(tokens)
                         /\ t.ver <= auth.ver
                         /\ ~ t.local => t.user \in Users
    /\ \A t, s \in tokens : t.id = s.id => t = s
    /\ loggedOut \cup dismissed \subseteq tokens
    /\ \A t \in Gone : Out(t)

SecretsInv ==
    /\ madeFor \in Seq(Users)
    /\ \A u \in Users : auth.totp[u] # 0 =>
          auth.totp[u] \in 1 .. Len(madeFor) /\ madeFor[auth.totp[u]] = u
    /\ auth.pending.user \in Users =>
          /\ auth.pending.secret \in 1 .. Len(madeFor)
          /\ madeFor[auth.pending.secret] = auth.pending.user

\* A failure that is not counted any more is older than the window, or the
\* lock that took its place lasts as long.
Counted(k, i) ==
    \/ i \in rate[k].fails
    \/ now - misses[k][i] >= Window
    \/ rate[k].until >= misses[k][i] + Window

KeyInv(k) ==
    /\ rate[k].fails \subseteq 1 .. Len(misses[k])
    /\ Cardinality(rate[k].fails) < MaxFails
    /\ \A i \in 1 .. Len(misses[k]) : misses[k][i] <= now /\ Counted(k, i)
    /\ \A i, j \in 1 .. Len(misses[k]) : i <= j => misses[k][i] <= misses[k][j]
    /\ \A i \in 1 .. Len(misses[k]) :
          i > MaxFails => misses[k][i] - misses[k][i - MaxFails] >= Window

Row == [fails : SUBSET (Nat \ {0}), until : Nat]

FailuresInv ==
    /\ now \in Nat
    /\ rate \in [Keys -> Row] /\ misses \in [Keys -> Seq(Nat)]
    /\ \A k \in Keys : KeyInv(k)
-----------------------------------------------------------------------------
(* Sessions. *)

LEMMA SessionsInitially == Init => SessionsInv
<1> SUFFICES ASSUME Init PROVE SessionsInv
    OBVIOUS
<1> PICK i \in Installed :
          /\ env = i.env /\ bypass = i.bypass
          /\ auth = [admin |-> i.admin, ver |-> 0, totp |-> [u \in Users |-> 0],
                     pending |-> NoPending]
    BY DEF Init
<1>1. /\ i.env \in Users \cup {NoUser} /\ i.admin \in Users \cup {NoUser}
      /\ i.bypass \in BOOLEAN
    BY SignInAssumption
<1>2. auth \in AuthFile
    BY <1>1 DEF AuthFile, Pending, NoPending
<1>3. IsFiniteSet(tokens) /\ tokens = {}
    BY FS_EmptySet DEF Init
<1>4. Gone = {} /\ loggedOut = {} /\ dismissed = {}
    BY DEF Init, Gone
<1> QED BY <1>1, <1>2, <1>3, <1>4 DEF Init, SessionsInv

\* A session more: the sessions that were ended stay as they are.
LEMMA Gives ==
    ASSUME SessionsInv, NEW u \in Users \cup {NoUser}, NEW role \in Roles, NEW local \in BOOLEAN,
           local \/ u \in Users, GiveSession(u, role, local),
           auth' \in AuthFile, auth'.ver = auth.ver, challenges' \subseteq Challenge,
           UNCHANGED <<now, config, revoked, requests, ended>>
    PROVE  SessionsInv'
<1> PICK n \in Nat : n = Cardinality(tokens) + 1
    BY FS_CardinalityType DEF SessionsInv
<1> PICK t : t = NewToken(u, role, local)
    OBVIOUS
<1>1. /\ t \in Token /\ t.id = n /\ t.user = u /\ t.local = local /\ t.ver = auth.ver
    <2>1. auth.ver \in Nat /\ now + TokenTtl \in Nat /\ n \in Nat \ {0}
        BY FS_CardinalityType, SignInAssumption DEF SessionsInv, AuthFile
    <2>2. t = [id |-> n, user |-> u, role |-> role, local |-> local, ver |-> auth.ver,
               exp |-> now + TokenTtl]
        BY DEF NewToken
    <2> QED BY <2>1, <2>2 DEF Token
<1>2. tokens' = tokens \cup {t}
    BY DEF GiveSession
<1>3. \A s \in tokens : s.id <= n - 1 /\ s.id \in Nat
    BY FS_CardinalityType DEF SessionsInv, Token
<1>4. IsFiniteSet(tokens') /\ Cardinality(tokens') = n
    <2>1. t \notin tokens
        BY <1>1, <1>3
    <2>2. IsFiniteSet(tokens)
        BY DEF SessionsInv
    <2>3. IsFiniteSet(tokens \cup {t}) /\ Cardinality(tokens \cup {t}) = Cardinality(tokens) + 1
        BY <2>1, <2>2, FS_AddElement
    <2> QED BY <1>2, <2>3
<1>5. \A s \in tokens' : s.id <= n /\ s.ver <= auth'.ver /\ (~ s.local => s.user \in Users)
    BY <1>1, <1>2, <1>3 DEF SessionsInv, AuthFile
<1>6. \A s, q \in tokens' : s.id = q.id => s = q
    BY <1>1, <1>2, <1>3 DEF SessionsInv
<1>7. /\ tokens' \subseteq Token /\ (loggedOut \cup dismissed)' \subseteq tokens'
      /\ \A r \in requests' : r.token \in tokens'
    BY <1>1, <1>2 DEF SessionsInv, ended
<1>8. \A s \in Gone' : Out(s)'
    BY DEF SessionsInv, Out, Gone, ended
<1> QED BY <1>4, <1>5, <1>6, <1>7, <1>8 DEF SessionsInv, config

\* All sessions with an account end.
LEMMA Bumps ==
    ASSUME SessionsInv, NEW file \in AuthFile, file.ver = auth.ver, Bump(file),
           requests' \subseteq requests, UNCHANGED <<now, config, revoked, tokens, challenges>>
    PROVE  SessionsInv'
<1>1. auth' \in AuthFile /\ auth'.ver = auth.ver + 1
    BY DEF Bump, AuthFile
<1>2. auth.ver \in Nat /\ \A t \in tokens : t.ver \in Nat /\ t.ver <= auth.ver /\ t.local \in BOOLEAN
    BY DEF SessionsInv, AuthFile, Token
<1>3. /\ loggedOut' \cup dismissed' \subseteq tokens
      /\ \A t \in Gone' : t \in Gone \/ (t \in tokens /\ ~ t.local)
    BY DEF Bump, SessionsInv, Gone
<1>4. \A t \in Gone' : Out(t)'
    <2>1. \A t \in Gone : Out(t)
        BY DEF SessionsInv
    <2>2. \A t \in tokens : t.ver < auth'.ver
        BY <1>1, <1>2
    <2>3. now' = now /\ revoked' = revoked
        OBVIOUS
    <2>4. Gone \subseteq tokens
        BY DEF Gone, SessionsInv
    <2>5. ASSUME NEW t \in Gone PROVE Out(t)'
        BY <2>1, <2>2, <2>3, <2>4 DEF Out
    <2>6. ASSUME NEW t \in tokens, ~ t.local PROVE Out(t)'
        BY <2>2, <2>6 DEF Out
    <2> QED BY <1>3, <2>5, <2>6
<1>5. /\ now' \in Nat /\ env' \in Users \cup {NoUser} /\ bypass' \in BOOLEAN
      /\ revoked' \subseteq [id : Nat \ {0}, exp : Nat]
      /\ IsFiniteSet(tokens') /\ tokens' \subseteq Token
      /\ challenges' \subseteq Challenge /\ requests' \subseteq Request
      /\ \A r \in requests' : r.token \in tokens'
      /\ \A t, s \in tokens' : t.id = s.id => t = s
      /\ (loggedOut \cup dismissed)' \subseteq tokens'
    BY <1>3 DEF SessionsInv, config
<1>6. tokens' = tokens
    OBVIOUS
<1>7. \A t \in tokens' : t.id <= Cardinality(tokens') /\ t.ver <= auth'.ver
                          /\ (~ t.local => t.user \in Users)
    <2>1. \A t \in tokens : t.ver <= auth'.ver
        BY <1>1, <1>2
    <2> QED BY <2>1, <1>6 DEF SessionsInv
<1> QED BY <1>1, <1>4, <1>5, <1>7 DEF SessionsInv

\* Requests come and go.
LEMMA Asks ==
    ASSUME SessionsInv, requests' \subseteq Request, \A r \in requests' : r.token \in tokens,
           challenges' \subseteq Challenge, auth' \in AuthFile, auth'.ver = auth.ver,
           UNCHANGED <<now, config, revoked, tokens, ended>>
    PROVE  SessionsInv'
<1>1. \A t \in Gone' : Out(t)'
    BY DEF SessionsInv, Out, Gone, ended
<1> QED BY <1>1 DEF SessionsInv, config, ended

LEMMA LogsOut == ASSUME SessionsInv, NEW t \in tokens, Logout(t) PROVE SessionsInv'
<1> PICK e \in [id : Nat \ {0}, exp : Nat] : e = [id |-> t.id, exp |-> t.exp]
    BY DEF SessionsInv, Token
<1>1. /\ revoked' = {r \in revoked \cup {e} : r.exp > now}
      /\ loggedOut' = loggedOut \cup {t} /\ dismissed' = dismissed
      /\ UNCHANGED <<now, config, auth, tokens, challenges, requests>>
    BY DEF Logout, RevokeJti
<1>2. now \in Nat /\ \A s \in tokens : s.exp \in Nat
    BY DEF SessionsInv, Token
<1>3. ASSUME NEW s \in Gone'
      PROVE  Out(s)'
    <2>1. s \in tokens
        BY <1>1 DEF SessionsInv, Gone
    <2>2. Out(s) \/ s = t
        BY <1>1 DEF SessionsInv, Gone
    <2>3. PICK x \in [id : Nat \ {0}, exp : Nat] : x = [id |-> s.id, exp |-> s.exp]
        BY <2>1 DEF SessionsInv, Token
    <2>4. x \in revoked \cup {e} => x \in revoked' \/ now >= s.exp
        BY <1>1, <1>2, <2>1, <2>3
    <2> QED BY <1>1, <2>2, <2>3, <2>4 DEF Out
<1>4. (loggedOut \cup dismissed)' \subseteq tokens' /\ revoked' \subseteq [id : Nat \ {0}, exp : Nat]
    BY <1>1 DEF SessionsInv
<1> QED BY <1>1, <1>3, <1>4 DEF SessionsInv, config

\* An account's file with another secret is one of the same version.
LEMMA Refiled ==
    ASSUME SessionsInv, NEW u \in Users, NEW secret \in Nat
    PROVE  /\ WithSecret(u, secret) \in AuthFile
           /\ WithSecret(u, secret).ver = auth.ver
           /\ WithSecret(u, secret).pending = auth.pending
           /\ WithSecret(u, secret).totp = [auth.totp EXCEPT ![u] = secret]
<1> PICK admin \in Users \cup {NoUser} : admin = IF Overlaid(u) THEN u ELSE auth.admin
    BY DEF SessionsInv, AuthFile
<1>1. WithSecret(u, secret) = [auth EXCEPT !.totp[u] = secret, !.admin = admin]
    BY DEF WithSecret, SessionsInv, AuthFile
<1>2. PICK totp \in [Users -> Nat] : totp = [auth.totp EXCEPT ![u] = secret]
    BY DEF SessionsInv, AuthFile
<1>3. PICK file \in AuthFile : file = [auth EXCEPT !.totp = totp, !.admin = admin]
    BY DEF SessionsInv, AuthFile
<1>4. file.ver = auth.ver /\ file.pending = auth.pending /\ file.totp = totp
    BY <1>3 DEF SessionsInv, AuthFile
<1>5. WithSecret(u, secret) = file
    BY <1>1, <1>2, <1>3 DEF SessionsInv, AuthFile
<1> QED BY <1>2, <1>4, <1>5

LEMMA SessionsStep == SessionsInv /\ SecretsInv /\ [Next]_vars => SessionsInv'
<1> SUFFICES ASSUME SessionsInv, SecretsInv, [Next]_vars PROVE SessionsInv'
    OBVIOUS
<1>0. /\ auth \in AuthFile /\ challenges \subseteq Challenge /\ requests \subseteq Request
      /\ \A r \in requests : r.token \in tokens
    BY DEF SessionsInv
<1>1. CASE Tick
    <2>1. now' \in Nat /\ now' = now + 1 /\ now \in Nat
        BY <1>1 DEF Tick, SessionsInv
    <2>2. UNCHANGED <<config, auth, revoked, tokens, challenges, requests, ended>>
        BY <1>1 DEF Tick, history
    <2>3. \A t \in Gone : t.exp \in Nat
        BY DEF SessionsInv, Token, Gone
    <2>4. \A t \in Gone' : Out(t)'
        <3>1. Gone' = Gone /\ \A t \in Gone : Out(t)
            BY <2>2 DEF SessionsInv, Gone, ended
        <3>2. \A t \in Gone : now >= t.exp => now' >= t.exp
            BY <2>1, <2>3
        <3> QED BY <2>2, <3>1, <3>2 DEF Out
    <2> QED BY <2>1, <2>2, <2>4 DEF SessionsInv, config, ended
<1>2. ASSUME NEW u \in Users, Setup(u)
      PROVE  SessionsInv'
    <2>1. auth' \in AuthFile /\ auth'.ver = auth.ver
        BY <1>0, <1>2 DEF Setup, AuthFile
    <2>2. /\ GiveSession(u, "admin", FALSE) /\ challenges' \subseteq Challenge
          /\ UNCHANGED <<now, config, revoked, requests, ended>>
        BY <1>0, <1>2 DEF Setup, history
    <2> QED BY <2>1, <2>2, Gives DEF Roles
<1>3. ASSUME NEW u \in Users, NEW ip \in Ips, NEW right \in BOOLEAN, LoginRefused(ip, u, right)
      PROVE  SessionsInv'
    BY <1>0, <1>3, Asks DEF LoginRefused
<1>4. ASSUME NEW u \in Users, NEW ip \in Ips, LoginChallenged(ip, u)
      PROVE  SessionsInv'
    <2> PICK role \in AccountRoles(u) :
            challenges' = challenges \cup {[user |-> u, role |-> role, exp |-> now + ChallengeTtl]}
        BY <1>4 DEF LoginChallenged
    <2>1. [user |-> u, role |-> role, exp |-> now + ChallengeTtl] \in Challenge
        BY SignInAssumption DEF AccountRoles, Challenge, SessionsInv
    <2>2. UNCHANGED <<now, config, auth, revoked, tokens, requests, ended>>
        BY <1>4 DEF LoginChallenged
    <2>3. challenges' \subseteq Challenge
        BY <1>0, <2>1
    <2> QED BY <1>0, <2>2, <2>3, Asks
<1>5. ASSUME NEW u \in Users, NEW ip \in Ips, Login(ip, u)
      PROVE  SessionsInv'
    <2> PICK role \in Roles : GiveSession(u, role, FALSE)
        BY <1>5 DEF Login, AccountRoles
    <2>1. UNCHANGED <<now, config, auth, revoked, challenges, requests, ended>>
        BY <1>5 DEF Login
    <2> QED BY <1>0, <2>1, Gives
<1>6. ASSUME NEW c \in challenges, LoginTotp(c)
      PROVE  SessionsInv'
    <2>1. c.user \in Users /\ c.role \in Roles
        BY <1>0 DEF Challenge
    <2>2. /\ GiveSession(c.user, c.role, FALSE)
          /\ UNCHANGED <<now, config, auth, revoked, challenges, requests, ended>>
        BY <1>6 DEF LoginTotp, history
    <2> QED BY <1>0, <2>1, <2>2, Gives
<1>7. CASE LocalSession
    <2>1. /\ GiveSession(NoUser, "admin", TRUE)
          /\ UNCHANGED <<now, config, auth, revoked, challenges, requests, ended>>
        BY <1>7 DEF LocalSession, history
    <2> QED BY <1>0, <2>1, Gives DEF Roles
<1>8. ASSUME NEW t \in tokens, NEW op \in Ops, NEW loopback \in BOOLEAN, NEW password \in BOOLEAN,
             NEW code \in BOOLEAN, Admit(t, op, loopback, password, code)
      PROVE  SessionsInv'
    <2> PICK q \in Request : q = [op |-> op, token |-> t, checked |-> FALSE]
        BY DEF Request, SessionsInv
    <2>1. q.token = t
        OBVIOUS
    <2>2. /\ requests' = requests \cup {q}
          /\ UNCHANGED <<now, config, auth, revoked, tokens, challenges, ended>>
        BY <1>8 DEF Admit, history
    <2>3. requests' \subseteq Request /\ \A r \in requests' : r.token \in tokens
        BY <1>0, <2>1, <2>2
    <2> QED BY <1>0, <2>2, <2>3, Asks
<1>9. ASSUME NEW r \in requests
      PROVE  /\ Dependency(r) => SessionsInv'
             /\ Answered(r) => SessionsInv'
             /\ LogoutAll(r) => SessionsInv'
             /\ TotpSetup(r) => SessionsInv'
             /\ TotpEnable(r) => SessionsInv'
             /\ TotpDisable(r) => SessionsInv'
    <2>0. /\ r \in Request /\ r.token \in tokens
          /\ ~ r.token.local => r.token.user \in Users
        BY <1>0 DEF SessionsInv
    <2>1. CASE Dependency(r)
        <3> PICK q \in Request : q = [r EXCEPT !.checked = TRUE]
            BY <2>0 DEF Request
        <3>1. q.token = r.token
            BY <2>0 DEF Request
        <3>2. /\ requests' \subseteq requests \cup {q}
              /\ UNCHANGED <<now, config, auth, revoked, tokens, challenges, ended>>
            BY <2>1 DEF Dependency, history
        <3> QED BY <1>0, <2>0, <3>1, <3>2, Asks
    <2>2. CASE Answered(r)
        BY <1>0, <2>2, Asks DEF Answered, history
    <2>3. CASE LogoutAll(r)
        BY <1>0, <2>3, Bumps DEF LogoutAll, Handled
    <2>4. CASE TotpSetup(r)
        <3>1. Len(madeFor) + 1 \in Nat
            BY LenProperties DEF SecretsInv
        <3> PICK p \in Pending : p = [user |-> r.token.user, secret |-> Len(madeFor) + 1]
            BY <2>0, <2>4, <3>1 DEF TotpSetup, Pending
        <3>2. auth' = [auth EXCEPT !.pending = p]
            BY <2>4 DEF TotpSetup
        <3>3. auth' \in AuthFile /\ auth'.ver = auth.ver
            BY <1>0, <3>2 DEF AuthFile
        <3>4. /\ requests' \subseteq requests
              /\ UNCHANGED <<now, config, revoked, tokens, challenges, ended>>
            BY <2>4 DEF TotpSetup, Handled
        <3> QED BY <1>0, <3>3, <3>4, Asks
    <2>5. CASE TotpEnable(r)
        <3>1. r.token.user \in Users /\ auth.pending.secret \in Nat
            BY <1>0, <2>0, <2>5 DEF TotpEnable, Confirmed, AuthFile, Pending
        <3> PICK f \in AuthFile : f = WithSecret(r.token.user, auth.pending.secret) /\ f.ver = auth.ver
            BY <3>1, Refiled
        <3> PICK none \in Pending : none = NoPending
            BY DEF Pending, NoPending
        <3> DEFINE file == [f EXCEPT !.pending = none]
        <3>3. file \in AuthFile /\ file.ver = f.ver
            BY DEF AuthFile
        <3>2. /\ Bump(file) /\ requests' \subseteq requests
              /\ UNCHANGED <<now, config, revoked, tokens, challenges>>
            BY <2>5 DEF TotpEnable, Handled
        <3> QED BY <3>2, <3>3, Bumps
    <2>6. CASE TotpDisable(r)
        <3>1. r.token.user \in Users
            BY <2>0, <2>6 DEF TotpDisable
        <3> PICK file \in AuthFile : file = WithSecret(r.token.user, 0) /\ file.ver = auth.ver
            BY <3>1, Refiled
        <3>2. /\ Bump(file) /\ requests' \subseteq requests
              /\ UNCHANGED <<now, config, revoked, tokens, challenges>>
            BY <2>6 DEF TotpDisable, Handled
        <3> QED BY <3>2, Bumps
    <2> QED BY <2>1, <2>2, <2>3, <2>4, <2>5, <2>6
<1>10. CASE UNCHANGED vars
    BY <1>0, <1>10, Asks DEF vars, history
<1> QED BY <1>1, <1>2, <1>3, <1>4, <1>5, <1>6, <1>7, <1>8, <1>9, <1>10, LogsOut DEF Next
-----------------------------------------------------------------------------
(* Secrets. *)

LEMMA SecretsInitially == Init => SecretsInv
<1> SUFFICES ASSUME Init PROVE SecretsInv
    OBVIOUS
<1>1. auth.totp = [u \in Users |-> 0] /\ auth.pending.user = NoUser /\ madeFor = <<>>
    BY DEF Init, NoPending
<1> QED BY <1>1, SignInAssumption DEF SecretsInv

LEMMA SecretsKept ==
    ASSUME SecretsInv, madeFor' = madeFor, auth'.totp = auth.totp, auth'.pending = auth.pending
    PROVE  SecretsInv'
BY DEF SecretsInv

LEMMA SecretsStep == SessionsInv /\ SecretsInv /\ [Next]_vars => SecretsInv'
<1> SUFFICES ASSUME SessionsInv, SecretsInv, [Next]_vars PROVE SecretsInv'
    OBVIOUS
<1>0. auth \in AuthFile
    BY DEF SessionsInv
<1>1. ASSUME NEW r \in requests, Handled(r, "totp/setup"), TotpSetup(r)
      PROVE  SecretsInv'
    <2> PICK u \in Users : u = r.token.user
        BY <1>1 DEF TotpSetup, SessionsInv
    <2> PICK n \in Nat : n = Len(madeFor) + 1
        BY LenProperties DEF SecretsInv
    <2>1. madeFor' = Append(madeFor, u)
        BY <1>1 DEF TotpSetup
    <2>2. /\ madeFor' \in Seq(Users) /\ Len(madeFor') = n /\ n \in 1 .. n
          /\ madeFor'[n] = u /\ \A i \in 1 .. Len(madeFor) : i \in 1 .. n /\ madeFor'[i] = madeFor[i]
        BY <2>1, AppendProperties DEF SecretsInv
    <2>3. auth' = [auth EXCEPT !.pending = [user |-> u, secret |-> n]]
        BY <1>1 DEF TotpSetup
    <2>4. auth'.totp = auth.totp /\ auth'.pending.user = u /\ auth'.pending.secret = n
        BY <1>0, <2>3 DEF AuthFile
    <2> QED BY <2>2, <2>4 DEF SecretsInv
<1>2. ASSUME NEW r \in requests, TotpEnable(r)
      PROVE  SecretsInv'
    <2> PICK u \in Users : u = r.token.user
        BY <1>2 DEF TotpEnable, Confirmed, SessionsInv
    <2> PICK secret \in 1 .. Len(madeFor) : secret = auth.pending.secret /\ madeFor[secret] = u
        BY <1>2 DEF TotpEnable, Confirmed, SecretsInv
    <2>1. secret \in Nat /\ Len(madeFor) \in Nat
        BY LenProperties DEF SecretsInv
    <2>2. PICK f \in AuthFile : /\ f = WithSecret(u, secret)
                                /\ f.totp = [auth.totp EXCEPT ![u] = secret]
        BY <2>1, Refiled
    <2>3. auth' = [f EXCEPT !.pending = NoPending, !.ver = f.ver + 1]
        <3>1. Bump([f EXCEPT !.pending = NoPending])
            BY <1>2, <2>2 DEF TotpEnable
        <3>2. [f EXCEPT !.pending = NoPending].ver = f.ver
            BY DEF AuthFile
        <3> QED BY <3>1, <3>2 DEF Bump, AuthFile
    <2>4. auth'.totp = f.totp /\ auth'.pending = NoPending
        BY <2>3 DEF AuthFile
    <2>5. auth'.pending.user = NoUser
        BY <2>4 DEF NoPending
    <2>6. \A v \in Users : auth'.totp[v] = IF v = u THEN secret ELSE auth.totp[v]
        BY <1>0, <2>2, <2>4 DEF AuthFile
    <2>7. madeFor' = madeFor
        BY <1>2 DEF TotpEnable
    <2> QED BY <2>5, <2>6, <2>7, SignInAssumption DEF SecretsInv
<1>3. ASSUME NEW r \in requests, TotpDisable(r)
      PROVE  SecretsInv'
    <2> PICK u \in Users : u = r.token.user
        BY <1>3 DEF TotpDisable, SessionsInv
    <2>1. PICK f \in AuthFile : /\ f = WithSecret(u, 0)
                                /\ f.totp = [auth.totp EXCEPT ![u] = 0]
                                /\ f.pending = auth.pending
        BY Refiled
    <2>2. Bump(f) /\ madeFor' = madeFor
        BY <1>3, <2>1 DEF TotpDisable
    <2>3. auth'.totp = f.totp /\ auth'.pending = auth.pending
        BY <2>1, <2>2 DEF Bump, AuthFile
    <2>4. \A v \in Users : auth'.totp[v] = IF v = u THEN 0 ELSE auth.totp[v]
        BY <1>0, <2>1, <2>3 DEF AuthFile
    <2> QED BY <2>2, <2>3, <2>4 DEF SecretsInv
<1>4. ASSUME NEW r \in requests, LogoutAll(r)
      PROVE  SecretsInv'
    <2>1. auth'.totp = auth.totp /\ auth'.pending = auth.pending /\ madeFor' = madeFor
        BY <1>0, <1>4 DEF LogoutAll, Bump, AuthFile
    <2> QED BY <2>1, SecretsKept
<1>5. ASSUME NEW u \in Users, Setup(u)
      PROVE  SecretsInv'
    <2>1. auth'.totp = auth.totp /\ auth'.pending = auth.pending /\ madeFor' = madeFor
        BY <1>0, <1>5 DEF Setup, history, AuthFile
    <2> QED BY <2>1, SecretsKept
<1>6. ASSUME UNCHANGED <<auth, madeFor>>
      PROVE  SecretsInv'
    BY <1>6, SecretsKept
<1>7. \/ UNCHANGED <<auth, madeFor>>
      \/ \E u \in Users : Setup(u)
      \/ \E r \in requests : TotpSetup(r) \/ TotpEnable(r) \/ TotpDisable(r) \/ LogoutAll(r)
    BY DEF Next, vars, history, Tick, LoginRefused, LoginChallenged, Login, LoginTotp, LocalSession,
           Logout, Admit, Dependency, Answered
<1> QED BY <1>1, <1>2, <1>3, <1>4, <1>5, <1>6, <1>7 DEF TotpSetup
-----------------------------------------------------------------------------
(* Failed attempts. *)

LEMMA FailuresInitially == Init => FailuresInv
<1> SUFFICES ASSUME Init PROVE FailuresInv
    OBVIOUS
<1>1. \A k \in Keys : rate[k] = NoRate /\ misses[k] = <<>>
    BY DEF Init
<1>2. rate \in [Keys -> Row] /\ misses \in [Keys -> Seq(Nat)] /\ now = 0
    BY DEF Init, Row, NoRate
<1>3. Cardinality({}) = 0 /\ MaxFails > 0
    BY FS_EmptySet, SignInAssumption
<1>4. ASSUME NEW k \in Keys
      PROVE  KeyInv(k)
    <2>1. rate[k].fails = {} /\ Len(misses[k]) = 0
        BY <1>1 DEF NoRate
    <2> QED BY <1>3, <2>1, SignInAssumption DEF KeyInv
<1> QED BY <1>2, <1>4 DEF FailuresInv

LEMMA KeyTypes ==
    ASSUME FailuresInv, NEW k \in Keys
    PROVE  /\ rate[k] \in Row /\ rate[k].until \in Nat /\ rate[k].fails \subseteq Nat
           /\ IsFiniteSet(rate[k].fails) /\ Cardinality(rate[k].fails) \in Nat
           /\ misses[k] \in Seq(Nat) /\ Len(misses[k]) \in Nat
           /\ \A i \in 1 .. Len(misses[k]) : misses[k][i] \in Nat
           /\ now \in Nat
<1>1. rate[k] \in Row /\ misses[k] \in Seq(Nat) /\ now \in Nat /\ rate[k].fails \subseteq 1 .. Len(misses[k])
    BY DEF FailuresInv, KeyInv
<1>2. Len(misses[k]) \in Nat /\ \A i \in 1 .. Len(misses[k]) : misses[k][i] \in Nat
    BY <1>1, LenProperties, ElementOfSeq
<1>3. IsFiniteSet(1 .. Len(misses[k]))
    BY <1>2, FS_Interval
<1>4. IsFiniteSet(rate[k].fails)
    BY <1>1, <1>3, FS_Subset
<1> QED BY <1>1, <1>2, <1>4, FS_CardinalityType DEF Row

\* While there is no lock, as many failures as lead to one span a window.
LEMMA Spans ==
    ASSUME FailuresInv, NEW k \in Keys, ~ Locked(k), Len(misses[k]) >= MaxFails
    PROVE  now - misses[k][Len(misses[k]) + 1 - MaxFails] >= Window
<1>1. /\ MaxFails \in Nat \ {0} /\ Window \in Nat
      /\ now \in Nat /\ rate[k].until \in Nat /\ ~ (rate[k].until > now)
    BY KeyTypes, SignInAssumption DEF Locked
<1> PICK n \in Nat : n = Len(misses[k]) /\ n >= MaxFails
    BY KeyTypes
<1> PICK first \in 1 .. n : first = n + 1 - MaxFails
    BY <1>1
<1> PICK old \in Nat : old = misses[k][first]
    BY KeyTypes
<1> SUFFICES ASSUME now - old < Window
             PROVE  FALSE
    BY <1>1
<1>2. ASSUME NEW i \in first .. n
      PROVE  i \in rate[k].fails
    <2> PICK m \in Nat : m = misses[k][i]
        BY KeyTypes
    <2>1. i \in 1 .. n /\ first <= i
        OBVIOUS
    <2>2. KeyInv(k)
        BY DEF FailuresInv
    <2>3. m >= old
        BY <2>1, <2>2 DEF KeyInv
    <2>4. now - m < Window
        BY <1>1, <2>3
    <2> PICK until \in Nat : until = rate[k].until /\ until <= now
        BY <1>1
    <2>5. ~ (until >= m + Window)
        BY <1>1, <2>4
    <2>6. i \in rate[k].fails \/ now - m >= Window \/ until >= m + Window
        BY <2>1, <2>2 DEF KeyInv, Counted
    <2> QED BY <1>1, <2>4, <2>5, <2>6
<1>3. Cardinality(first .. n) = MaxFails
    <2>1. first \in Int /\ n \in Int /\ ~ (first > n) /\ n - first + 1 = MaxFails
        BY <1>1
    <2> QED BY <2>1, FS_Interval
<1>4. Cardinality(first .. n) <= Cardinality(rate[k].fails) /\ Cardinality(rate[k].fails) \in Nat
    <2>1. first .. n \in SUBSET rate[k].fails
        BY <1>2
    <2> QED BY <2>1, KeyTypes, FS_Subset
<1>5. Cardinality(rate[k].fails) < MaxFails
    BY DEF FailuresInv, KeyInv
<1> QED BY <1>1, <1>3, <1>4, <1>5

LEMMA FailureStep ==
    ASSUME FailuresInv, NEW k \in Keys, ~ Locked(k), RecordFailure(k), now' = now
    PROVE  FailuresInv'
<1> PICK n \in Nat \ {0} : n = Len(misses[k]) + 1
    BY KeyTypes
<1> DEFINE fails == Kept(k) \cup {n}
<1>1. /\ n - 1 \in Nat /\ Len(misses[k]) = n - 1
      /\ Window \in Nat \ {0} /\ LockTime \in Nat /\ LockTime >= Window
      /\ now \in Nat /\ MaxFails \in Nat \ {0}
    BY KeyTypes, SignInAssumption
<1>2. ASSUME NEW j \in Keys
      PROVE  /\ Kept(j) \subseteq rate[j].fails
             /\ IsFiniteSet(Kept(j)) /\ Cardinality(Kept(j)) < MaxFails
    <2>1. Kept(j) \in SUBSET rate[j].fails
        BY DEF Kept
    <2>2. IsFiniteSet(rate[j].fails) /\ Cardinality(rate[j].fails) \in Nat
          /\ Cardinality(rate[j].fails) < MaxFails
        BY KeyTypes DEF FailuresInv, KeyInv
    <2>3. IsFiniteSet(Kept(j)) /\ Cardinality(Kept(j)) <= Cardinality(rate[j].fails)
        BY <2>1, <2>2, FS_Subset
    <2>4. Cardinality(Kept(j)) \in Nat
        BY <2>3, FS_CardinalityType
    <2> QED BY <1>1, <2>1, <2>2, <2>3, <2>4
<1>3. IsFiniteSet(fails) /\ Cardinality(fails) \in Nat
    BY <1>2, FS_AddElement, FS_CardinalityType
<1>4. fails \subseteq 1 .. n /\ n \in fails
    <2>1. Kept(k) \subseteq 1 .. n - 1
        BY <1>1, <1>2 DEF FailuresInv, KeyInv
    <2> QED BY <1>1, <2>1
<1> DEFINE locks == Cardinality(fails) >= MaxFails
<1> HIDE DEF fails, locks
<1> PICK row \in Row : row = IF locks THEN [fails |-> {}, until |-> now + LockTime]
                             ELSE [fails |-> fails, until |-> rate[k].until]
    <2> PICK kept \in SUBSET (Nat \ {0}) : kept = IF locks THEN {} ELSE fails
        BY <1>4
    <2> PICK until \in Nat : until = IF locks THEN now + LockTime ELSE rate[k].until
        BY <1>1, KeyTypes
    <2> DEFINE row == [fails |-> kept, until |-> until]
    <2>1. row \in Row
        BY DEF Row
    <2> QED BY <2>1
<1> DEFINE rows == [j \in Keys |-> IF j = k THEN row ELSE [rate[j] EXCEPT !.fails = Kept(j)]]
<1>5. /\ misses' = [misses EXCEPT ![k] = Append(@, now)]
      /\ rate' = [j \in Keys |-> IF rows[j].until > now \/ rows[j].fails # {}
                                 THEN rows[j] ELSE NoRate]
    BY DEF RecordFailure, Pruned, fails, locks
<1>6. /\ Append(misses[k], now) \in Seq(Nat) /\ Len(Append(misses[k], now)) = n
      /\ \A i \in 1 .. n - 1 : Append(misses[k], now)[i] = misses[k][i]
      /\ Append(misses[k], now)[n] = now
    BY <1>1, KeyTypes, AppendProperties
<1>7. /\ misses' \in [Keys -> Seq(Nat)]
      /\ misses'[k] = Append(misses[k], now)
      /\ \A j \in Keys \ {k} : misses'[j] = misses[j]
    BY <1>5, <1>6 DEF FailuresInv
<1>8. ASSUME NEW j \in Keys
      PROVE  rows[j] \in Row
    <2>1. [rate[j] EXCEPT !.fails = Kept(j)] \in Row
        BY <1>2, KeyTypes DEF Row
    <2> QED BY <2>1
<1>9. rate' \in [Keys -> Row]
    <2>1. NoRate \in Row
        BY DEF NoRate, Row
    <2> QED BY <1>5, <1>8, <2>1
<1>10. ASSUME NEW j \in Keys \ {k}
       PROVE  KeyInv(j)'
    <2> PICK old \in Row : old = rate[j]
        BY KeyTypes
    <2> PICK kept : kept = Kept(j)
        OBVIOUS
    <2>1. rows[j] = [old EXCEPT !.fails = kept]
        OBVIOUS
    <2>2. rows[j].fails = kept /\ rows[j].until = old.until
        BY <2>1 DEF Row
    <2>3. rate'[j] = IF rows[j].until > now \/ rows[j].fails # {} THEN rows[j] ELSE NoRate
        BY <1>5
    <2> HIDE DEF rows
    <2>4. /\ rate'[j].fails = kept
          /\ rate'[j].until = old.until \/ ~ (old.until > now)
        BY <2>2, <2>3 DEF NoRate
    <2>5. /\ kept \subseteq 1 .. Len(misses[j]) /\ Cardinality(kept) < MaxFails
          /\ misses'[j] = misses[j] /\ \A i \in 1 .. Len(misses[j]) : misses[j][i] \in Nat
        BY <1>2, <1>7, KeyTypes DEF FailuresInv, KeyInv
    <2>6. ASSUME NEW i \in 1 .. Len(misses[j])
          PROVE  Counted(j, i)'
        <3>1. Counted(j, i)
            BY DEF FailuresInv, KeyInv
        <3>2. i \in old.fails => i \in kept \/ now - misses[j][i] >= Window
            BY <1>1, <2>5 DEF Kept
        <3>3. old.until \in Nat
            BY DEF Row
        <3> QED BY <1>1, <2>4, <2>5, <3>1, <3>2, <3>3 DEF Counted
    <2>7. KeyInv(j)
        BY DEF FailuresInv
    <2> QED BY <2>4, <2>5, <2>6, <2>7 DEF KeyInv
<1>11. KeyInv(k)'
    <2>1. rows[k] = row /\ (row.until > now \/ row.fails # {})
        BY <1>1, <1>4
    <2>2. rate'[k] = row
        BY <1>5, <2>1
    <2>3. row.fails \subseteq 1 .. n /\ Cardinality(row.fails) < MaxFails
        <3>1. CASE locks
            BY <1>1, <3>1, FS_EmptySet
        <3>2. CASE ~ locks
            BY <1>1, <1>3, <1>4, <3>2 DEF locks
        <3> QED BY <3>1, <3>2
    <2>4. /\ \A i \in 1 .. n - 1 : misses'[k][i] = misses[k][i] /\ misses[k][i] \in Nat
                                   /\ misses[k][i] <= now
          /\ misses'[k][n] = now /\ Len(misses'[k]) = n
        BY <1>1, <1>6, <1>7, KeyTypes DEF FailuresInv, KeyInv
    <2>5. ASSUME NEW i \in 1 .. n
          PROVE  misses'[k][i] <= now /\ misses'[k][i] \in Nat /\ Counted(k, i)'
        <3>1. misses'[k][i] <= now /\ misses'[k][i] \in Nat
            BY <1>1, <2>4
        <3>2. CASE locks
            <4>1. row.until = now + LockTime
                BY <3>2
            <4> QED BY <1>1, <2>2, <3>1, <4>1 DEF Counted
        <3>3. CASE ~ locks
            <4>1. row.fails = fails /\ row.until = rate[k].until
                BY <3>3
            <4>2. CASE i = n
                BY <1>4, <2>2, <3>1, <4>1, <4>2 DEF Counted
            <4>3. CASE i # n
                <5>1. i \in 1 .. n - 1
                    BY <4>3
                <5>2. Counted(k, i)
                    BY <1>1, <5>1 DEF FailuresInv, KeyInv
                <5>3. i \in rate[k].fails => i \in fails \/ now - misses[k][i] >= Window
                    BY <1>1, <2>4, <5>1 DEF Kept, fails
                <5> QED BY <2>2, <2>4, <3>1, <4>1, <5>1, <5>2, <5>3 DEF Counted
            <4> QED BY <4>2, <4>3
        <3> QED BY <3>1, <3>2, <3>3
    <2>6. ASSUME NEW i \in 1 .. n, NEW j \in 1 .. n, i <= j
          PROVE  misses'[k][i] <= misses'[k][j]
        <3>1. CASE j = n
            BY <2>4, <2>5, <3>1
        <3>2. CASE j # n
            <4>1. i \in 1 .. n - 1 /\ j \in 1 .. n - 1
                BY <2>6, <3>2
            <4>2. misses[k][i] <= misses[k][j]
                BY <1>1, <2>6, <4>1 DEF FailuresInv, KeyInv
            <4> QED BY <2>4, <4>1, <4>2
        <3> QED BY <3>1, <3>2
    <2>7. ASSUME NEW i \in 1 .. n, i > MaxFails
          PROVE  misses'[k][i] - misses'[k][i - MaxFails] >= Window
        <3>1. i - MaxFails \in 1 .. n - 1
            BY <1>1, <2>7
        <3>2. CASE i = n
            <4>1. /\ Len(misses[k]) >= MaxFails
                  /\ i - MaxFails = Len(misses[k]) + 1 - MaxFails
                BY <1>1, <2>7, <3>2
            <4>2. now - misses[k][i - MaxFails] >= Window
                BY <4>1, Spans
            <4> QED BY <2>4, <3>1, <3>2, <4>2
        <3>3. CASE i # n
            <4>1. i \in 1 .. n - 1
                BY <3>3
            <4>2. misses[k][i] - misses[k][i - MaxFails] >= Window
                BY <1>1, <2>7, <4>1 DEF FailuresInv, KeyInv
            <4> QED BY <2>4, <3>1, <4>1, <4>2
        <3> QED BY <3>2, <3>3
    <2> QED BY <2>2, <2>3, <2>4, <2>5, <2>6, <2>7 DEF KeyInv
<1> QED BY <1>1, <1>7, <1>9, <1>10, <1>11 DEF FailuresInv

LEMMA SuccessStep ==
    ASSUME FailuresInv, NEW k \in Keys, RecordSuccess(k), now' = now
    PROVE  FailuresInv'
<1>1. /\ NoRate \in Row /\ <<>> \in Seq(Nat) /\ Len(<<>>) = 0
      /\ NoRate.fails = {} /\ Cardinality({}) = 0 /\ MaxFails \in Nat \ {0}
    BY FS_EmptySet, SignInAssumption DEF NoRate, Row
<1>2. rate' = [rate EXCEPT ![k] = NoRate] /\ misses' = [misses EXCEPT ![k] = <<>>]
    BY DEF RecordSuccess, NoRate
<1>3. /\ rate' \in [Keys -> Row] /\ misses' \in [Keys -> Seq(Nat)]
      /\ rate'[k] = NoRate /\ misses'[k] = <<>>
      /\ \A j \in Keys \ {k} : rate'[j] = rate[j] /\ misses'[j] = misses[j]
    BY <1>1, <1>2 DEF FailuresInv
<1>4. KeyInv(k)'
    <2>1. rate'[k].fails = {} /\ Len(misses'[k]) = 0
        BY <1>1, <1>3
    <2> QED BY <1>1, <2>1 DEF KeyInv
<1>5. \A j \in Keys \ {k} : KeyInv(j)'
    BY <1>3 DEF FailuresInv, KeyInv, Counted
<1> QED BY <1>3, <1>4, <1>5 DEF FailuresInv

LEMMA FailuresStep == FailuresInv /\ [Next]_vars => FailuresInv'
<1> SUFFICES ASSUME FailuresInv, [Next]_vars PROVE FailuresInv'
    OBVIOUS
<1>1. ASSUME NEW u \in Users, NEW ip \in Ips, NEW right \in BOOLEAN, LoginRefused(ip, u, right)
      PROVE  FailuresInv'
    BY <1>1, FailureStep DEF LoginRefused, Keys
<1>2. ASSUME NEW u \in Users, NEW ip \in Ips, LoginChallenged(ip, u) \/ Login(ip, u)
      PROVE  FailuresInv'
    BY <1>2, SuccessStep DEF LoginChallenged, Login, Keys
<1>3. CASE Tick
    <2>1. now' \in Nat /\ now' >= now /\ UNCHANGED <<rate, misses>>
        BY <1>3 DEF Tick, history, FailuresInv
    <2>2. ASSUME NEW k \in Keys
          PROVE  KeyInv(k)'
        <3>1. KeyInv(k) /\ \A i \in 1 .. Len(misses[k]) : misses[k][i] \in Nat
            BY KeyTypes DEF FailuresInv
        <3>2. ASSUME NEW i \in 1 .. Len(misses[k])
              PROVE  misses[k][i] <= now' /\ Counted(k, i)'
            <4> PICK m \in Nat : m = misses[k][i]
                BY <3>1
            <4>1. m <= now /\ Counted(k, i) /\ now \in Nat
                BY <3>1 DEF KeyInv, FailuresInv
            <4>2. m <= now' /\ (now - m >= Window => now' - m >= Window)
                BY <2>1, <4>1, SignInAssumption
            <4> QED BY <2>1, <4>1, <4>2 DEF Counted
        <3> QED BY <2>1, <3>1, <3>2 DEF KeyInv
    <2> QED BY <2>1, <2>2 DEF FailuresInv
<1>4. ASSUME UNCHANGED <<now, rate, misses>>
      PROVE  FailuresInv'
    BY <1>4 DEF FailuresInv, KeyInv, Counted
<1>5. \/ UNCHANGED <<now, rate, misses>> \/ Tick
      \/ \E u \in Users, ip \in Ips :
            \/ \E right \in BOOLEAN : LoginRefused(ip, u, right)
            \/ LoginChallenged(ip, u) \/ Login(ip, u)
    BY DEF Next, vars, history, Setup, LoginTotp, LocalSession, Logout, Admit, Dependency,
           LogoutAll, TotpSetup, TotpEnable, TotpDisable, Answered
<1> QED BY <1>1, <1>2, <1>3, <1>4, <1>5
-----------------------------------------------------------------------------

Inv == SessionsInv /\ SecretsInv /\ FailuresInv

LEMMA Inductive == Spec => []Inv
<1>1. Init => Inv
    BY SessionsInitially, SecretsInitially, FailuresInitially DEF Inv
<1>2. Inv /\ [Next]_vars => Inv'
    BY SessionsStep, SecretsStep, FailuresStep DEF Inv
<1> QED BY <1>1, <1>2, PTL DEF Spec

(***************************************************************************)
(* The types of the state, and that no two sessions have the same number   *)
(* (the jti of panel/auth.py create_token, which revoke_jti goes by).      *)
(***************************************************************************)
THEOREM SignInTypes == Spec => []TypeOK
<1>1. Inv => TypeOK
    BY DEF Inv, SessionsInv, SecretsInv, FailuresInv, KeyInv, Row, TypeOK
<1> QED BY <1>1, Inductive, PTL

(***************************************************************************)
(* A session that logged out stays out, and so does one with an account    *)
(* that was there when all were ended; a session of the local bypass does  *)
(* not.  The entry of a revoked session is dropped only when its own time  *)
(* has run out, and the version that a logout of all leaves behind does    *)
(* not come back (revoke_jti and is_jti_revoked of                         *)
(* panel/security_hardening.py, bump_token_version and decode_token of     *)
(* panel/auth.py).                                                         *)
(***************************************************************************)
THEOREM RevocationLasts == Spec => []EndedStaysOut
<1>1. SessionsInv => EndedStaysOut
    <2> SUFFICES ASSUME SessionsInv, NEW t \in Gone PROVE ~ Valid(t)
        BY DEF EndedStaysOut, Gone
    <2>1. Out(t) /\ now \in Nat /\ t.exp \in Nat /\ t.ver \in Nat /\ auth.ver \in Nat
        BY DEF SessionsInv, Token, AuthFile, Gone
    <2> PICK e : e = [id |-> t.id, exp |-> t.exp]
        OBVIOUS
    <2>2. e.id = t.id /\ e.exp = t.exp
        OBVIOUS
    <2>3. e \in revoked /\ now < t.exp => IsRevoked(t)
        BY <2>1, <2>2 DEF IsRevoked
    <2> QED BY <2>1, <2>3 DEF Out, Valid
<1> QED BY <1>1, Inductive, PTL DEF Inv

(***************************************************************************)
(* The secret that an account's codes are checked with was made for that   *)
(* account, though all requests share one place for the secret that waits  *)
(* for its first code (api_totp_setup and api_totp_enable of             *)
(* panel/routes/auth.py, set_totp_secret of panel/auth.py).                *)
(***************************************************************************)
THEOREM SecretsAreOwn == Spec => []SecretIsOwn
<1>1. SecretsInv => SecretIsOwn
    BY DEF SecretsInv, SecretIsOwn
<1> QED BY <1>1, Inductive, PTL DEF Inv

(***************************************************************************)
(* The lockout holds for any number of accounts and addresses: between a   *)
(* failure and the MaxFails-th after it lies a window, because a failure   *)
(* that is no longer counted is old or stands behind a lock that lasts as  *)
(* long (check_login_allowed and record_login_failure of                   *)
(* panel/security_hardening.py).                                           *)
(***************************************************************************)
THEOREM LockoutHolds == Spec => []NoBurst
<1>1. FailuresInv => NoBurst
    BY DEF FailuresInv, KeyInv, NoBurst
<1> QED BY <1>1, Inductive, PTL DEF Inv
=============================================================================
