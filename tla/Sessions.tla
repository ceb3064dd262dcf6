------------------------------ MODULE Sessions ------------------------------
(***************************************************************************)
(* The dashboard sessions of one account (control-plane mode): sign-ins,   *)
(* the rotation of refresh tokens in the refresh_tokens ledger, and what   *)
(* ends a session.  A session is a pair of JWTs with the same claims, of   *)
(* which the model keeps one; any JWT ever handed out may be presented     *)
(* again, so lost answers and duplicated requests need no action.  Every   *)
(* statement of a request is a step of its own.  Accounts models the       *)
(* requests that change the account.                                       *)
(***************************************************************************)
EXTENDS Naturals, FiniteSets

CONSTANTS
    Tokens,         \* ids of refresh tokens
    NoToken,        \* replaced_by IS NULL
    Requests,       \* requests in flight
    MaxVersion      \* bound on session_version

ASSUME TokensAssumption == NoToken \notin Tokens
ASSUME MaxVersionAssumption == MaxVersion \in Nat

VARIABLES
    account,        \* the row of users
    ledger,         \* the rows of refresh_tokens
    jwts,           \* the JWTs handed out so far
    req             \* the requests in flight

vars == <<account, ledger, jwts, req>>

-----------------------------------------------------------------------------
(* The password is the version it was set under, which identifies it.       *)

Account == [session_version : 0..MaxVersion, password : 0..MaxVersion, enabled : BOOLEAN]

\* A row of the ledger: "used" was rotated within refreshReplayGrace, "replayed"
\* earlier than that.
LedgerRow == [use : {"fresh", "used", "replayed"}, expired : BOOLEAN,
              family_id : Tokens, replaced_by : Tokens \cup {NoToken}]

\* The claims of a JWT, and the password that was current when the account was
\* read for it.
Jwt == [id : Tokens, sv : 0..MaxVersion, password : 0..MaxVersion]

Rows == DOMAIN ledger
Claimable(t) == t \in Rows /\ ledger[t].use = "fresh" /\ ~ledger[t].expired

\* Mutant: an id is new when the ledger has no such row.
NotInLedger == Tokens \ Rows

\* Ids that name nothing yet: uuid.New().
NewIds == {t \in Tokens : /\ t \notin Rows
                          /\ \A j \in jwts : j.id # t
                          /\ \A r \in Rows : ledger[r].replaced_by # t /\ ledger[r].family_id # t
                          /\ \A q \in Requests : req[q].id # t}

Idle == [pc |-> "idle", id |-> NoToken, sv |-> 0, password |-> 0]

Become(q, x) == req' = [req EXCEPT ![q] = x]

Init ==
    /\ account = [session_version |-> 0, password |-> 0, enabled |-> TRUE]
    /\ ledger = [t \in {} |-> {}]
    /\ jwts = {}
    /\ req = [q \in Requests |-> Idle]

-----------------------------------------------------------------------------
(* Sign-in.                                                                  *)

\* resolveLoginPrincipal: one read gives the hash that is checked, the flag and
\* the version.
Login(q) ==
    /\ req[q].pc = "idle"
    /\ account.enabled
    /\ Become(q, [Idle EXCEPT !.pc = "start", !.sv = account.session_version,
                              !.password = account.password])
    /\ UNCHANGED <<account, ledger, jwts>>

\* The ledger with one more row, unspent.
With(db, t, family) ==
    [r \in DOMAIN db \cup {t} |->
        IF r = t THEN [use |-> "fresh", expired |-> FALSE, family_id |-> family,
                       replaced_by |-> NoToken]
        ELSE db[r]]

\* startSession: InsertRefreshToken, the first token of a new family, which the
\* model names after it.
StartSession(q) ==
    /\ req[q].pc = "start"
    /\ \E t \in NewIds :
          /\ ledger' = With(ledger, t, t)
          /\ Become(q, [req[q] EXCEPT !.pc = "purge", !.id = t])
    /\ UNCHANGED <<account, jwts>>

\* DeleteExpiredRefreshTokens, whose failure is only logged, and the pair of the
\* token just inserted.
Purge(q) ==
    LET kept == {r \in Rows : ~ledger[r].expired} IN
    /\ req[q].pc = "purge"
    /\ Become(q, Idle)
    /\ ledger' \in {ledger, [r \in kept |-> ledger[r]]}
    /\ jwts' = jwts \cup {[id |-> req[q].id, sv |-> req[q].sv, password |-> req[q].password]}
    /\ UNCHANGED account

\* A statement fails, or the server dies: the request ends where it is.
Abort(q) ==
    /\ req[q].pc # "idle"
    /\ Become(q, Idle)
    /\ UNCHANGED <<account, ledger, jwts>>

-----------------------------------------------------------------------------
(* RefreshSession.                                                           *)

\* resolveRefreshPrincipal, and the comparison of the sv claim.
Current(j) == account.enabled /\ account.session_version = j.sv

\* The account is read before anything is spent.
Refresh(q, j) ==
    /\ req[q].pc = "idle"
    /\ Current(j)
    /\ Become(q, [pc |-> "rotate", id |-> j.id, sv |-> account.session_version,
                  password |-> j.password])
    /\ UNCHANGED <<account, ledger, jwts>>

\* Mutant: the claim forgets used_at IS NULL.
ClaimTwice(t) == t \in Rows /\ ~ledger[t].expired

\* ConsumeRefreshToken: used_at IS NULL and not expired.
Claim(t) == Claimable(t)

\* RotateRefreshToken, one transaction: spend the token and insert its successor
\* in the same family.  A refused claim is looked into.
Rotate(q) ==
    LET t == req[q].id IN
    /\ req[q].pc = "rotate"
    /\ IF Claim(t)
       THEN \E n \in NewIds :
              /\ ledger' = With([ledger EXCEPT ![t].use = "used", ![t].replaced_by = n],
                                n, ledger[t].family_id)
              /\ Become(q, [req[q] EXCEPT !.pc = "purge", !.id = n])
       ELSE /\ Become(q, [req[q] EXCEPT !.pc = "explain"])
            /\ UNCHANGED ledger
    /\ UNCHANGED <<account, jwts>>

\* GetRefreshToken on the refused token: gone or never used, the session is over;
\* used within the grace, the same client asked twice; used before, a replay.
Explain(q) ==
    LET t == req[q].id IN
    /\ req[q].pc = "explain"
    /\ Become(q, IF t \notin Rows \/ ledger[t].use = "fresh" THEN Idle
                 ELSE IF ledger[t].use = "used"
                      THEN [req[q] EXCEPT !.pc = "successor", !.id = ledger[t].replaced_by]
                      ELSE [req[q] EXCEPT !.pc = "replay", !.id = ledger[t].family_id])
    /\ UNCHANGED <<account, ledger, jwts>>

\* The successor already written is handed back, unless it is gone or used.
HandBack(q) ==
    LET s == req[q].id IN
    /\ req[q].pc = "successor"
    /\ Become(q, Idle)
    /\ jwts' = IF s \in Rows /\ ledger[s].use = "fresh"
               THEN jwts \cup {[id |-> s, sv |-> req[q].sv, password |-> req[q].password]}
               ELSE jwts
    /\ UNCHANGED <<account, ledger>>

\* DeleteRefreshTokenFamily, whose failure is only logged.
DeleteFamily(q) ==
    LET kept == {r \in Rows : ledger[r].family_id # req[q].id} IN
    /\ req[q].pc = "replay"
    /\ Become(q, [req[q] EXCEPT !.pc = "bump"])
    /\ ledger' \in {ledger, [r \in kept |-> ledger[r]]}
    /\ UNCHANGED <<account, jwts>>

\* BumpUserSessionVersion, whose failure is only logged.
Bump(q) ==
    /\ req[q].pc = "bump"
    /\ Become(q, Idle)
    /\ account' \in {account} \cup
            {[account EXCEPT !.session_version = v] :
                v \in {account.session_version + 1} \cap (0..MaxVersion)}
    /\ UNCHANGED <<ledger, jwts>>

-----------------------------------------------------------------------------
(* Password changes, and the loss of access.                                 *)

\* Mutant: the version stays when the password changes.
PasswordAlone(a) == [a EXCEPT !.password = a.session_version + 1]

\* UpdateUserPasswordByID.
UpdateUserPassword(a) ==
    [a EXCEPT !.password = a.session_version + 1, !.session_version = a.session_version + 1]

\* ChangePassword behind an authenticated session: the current password is
\* checked on a first read of the account.
ChangePassword(q) ==
    /\ req[q].pc = "idle"
    /\ \E j \in jwts : Current(j)
    /\ Become(q, [Idle EXCEPT !.pc = "change"])
    /\ UNCHANGED <<account, ledger, jwts>>

\* The new password is written.
WritePassword(q) ==
    /\ req[q].pc = "change"
    /\ account.session_version < MaxVersion
    /\ account' = UpdateUserPassword(account)
    /\ Become(q, [req[q] EXCEPT !.pc = "renew"])
    /\ UNCHANGED <<ledger, jwts>>

\* ChangeMyPasswordHandler reads the account again and starts a session with it;
\* a disabled account gets none.
Renew(q) ==
    /\ req[q].pc = "renew"
    /\ Become(q, IF account.enabled
                 THEN [Idle EXCEPT !.pc = "start", !.sv = account.session_version,
                                   !.password = account.password]
                 ELSE Idle)
    /\ UNCHANGED <<account, ledger, jwts>>

\* An administrator resets the password, disables, enables or demotes.
Administer ==
    /\ \/ account.session_version < MaxVersion /\ account' = UpdateUserPassword(account)
       \/ /\ account.enabled /\ account.session_version < MaxVersion
          /\ \E on \in BOOLEAN :
                account' = [account EXCEPT !.session_version = account.session_version + 1,
                                           !.enabled = on]
       \/ ~account.enabled /\ account' = [account EXCEPT !.enabled = TRUE]
    /\ UNCHANGED <<ledger, jwts, req>>

\* A row leaves the replay grace, or expires.
Age(t) ==
    /\ \/ ledger[t].use = "used" /\ ledger' = [ledger EXCEPT ![t].use = "replayed"]
       \/ ~ledger[t].expired /\ ledger' = [ledger EXCEPT ![t].expired = TRUE]
    /\ UNCHANGED <<account, jwts, req>>

Next ==
    \/ \E q \in Requests :
        \/ Login(q) \/ StartSession(q) \/ Purge(q) \/ Abort(q)
        \/ \E j \in jwts : Refresh(q, j)
        \/ Rotate(q) \/ Explain(q) \/ HandBack(q) \/ DeleteFamily(q) \/ Bump(q)
        \/ ChangePassword(q) \/ WritePassword(q) \/ Renew(q)
    \/ Administer
    \/ \E t \in Rows : Age(t)

Spec == Init /\ [][Next]_vars

-----------------------------------------------------------------------------
\* Every variable has its type, and a token replaces at most one other.
TypeOK ==
    /\ account \in Account
    /\ Rows \subseteq Tokens /\ \A t \in Rows : ledger[t] \in LedgerRow
    /\ jwts \subseteq Jwt
    /\ \A q \in Requests : req[q].sv \in 0..MaxVersion /\ req[q].password \in 0..MaxVersion
    /\ \A s, t \in Rows : ledger[s].replaced_by = ledger[t].replaced_by
                            => s = t \/ ledger[s].replaced_by = NoToken

\* A sign-in has one credential at a time: two requests that present the same
\* token concurrently never leave two unspent tokens in its family.
OneLiveToken ==
    \A s, t \in Rows : /\ ledger[s].family_id = ledger[t].family_id
                       /\ ledger[s].use = "fresh" /\ ledger[t].use = "fresh"
                       => s = t

\* Refreshing never carries a session over a revocation: every JWT that names a
\* token, and every JWT of its successor, carries the version of the sign-in.
OneVersionPerFamily ==
    \A i, j \in jwts :
        /\ i.id \in Rows /\ j.id \in Rows
        /\ ledger[i.id].family_id = ledger[j.id].family_id
        => i.sv = j.sv

\* A JWT that RefreshSession and AuthenticateSession would accept was obtained
\* under the password the account has now.
SessionsEndWithPassword == \A j \in jwts : Current(j) => j.password = account.password
=============================================================================
