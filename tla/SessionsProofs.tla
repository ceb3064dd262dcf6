--------------------------- MODULE SessionsProofs ---------------------------
(***************************************************************************)
(* Proofs about Sessions, for any tokens, requests and versions: a family  *)
(* has one unspent token, all its credentials carry the version of its     *)
(* sign-in, and none outlives a change of the password.                    *)
(***************************************************************************)
EXTENDS Sessions, TLAPS

Steps == {"idle", "start", "purge", "rotate", "explain", "successor", "replay", "bump",
          "change", "renew"}

Request == [pc : Steps, id : Tokens \cup {NoToken}, sv : 0..MaxVersion, password : 0..MaxVersion]

Types ==
    /\ account \in Account
    /\ ledger \in [Rows -> LedgerRow] /\ Rows \subseteq Tokens
    /\ jwts \subseteq Jwt
    /\ req \in [Requests -> Request]
    /\ \A q \in Requests : req[q].pc = "purge" => req[q].id \in Tokens

OneSuccessor ==
    \A s, t \in Rows : ledger[s].replaced_by = ledger[t].replaced_by
                            => s = t \/ ledger[s].replaced_by = NoToken

\* A successor that has not been deleted is of the family of the token it replaced.
FamilyKept ==
    \A t \in Rows : LET s == ledger[t].replaced_by
                    IN s \in Rows => ledger[s].family_id = ledger[t].family_id

\* A JWT, or a request that will hand one out, names the token under the version.
Carries(t, v) ==
    \/ \E j \in jwts : j.id = t /\ j.sv = v
    \/ \E q \in Requests : /\ req[q].pc \in {"purge", "rotate", "explain", "successor"}
                           /\ req[q].id = t /\ req[q].sv = v

OneVersion ==
    \A s, t \in Rows : ledger[s].family_id = ledger[t].family_id =>
        \A v, w \in 0..MaxVersion : Carries(s, v) /\ Carries(t, w) => v = w

\* A JWT, or what a request has read, is of an earlier version or of the password.
OfPassword(x) ==
    /\ x.sv <= account.session_version
    /\ x.sv = account.session_version => x.password = account.password

PasswordsFollow ==
    /\ account.password <= account.session_version
    /\ \A j \in jwts : OfPassword(j)
    /\ \A q \in Requests : OfPassword(req[q])

\* Every conjunct but Types and PasswordsFollow is about the rows of the ledger.
Families == OneSuccessor /\ OneLiveToken /\ FamilyKept /\ OneVersion

IInv == Types /\ Families /\ PasswordsFollow

-----------------------------------------------------------------------------
\* The invariant implies what the runs check.
LEMMA Implied == IInv => TypeOK /\ OneLiveToken /\ OneVersionPerFamily /\ SessionsEndWithPassword
  <1> SUFFICES ASSUME IInv
               PROVE  TypeOK /\ OneLiveToken /\ OneVersionPerFamily /\ SessionsEndWithPassword
    OBVIOUS
  <1>1. TypeOK
    BY DEF IInv, Types, Families, OneSuccessor, TypeOK, Request
  <1>2. OneVersionPerFamily
    BY DEF IInv, Types, Families, OneVersion, Carries, OneVersionPerFamily, Jwt
  <1>3. SessionsEndWithPassword
    BY DEF IInv, PasswordsFollow, OfPassword, SessionsEndWithPassword, Current
  <1> QED  BY <1>1, <1>2, <1>3 DEF IInv, Families

\* At the start the ledger is empty and no JWT was handed out.
LEMMA Initial == Init => IInv
  BY TokensAssumption, MaxVersionAssumption
     DEF Init, IInv, Types, Families, OneSuccessor, OneLiveToken, FamilyKept, OneVersion, Carries,
         PasswordsFollow, OfPassword, Account, Rows, Idle, Request, Steps, Jwt

-----------------------------------------------------------------------------
(* Types.                                                                    *)

\* An account whose version goes up is still one.
LEMMA Raised ==
  ASSUME account \in Account, account.session_version < MaxVersion
  PROVE  /\ UpdateUserPassword(account) \in Account
         /\ \A on \in BOOLEAN :
               [account EXCEPT !.session_version = account.session_version + 1,
                               !.enabled = on] \in Account
  <1> DEFINE v == account.session_version + 1
  <1>1. v \in 0..MaxVersion
    BY MaxVersionAssumption DEF Account
  <1> HIDE DEF v
  <1>2. [account EXCEPT !.password = v, !.session_version = v] \in Account
    BY <1>1 DEF Account
  <1>3. \A on \in BOOLEAN : [account EXCEPT !.session_version = v, !.enabled = on] \in Account
    BY <1>1 DEF Account
  <1> QED  BY <1>2, <1>3 DEF v, UpdateUserPassword

\* Every step keeps the types.
LEMMA TypesKept == ASSUME Types, Next PROVE Types'
  <1> USE TokensAssumption, MaxVersionAssumption
  <1> DEFINE NamesToken(x) == x.pc = "purge" => x.id \in Tokens
             Typed == /\ req' \in [Requests -> Request]
                      /\ \A q \in Requests : NamesToken(req'[q])
             TableTyped == ledger' \in [Rows' -> LedgerRow] /\ Rows' \subseteq Tokens
  <1>0. Idle \in Request /\ NamesToken(Idle)
    BY DEF Idle, Request, Steps
  <1>1. ASSUME NEW q \in Requests, NEW x \in Request, NamesToken(x), Become(q, x)
        PROVE  Typed
    BY <1>1 DEF Types, Become
  <1>2. ASSUME NEW kept \in SUBSET Rows, ledger' \in {ledger, [r \in kept |-> ledger[r]]}
        PROVE  TableTyped
    BY <1>2 DEF Types, Rows
  <1>3. ASSUME NEW db \in [Rows -> LedgerRow], NEW t \in Tokens, NEW f \in Tokens,
               ledger' = With(db, t, f)
        PROVE  TableTyped
    BY <1>3 DEF Types, Rows, With, LedgerRow
  <1>4. UNCHANGED ledger => TableTyped
    BY DEF Types, Rows
  <1>5. ASSUME NEW q \in Requests, Login(q) PROVE Types'
    BY <1>1, <1>4, <1>5 DEF Login, Types, Account, Request, Steps, Idle
  <1>6. ASSUME NEW q \in Requests, StartSession(q) PROVE Types'
    <2>1. PICK t \in NewIds : /\ ledger' = With(ledger, t, t)
                              /\ Become(q, [req[q] EXCEPT !.pc = "purge", !.id = t])
      BY <1>6 DEF StartSession
    <2>2. t \in Tokens /\ [req[q] EXCEPT !.pc = "purge", !.id = t] \in Request
      BY DEF NewIds, Types, Request, Steps
    <2>3. TableTyped
      BY <1>3, <2>1, <2>2 DEF Types
    <2>4. Typed
      BY <1>1, <2>1, <2>2 DEF Types, Request
    <2> QED  BY <1>6, <2>3, <2>4 DEF StartSession, Types
  <1>7. ASSUME NEW q \in Requests, Purge(q) PROVE Types'
    <2>1. [id |-> req[q].id, sv |-> req[q].sv, password |-> req[q].password] \in Jwt
      BY <1>7 DEF Purge, Types, Request, Jwt
    <2>2. TableTyped
      BY <1>2, <1>7 DEF Purge
    <2> QED  BY <1>0, <1>1, <1>7, <2>1, <2>2 DEF Purge, Types
  <1>8. ASSUME NEW q \in Requests, Abort(q) PROVE Types'
    BY <1>0, <1>1, <1>4, <1>8 DEF Abort, Types
  <1>9. ASSUME NEW q \in Requests, NEW j \in jwts, Refresh(q, j) PROVE Types'
    BY <1>1, <1>4, <1>9 DEF Refresh, Types, Jwt, Request, Steps, Account
  <1>10. ASSUME NEW q \in Requests, Rotate(q) PROVE Types'
    <2> DEFINE t == req[q].id
    <2>1. CASE Claim(t)
      <3>1. PICK n \in NewIds :
              /\ ledger' = With([ledger EXCEPT ![t].use = "used", ![t].replaced_by = n],
                                n, ledger[t].family_id)
              /\ Become(q, [req[q] EXCEPT !.pc = "purge", !.id = n])
        BY <1>10, <2>1 DEF Rotate
      <3>2. n \in Tokens /\ [req[q] EXCEPT !.pc = "purge", !.id = n] \in Request
        BY DEF NewIds, Types, Request, Steps
      <3>3. /\ ledger[t].family_id \in Tokens
            /\ [ledger EXCEPT ![t].use = "used", ![t].replaced_by = n] \in [Rows -> LedgerRow]
        BY <2>1, <3>2 DEF Claim, Claimable, Types, LedgerRow
      <3>4. TableTyped
        BY <1>3, <3>1, <3>2, <3>3
      <3>5. Typed
        BY <1>1, <3>1, <3>2 DEF Types, Request
      <3> QED  BY <1>10, <3>4, <3>5 DEF Rotate, Types
    <2>2. CASE ~Claim(t)
      <3>1. [req[q] EXCEPT !.pc = "explain"] \in Request
        BY DEF Types, Request, Steps
      <3>2. Typed
        BY <1>1, <1>10, <2>2, <3>1 DEF Rotate, Types, Request
      <3> QED  BY <1>4, <1>10, <2>2, <3>2 DEF Rotate, Types
    <2> QED  BY <2>1, <2>2
  <1>11. ASSUME NEW q \in Requests, Explain(q) PROVE Types'
    <2> DEFINE t == req[q].id
               found(pc, id) == [req[q] EXCEPT !.pc = pc, !.id = id]
    <2>1. t \in Rows => /\ found("successor", ledger[t].replaced_by) \in Request
                        /\ found("replay", ledger[t].family_id) \in Request
      BY DEF Types, Request, Steps, LedgerRow
    <2>2. CASE t \notin Rows \/ ledger[t].use = "fresh"
      BY <1>0, <1>1, <1>4, <1>11, <2>2 DEF Explain, Types
    <2>3. CASE t \in Rows /\ ledger[t].use = "used"
      <3>1. Become(q, found("successor", ledger[t].replaced_by))
        BY <1>11, <2>3 DEF Explain
      <3>2. Typed
        BY <1>1, <2>1, <2>3, <3>1 DEF Types, Request
      <3> QED  BY <1>4, <1>11, <3>2 DEF Explain, Types
    <2>4. CASE t \in Rows /\ ledger[t].use = "replayed"
      <3>1. Become(q, found("replay", ledger[t].family_id))
        BY <1>11, <2>4 DEF Explain
      <3>2. Typed
        BY <1>1, <2>1, <2>4, <3>1 DEF Types, Request
      <3> QED  BY <1>4, <1>11, <3>2 DEF Explain, Types
    <2> QED  BY <2>2, <2>3, <2>4 DEF Types, LedgerRow
  <1>12. ASSUME NEW q \in Requests, HandBack(q) PROVE Types'
    <2>1. req[q].id \in Rows =>
            [id |-> req[q].id, sv |-> req[q].sv, password |-> req[q].password] \in Jwt
      BY DEF Types, Request, Jwt
    <2> QED  BY <1>0, <1>1, <1>4, <1>12, <2>1 DEF HandBack, Types
  <1>13. ASSUME NEW q \in Requests, DeleteFamily(q) PROVE Types'
    <2>1. [req[q] EXCEPT !.pc = "bump"] \in Request
      BY DEF Types, Request, Steps
    <2>2. Typed
      BY <1>1, <1>13, <2>1 DEF DeleteFamily, Types, Request
    <2>3. TableTyped
      BY <1>2, <1>13 DEF DeleteFamily
    <2> QED  BY <1>13, <2>2, <2>3 DEF DeleteFamily, Types
  <1>14. ASSUME NEW q \in Requests, Bump(q) PROVE Types'
    <2>1. account' \in Account
      BY <1>14 DEF Bump, Types, Account
    <2> QED  BY <1>0, <1>1, <1>4, <1>14, <2>1 DEF Bump, Types
  <1>15. ASSUME NEW q \in Requests, ChangePassword(q) PROVE Types'
    BY <1>1, <1>4, <1>15 DEF ChangePassword, Types, Idle, Request, Steps
  <1>16. ASSUME NEW q \in Requests, WritePassword(q) PROVE Types'
    <2>1. [req[q] EXCEPT !.pc = "renew"] \in Request
      BY DEF Types, Request, Steps
    <2>2. Typed
      BY <1>1, <1>16, <2>1 DEF WritePassword, Types, Request
    <2>3. account' \in Account
      BY <1>16, Raised DEF WritePassword, Types
    <2> QED  BY <1>4, <1>16, <2>2, <2>3 DEF WritePassword, Types
  <1>17. ASSUME NEW q \in Requests, Renew(q) PROVE Types'
    <2> DEFINE start == [Idle EXCEPT !.pc = "start", !.sv = account.session_version,
                                     !.password = account.password]
    <2>1. start \in Request /\ NamesToken(start)
      BY DEF Types, Account, Idle, Request, Steps
    <2> QED  BY <1>0, <1>1, <1>4, <1>17, <2>1 DEF Renew, Types
  <1>18. ASSUME Administer PROVE Types'
    <2>1. account' \in Account
      <3>1. [account EXCEPT !.enabled = TRUE] \in Account
        BY DEF Types, Account
      <3> QED  BY <1>18, <3>1, Raised DEF Administer, Types
    <2> QED  BY <1>4, <1>18, <2>1 DEF Administer, Types
  <1>19. ASSUME NEW t \in Rows, Age(t) PROVE Types'
    <2>1. /\ [ledger EXCEPT ![t].use = "replayed"] \in [Rows -> LedgerRow]
          /\ [ledger EXCEPT ![t].expired = TRUE] \in [Rows -> LedgerRow]
      BY DEF Types, LedgerRow
    <2>2. TableTyped
      BY <1>19, <2>1 DEF Age, Types, Rows
    <2> QED  BY <1>19, <2>2 DEF Age, Types
  <1> QED
    BY <1>5, <1>6, <1>7, <1>8, <1>9, <1>10, <1>11, <1>12, <1>13, <1>14, <1>15, <1>16, <1>17,
       <1>18, <1>19 DEF Next

-----------------------------------------------------------------------------
(* Passwords.                                                                *)

\* Every step keeps what was read of the password tied to its version.
LEMMA PasswordsKept == ASSUME Types, PasswordsFollow, Next PROVE PasswordsFollow'
  <1> USE MaxVersionAssumption
  <1>0. OfPassword(Idle)
    BY DEF OfPassword, Idle, PasswordsFollow, Types, Account
  <1>1. ASSUME NEW q \in Requests, NEW x, OfPassword(x), Become(q, x), UNCHANGED account,
               \A j \in jwts' : j \in jwts \/ OfPassword(j)
        PROVE  PasswordsFollow'
    BY <1>1 DEF PasswordsFollow, OfPassword, Become, Types
  <1>2. ASSUME account'.session_version = account.session_version + 1,
               account'.password <= account'.session_version,
               UNCHANGED jwts,
               \A q \in Requests : req'[q].sv \in 0..account.session_version
        PROVE  PasswordsFollow'
    BY <1>2 DEF PasswordsFollow, OfPassword, Types, Account, Jwt
  <1>3. \A q \in Requests : req[q].sv \in 0..account.session_version
    BY DEF PasswordsFollow, OfPassword, Types, Account, Request
  <1>4. \A x : OfPassword([Idle EXCEPT !.pc = x])
    BY <1>0 DEF OfPassword, Idle
  <1>5. \A x : OfPassword([Idle EXCEPT !.pc = x, !.sv = account.session_version,
                                       !.password = account.password])
    BY DEF OfPassword, Idle, Types, Account
  <1>6. \A q \in Requests : \A x, y : OfPassword([req[q] EXCEPT !.pc = x, !.id = y])
    BY DEF OfPassword, PasswordsFollow, Types, Request
  <1>7. \A q \in Requests : \A x : OfPassword([req[q] EXCEPT !.pc = x])
    BY DEF OfPassword, PasswordsFollow, Types, Request
  <1>8. \A q \in Requests :
            OfPassword([id |-> req[q].id, sv |-> req[q].sv, password |-> req[q].password])
    BY DEF OfPassword, PasswordsFollow
  <1>9. ASSUME NEW q \in Requests, Login(q) PROVE PasswordsFollow'
    BY <1>1, <1>5, <1>9 DEF Login
  <1>10. ASSUME NEW q \in Requests, StartSession(q) PROVE PasswordsFollow'
    BY <1>1, <1>6, <1>10 DEF StartSession
  <1>11. ASSUME NEW q \in Requests, Purge(q) PROVE PasswordsFollow'
    BY <1>0, <1>1, <1>8, <1>11 DEF Purge
  <1>12. ASSUME NEW q \in Requests, Abort(q) PROVE PasswordsFollow'
    BY <1>0, <1>1, <1>12 DEF Abort
  <1>13. ASSUME NEW q \in Requests, NEW j \in jwts, Refresh(q, j) PROVE PasswordsFollow'
    <2>1. OfPassword([pc |-> "rotate", id |-> j.id, sv |-> account.session_version,
                      password |-> j.password])
      BY <1>13 DEF Refresh, Current, OfPassword, PasswordsFollow
    <2> QED  BY <1>1, <1>13, <2>1 DEF Refresh
  <1>14. ASSUME NEW q \in Requests, Rotate(q) PROVE PasswordsFollow'
    BY <1>1, <1>6, <1>7, <1>14 DEF Rotate
  <1>15. ASSUME NEW q \in Requests, Explain(q) PROVE PasswordsFollow'
    BY <1>0, <1>1, <1>6, <1>15 DEF Explain
  <1>16. ASSUME NEW q \in Requests, HandBack(q) PROVE PasswordsFollow'
    BY <1>0, <1>1, <1>8, <1>16 DEF HandBack
  <1>17. ASSUME NEW q \in Requests, DeleteFamily(q) PROVE PasswordsFollow'
    BY <1>1, <1>7, <1>17 DEF DeleteFamily
  <1>18. ASSUME NEW q \in Requests, Bump(q) PROVE PasswordsFollow'
    <2>1. CASE UNCHANGED account
      BY <1>0, <1>1, <1>18, <2>1 DEF Bump
    <2>2. CASE account' = [account EXCEPT !.session_version = account.session_version + 1]
      <3>1. \A p \in Requests : req'[p].sv \in 0..account.session_version
        BY <1>3, <1>18 DEF Bump, Become, Idle, Types, Account
      <3> QED  BY <1>2, <1>18, <2>2, <3>1 DEF Bump, PasswordsFollow, Types, Account
    <2> QED  BY <1>18, <2>1, <2>2 DEF Bump
  <1>19. ASSUME NEW q \in Requests, ChangePassword(q) PROVE PasswordsFollow'
    BY <1>1, <1>4, <1>19 DEF ChangePassword
  <1>20. ASSUME UNCHANGED jwts, account' = UpdateUserPassword(account),
                \A q \in Requests : req'[q].sv \in 0..account.session_version
         PROVE  PasswordsFollow'
    BY <1>2, <1>20 DEF UpdateUserPassword, Types, Account
  <1>21. ASSUME NEW q \in Requests, WritePassword(q) PROVE PasswordsFollow'
    <2>1. \A p \in Requests : req'[p].sv = req[p].sv
      BY <1>21 DEF WritePassword, Become, Types, Request
    <2> QED  BY <1>3, <1>20, <1>21, <2>1 DEF WritePassword
  <1>22. ASSUME NEW q \in Requests, Renew(q) PROVE PasswordsFollow'
    BY <1>0, <1>1, <1>5, <1>22 DEF Renew
  <1>23. ASSUME Administer PROVE PasswordsFollow'
    <2>1. CASE account' = UpdateUserPassword(account)
      BY <1>3, <1>20, <1>23, <2>1 DEF Administer
    <2>2. ASSUME NEW on \in BOOLEAN,
                 account' = [account EXCEPT !.session_version = account.session_version + 1,
                                            !.enabled = on]
          PROVE  PasswordsFollow'
      <3>1. /\ account'.session_version = account.session_version + 1
            /\ account'.password = account.password
        BY <2>2 DEF Types, Account
      <3>2. account'.password <= account'.session_version
        BY <3>1 DEF PasswordsFollow, Types, Account
      <3>3. UNCHANGED <<jwts, req>>
        BY <1>23 DEF Administer
      <3> QED  BY <1>2, <1>3, <3>1, <3>2, <3>3
    <2>3. CASE account' = [account EXCEPT !.enabled = TRUE]
      BY <1>23, <2>3 DEF Administer, PasswordsFollow, OfPassword, Types, Account
    <2> QED  BY <1>23, <2>1, <2>2, <2>3 DEF Administer
  <1>24. ASSUME NEW t \in Rows, Age(t) PROVE PasswordsFollow'
    BY <1>24 DEF Age, PasswordsFollow, OfPassword
  <1> QED
    BY <1>9, <1>10, <1>11, <1>12, <1>13, <1>14, <1>15, <1>16, <1>17, <1>18, <1>19, <1>21, <1>22,
       <1>23, <1>24 DEF Next

-----------------------------------------------------------------------------
(* Families.                                                                 *)

\* No row is added, and whoever comes to name a token had one of its family.
LEMMA FamiliesShrink ==
  ASSUME Types, Families,
         Rows' \subseteq Rows,
         \A t \in Rows' : /\ ledger'[t].family_id = ledger[t].family_id
                          /\ ledger'[t].replaced_by = ledger[t].replaced_by
                          /\ ledger'[t].use = "fresh" => ledger[t].use = "fresh",
         \A t \in Rows' : \A v \in 0..MaxVersion : Carries(t, v)' =>
            \E s \in Rows : ledger[s].family_id = ledger[t].family_id /\ Carries(s, v)
  PROVE  Families'
  <1>1. OneSuccessor' /\ OneLiveToken' /\ FamilyKept'
    BY DEF Families, OneSuccessor, OneLiveToken, FamilyKept
  <1>2. OneVersion'
    <2> SUFFICES ASSUME NEW s \in Rows', NEW t \in Rows',
                        ledger'[s].family_id = ledger'[t].family_id,
                        NEW v \in 0..MaxVersion, NEW w \in 0..MaxVersion,
                        Carries(s, v)', Carries(t, w)'
                 PROVE  v = w
      BY DEF OneVersion
    <2>1. PICK r \in Rows : ledger[r].family_id = ledger[s].family_id /\ Carries(r, v)
      OBVIOUS
    <2>2. PICK u \in Rows : ledger[u].family_id = ledger[t].family_id /\ Carries(u, w)
      OBVIOUS
    <2> QED  BY <2>1, <2>2 DEF Families, OneVersion
  <1> QED  BY <1>1, <1>2 DEF Families

\* A row n is added to a family that has no other unspent token; it may replace t0.
Grows(n, family, t0, version) ==
    /\ Rows' = Rows \cup {n}
    /\ ledger'[n].family_id = family /\ ledger'[n].replaced_by = NoToken
    /\ \A t \in Rows :
          /\ ledger'[t].family_id = ledger[t].family_id
          /\ ledger'[t].use = "fresh" => ledger[t].use = "fresh" /\ ledger[t].family_id # family
          /\ \/ ledger'[t].replaced_by = ledger[t].replaced_by
             \/ t = t0 /\ ledger'[t].replaced_by = n /\ ledger[t].family_id = family
    /\ \A t \in Rows : \A v \in 0..MaxVersion : Carries(t, v)' => Carries(t, v)
    /\ \A v \in 0..MaxVersion : Carries(n, v)' => v = version
    /\ \A t \in Rows : ledger[t].family_id = family =>
            \A v \in 0..MaxVersion : Carries(t, v) => v = version

\* A token added to the ledger, as a sign-in or as a successor, keeps families sound.
LEMMA FamiliesGrow ==
  ASSUME Types, Families, Types', NEW n \in NewIds, NEW family, NEW t0, NEW version,
         Grows(n, family, t0, version)
  PROVE  Families'
  <1> USE DEF Grows
  <1>1. /\ n \in Tokens /\ n \notin Rows /\ n # NoToken
        /\ \A t \in Rows : ledger[t].replaced_by # n
    BY TokensAssumption DEF NewIds
  <1>2. OneSuccessor'
    BY <1>1 DEF Families, OneSuccessor
  <1>3. OneLiveToken'
    BY <1>1 DEF Families, OneLiveToken
  <1>4. FamilyKept'
    <2> SUFFICES ASSUME NEW t \in Rows', ledger'[t].replaced_by \in Rows'
                 PROVE  ledger'[ledger'[t].replaced_by].family_id = ledger'[t].family_id
      BY DEF FamilyKept
    <2>1. NoToken \notin Rows'
      BY TokensAssumption DEF Types
    <2>2. t \in Rows
      BY <2>1
    <2>3. CASE ledger'[t].replaced_by = ledger[t].replaced_by
      BY <1>1, <2>2, <2>3 DEF Families, FamilyKept
    <2>4. CASE ledger'[t].replaced_by = n
      BY <1>1, <2>2, <2>4
    <2> QED  BY <2>2, <2>3, <2>4
  <1>5. OneVersion'
    <2> SUFFICES ASSUME NEW s \in Rows', NEW t \in Rows',
                        ledger'[s].family_id = ledger'[t].family_id,
                        NEW v \in 0..MaxVersion, NEW w \in 0..MaxVersion,
                        Carries(s, v)', Carries(t, w)'
                 PROVE  v = w
      BY DEF OneVersion
    <2>1. CASE s \in Rows /\ t \in Rows
      BY <2>1 DEF Families, OneVersion
    <2>2. CASE s = n \/ t = n
      BY <1>1, <2>2
    <2> QED  BY <2>1, <2>2
  <1> QED  BY <1>2, <1>3, <1>4, <1>5 DEF Families

\* Nobody names a token that nobody has named.
LEMMA NewIdsUnnamed ==
  ASSUME Types, NEW n \in NewIds
  PROVE  \A v : ~Carries(n, v)
  BY DEF NewIds, Carries

\* Every step keeps families sound: it adds a token, removes tokens, or hands out a JWT.
LEMMA FamiliesKept == ASSUME Types, Families, Next PROVE Families'
  <1> DEFINE Naming == {"purge", "rotate", "explain", "successor"}
             Smaller == /\ Rows' \subseteq Rows
                        /\ \A t \in Rows' : /\ ledger'[t].family_id = ledger[t].family_id
                                            /\ ledger'[t].replaced_by = ledger[t].replaced_by
                                            /\ ledger'[t].use = "fresh" => ledger[t].use = "fresh"
             Quiet == \A t : \A v \in 0..MaxVersion : Carries(t, v)' => Carries(t, v)
  <1>0. Types'
    BY TypesKept
  <1>1. ASSUME NEW q \in Requests, NEW x, Become(q, x), UNCHANGED jwts,
               x.pc \notin Naming \/ Carries(x.id, x.sv)
        PROVE  Quiet
    BY <1>1 DEF Carries, Become, Types
  <1>2. ASSUME NEW q \in Requests, Become(q, Idle), req[q].pc \in Naming,
               jwts' \in {jwts, jwts \cup {[id |-> req[q].id, sv |-> req[q].sv,
                                            password |-> req[q].password]}}
        PROVE  Quiet
    BY <1>2 DEF Carries, Become, Idle, Types
  <1>3. UNCHANGED ledger => Smaller
    BY DEF Rows
  <1>4. ASSUME NEW kept \in SUBSET Rows, ledger' \in {ledger, [r \in kept |-> ledger[r]]}
        PROVE  Smaller
    BY <1>4 DEF Rows
  <1>5. Smaller /\ Quiet => Families'
    BY FamiliesShrink
  <1>6. \A q \in Requests : req[q].pc \in Naming => Carries(req[q].id, req[q].sv)
    BY DEF Carries
  <1>7. ASSUME NEW q \in Requests, Login(q) PROVE Families'
    BY <1>1, <1>3, <1>5, <1>7 DEF Login, Idle
  <1>8. ASSUME NEW q \in Requests, StartSession(q) PROVE Families'
    <2>1. PICK n \in NewIds : /\ ledger' = With(ledger, n, n)
                              /\ Become(q, [req[q] EXCEPT !.pc = "purge", !.id = n])
                              /\ UNCHANGED jwts
      BY <1>8 DEF StartSession
    <2>2. n \notin Rows /\ \A t \in Rows : ledger[t].family_id # n
      BY DEF NewIds
    <2>3. /\ Rows' = Rows \cup {n}
          /\ ledger'[n].family_id = n /\ ledger'[n].replaced_by = NoToken
          /\ \A t \in Rows : ledger'[t] = ledger[t]
      BY <2>1, <2>2 DEF With, Rows
    <2>4. \A t \in Rows : \A v \in 0..MaxVersion : Carries(t, v)' => Carries(t, v)
      BY <2>1, <2>2 DEF Carries, Become, Types, Request
    <2>5. \A v \in 0..MaxVersion : Carries(n, v)' => v = req[q].sv
      BY <2>1, NewIdsUnnamed DEF Carries, Become, Types, Request
    <2>6. PICK version : version = req[q].sv
      OBVIOUS
    <2>7. Grows(n, n, n, version)
      BY <2>2, <2>3, <2>4, <2>5, <2>6 DEF Grows
    <2> QED  BY <1>0, <2>7, FamiliesGrow
  <1>9. ASSUME NEW q \in Requests, Purge(q) PROVE Families'
    <2>1. Smaller
      BY <1>4, <1>9 DEF Purge
    <2>2. Quiet
      BY <1>2, <1>9 DEF Purge
    <2> QED  BY <1>5, <2>1, <2>2
  <1>10. ASSUME NEW q \in Requests, Abort(q) PROVE Families'
    BY <1>1, <1>3, <1>5, <1>10 DEF Abort, Idle
  <1>11. ASSUME NEW q \in Requests, NEW j \in jwts, Refresh(q, j) PROVE Families'
    <2>1. Carries(j.id, account.session_version)
      BY <1>11 DEF Refresh, Current, Carries
    <2>2. Quiet
      BY <1>1, <1>11, <2>1 DEF Refresh
    <2> QED  BY <1>3, <1>5, <1>11, <2>2 DEF Refresh
  <1>12. ASSUME NEW q \in Requests, Rotate(q) PROVE Families'
    <2>0. PICK t0, family, version : /\ t0 = req[q].id /\ version = req[q].sv
                                     /\ family = ledger[t0].family_id
      OBVIOUS
    <2>1. CASE Claim(t0)
      <3>1. PICK n \in NewIds :
              /\ ledger' = With([ledger EXCEPT ![t0].use = "used", ![t0].replaced_by = n],
                                n, family)
              /\ Become(q, [req[q] EXCEPT !.pc = "purge", !.id = n])
              /\ UNCHANGED jwts
        BY <1>12, <2>0, <2>1 DEF Rotate
      <3>2. n \notin Rows /\ t0 \in Rows /\ ledger[t0].use = "fresh"
        BY <2>1 DEF NewIds, Claim, Claimable
      <3>3. /\ Rows' = Rows \cup {n}
            /\ ledger'[n].family_id = family /\ ledger'[n].replaced_by = NoToken
        BY <3>1, <3>2 DEF With, Rows
      <3>4. \A t \in Rows \ {t0} : ledger'[t] = ledger[t]
        BY <3>1, <3>2 DEF With, Rows
      <3>5. /\ ledger'[t0].family_id = family /\ ledger'[t0].replaced_by = n
            /\ ledger'[t0].use = "used"
        BY <2>0, <3>1, <3>2 DEF With, Rows, Types, LedgerRow
      <3>6. \A t \in Rows \ {t0} : ledger[t].use = "fresh" => ledger[t].family_id # family
        BY <2>0, <3>2 DEF Families, OneLiveToken
      <3>7. \A t \in Rows : \A v \in 0..MaxVersion : Carries(t, v)' => Carries(t, v)
        BY <3>1, <3>2 DEF Carries, Become, Types, Request
      <3>8. \A v \in 0..MaxVersion : Carries(n, v)' => v = version
        BY <2>0, <3>1, NewIdsUnnamed DEF Carries, Become, Types, Request
      <3>9. Carries(t0, version) /\ version \in 0..MaxVersion
        BY <1>6, <1>12, <2>0 DEF Rotate, Types, Request
      <3>10. \A t \in Rows : ledger[t].family_id = family =>
                \A v \in 0..MaxVersion : Carries(t, v) => v = version
        BY <2>0, <3>2, <3>9 DEF Families, OneVersion
      <3>11. \A t \in Rows :
                /\ ledger'[t].family_id = ledger[t].family_id
                /\ ledger'[t].use = "fresh" =>
                        ledger[t].use = "fresh" /\ ledger[t].family_id # family
                /\ \/ ledger'[t].replaced_by = ledger[t].replaced_by
                   \/ t = t0 /\ ledger'[t].replaced_by = n /\ ledger[t].family_id = family
        BY <2>0, <3>4, <3>5, <3>6
      <3>12. Grows(n, family, t0, version)
        BY <3>3, <3>7, <3>8, <3>10, <3>11 DEF Grows
      <3> QED  BY <1>0, <3>12, FamiliesGrow
    <2>2. CASE ~Claim(t0)
      <3>1. Become(q, [req[q] EXCEPT !.pc = "explain"]) /\ UNCHANGED <<ledger, jwts>>
        BY <1>12, <2>0, <2>2 DEF Rotate
      <3>2. LET x == [req[q] EXCEPT !.pc = "explain"] IN x.id = req[q].id /\ x.sv = req[q].sv
        BY DEF Types, Request
      <3>3. Quiet
        BY <1>1, <1>6, <1>12, <3>1, <3>2 DEF Rotate
      <3> QED  BY <1>3, <1>5, <3>1, <3>3
    <2> QED  BY <2>1, <2>2
  <1>13. ASSUME NEW q \in Requests, Explain(q) PROVE Families'
    <2> DEFINE t0 == req[q].id
    <2>1. UNCHANGED <<ledger, jwts>> /\ Smaller
      BY <1>3, <1>13 DEF Explain
    <2>2. CASE t0 \in Rows /\ ledger[t0].use = "used"
      <3> DEFINE s0 == ledger[t0].replaced_by
                 x == [req[q] EXCEPT !.pc = "successor", !.id = s0]
      <3>1. Become(q, x)
        BY <1>13, <2>2 DEF Explain
      <3>2. x.id = s0 /\ x.sv = req[q].sv /\ x.pc = "successor"
        BY DEF Types, Request
      <3>3. Carries(t0, req[q].sv)
        BY <1>6, <1>13 DEF Explain
      <3>4. \A t : \A v \in 0..MaxVersion :
                Carries(t, v)' => Carries(t, v) \/ (t = s0 /\ v = req[q].sv)
        BY <2>1, <3>1, <3>2 DEF Carries, Become, Types
      <3>5. s0 \in Rows => ledger[s0].family_id = ledger[t0].family_id
        BY <2>2 DEF Families, FamilyKept
      <3>6. \A t \in Rows' : \A v \in 0..MaxVersion : Carries(t, v)' =>
                \E s \in Rows : ledger[s].family_id = ledger[t].family_id /\ Carries(s, v)
        BY SMTT(60), <2>1, <2>2, <3>3, <3>4, <3>5
      <3> QED  BY <2>1, <3>6, FamiliesShrink
    <2>3. CASE ~(t0 \in Rows /\ ledger[t0].use = "used")
      <3>1. Become(q, Idle) \/ Become(q, [req[q] EXCEPT !.pc = "replay", !.id = ledger[t0].family_id])
        BY <1>13, <2>3 DEF Explain
      <3>2. [req[q] EXCEPT !.pc = "replay", !.id = ledger[t0].family_id].pc = "replay"
        BY DEF Types, Request
      <3>3. Quiet
        BY <1>1, <2>1, <3>1, <3>2 DEF Idle
      <3> QED  BY <1>5, <2>1, <3>3
    <2> QED  BY <2>2, <2>3
  <1>14. ASSUME NEW q \in Requests, HandBack(q) PROVE Families'
    <2>1. Quiet
      BY <1>2, <1>14 DEF HandBack
    <2> QED  BY <1>3, <1>5, <1>14, <2>1 DEF HandBack
  <1>15. ASSUME NEW q \in Requests, DeleteFamily(q) PROVE Families'
    <2>1. Smaller
      BY <1>4, <1>15 DEF DeleteFamily
    <2>2. [req[q] EXCEPT !.pc = "bump"].pc = "bump"
      BY DEF Types, Request
    <2>3. Quiet
      BY <1>1, <1>15, <2>2 DEF DeleteFamily
    <2> QED  BY <1>5, <2>1, <2>3
  <1>16. ASSUME NEW q \in Requests, Bump(q) \/ ChangePassword(q) PROVE Families'
    <2>1. Quiet
      BY <1>1, <1>16 DEF Bump, ChangePassword, Idle
    <2> QED  BY <1>3, <1>5, <1>16, <2>1 DEF Bump, ChangePassword
  <1>17. ASSUME NEW q \in Requests, WritePassword(q) PROVE Families'
    <2>1. [req[q] EXCEPT !.pc = "renew"].pc = "renew"
      BY DEF Types, Request
    <2>2. Quiet
      BY <1>1, <1>17, <2>1 DEF WritePassword
    <2> QED  BY <1>3, <1>5, <1>17, <2>2 DEF WritePassword
  <1>18. ASSUME NEW q \in Requests, Renew(q) PROVE Families'
    <2>1. Quiet
      BY <1>1, <1>18 DEF Renew, Idle
    <2> QED  BY <1>3, <1>5, <1>18, <2>1 DEF Renew
  <1>19. ASSUME Administer PROVE Families'
    <2>1. Quiet
      BY <1>19 DEF Administer, Carries
    <2> QED  BY <1>3, <1>5, <1>19, <2>1 DEF Administer
  <1>20. ASSUME NEW t \in Rows, Age(t) PROVE Families'
    <2>1. Quiet
      BY <1>20 DEF Age, Carries
    <2>2. Smaller
      BY <1>20 DEF Age, Rows, Types, LedgerRow
    <2> QED  BY <1>5, <2>1, <2>2
  <1> QED
    BY <1>7, <1>8, <1>9, <1>10, <1>11, <1>12, <1>13, <1>14, <1>15, <1>16, <1>17, <1>18, <1>19,
       <1>20 DEF Next

-----------------------------------------------------------------------------
\* Every step keeps the invariant.
LEMMA Inductive == IInv /\ [Next]_vars => IInv'
  <1> SUFFICES ASSUME IInv, [Next]_vars PROVE IInv'
    OBVIOUS
  <1>1. CASE Next
    BY <1>1, TypesKept, FamiliesKept, PasswordsKept DEF IInv
  <1>2. CASE UNCHANGED vars
    BY <1>2 DEF vars, IInv, Types, Families, OneSuccessor, OneLiveToken, FamilyKept, OneVersion,
                Carries, PasswordsFollow, OfPassword, Rows
  <1> QED  BY <1>1, <1>2

\* The invariant holds in every reachable state.
LEMMA Invariance == Spec => []IInv
  BY Initial, Inductive, PTL DEF Spec

\* The variables keep their types, and RotateRefreshToken never writes the same successor
\* into two rows of refresh_tokens.
THEOREM SessionTypes == Spec => []TypeOK
  BY Invariance, Implied, PTL

\* Of the tokens of one sign-in at most one is unspent, whichever refreshes race to
\* consume it (ConsumeRefreshToken and InsertRefreshToken in one transaction).
THEOREM OneCredential == Spec => []OneLiveToken
  BY Invariance, Implied, PTL

\* Rotation and the successor that is handed back never carry a session over a change of
\* session_version: RefreshSession compares it before anything is spent, and a token's
\* family keeps the version of its sign-in.
THEOREM RevocationSticks == Spec => []OneVersionPerFamily
  BY Invariance, Implied, PTL

\* No JWT that RefreshSession or AuthenticateSession accepts was obtained under another
\* password than the current one, though sign-ins and refreshes read the account before
\* the statement that changes it commits.
THEOREM PasswordEndsSessions == Spec => []SessionsEndWithPassword
  BY Invariance, Implied, PTL
=============================================================================
