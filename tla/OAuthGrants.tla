----------------------------- MODULE OAuthGrants -----------------------------
(***************************************************************************)
(* The OAuth grants of the MCP server over the account and the ledger of   *)
(* Sessions: dynamic registration of clients, the consent of a signed-in   *)
(* account, the exchange of an authorization code, and the refresh of the  *)
(* pair.  RefreshAccessToken takes the same steps over the same ledger as  *)
(* RefreshSession, so the steps of Sessions stand for both; a JWT's        *)
(* subject decides which endpoint accepts it.                              *)
(***************************************************************************)
EXTENDS Sessions

CONSTANTS
    ClientIds,          \* ids of OAuth clients
    CodeIds,            \* ids of authorization codes
    NoCode,             \* a request that exchanges nothing
    RedirectURIs,       \* the URIs clients ask for, by kind
    Verifiers,          \* code verifiers; a challenge is named by its verifier
    MaxRedirectURIs     \* maxRedirectURIs

VARIABLES
    oauthClients,       \* the rows of oauth_clients: the URIs of a client
    codes,              \* the rows of oauth_authorization_codes
    exchange,           \* the exchange a request is in
    granted,            \* the families started with a code
    spoilt              \* codes claimed by an exchange that did not match the consent

oauthVars == <<oauthClients, codes, exchange, granted, spoilt>>

\* The code a request claimed, and whether the request matches its row.
NoExchange == [code |-> NoCode, ok |-> FALSE]

OAuthInit ==
    /\ Init
    /\ oauthClients = [c \in {} |-> {}]
    /\ codes = [c \in {} |-> {}]
    /\ exchange = [q \in Requests |-> NoExchange]
    /\ granted = [c \in CodeIds |-> {}]
    /\ spoilt = {}

-----------------------------------------------------------------------------
(* Registration and consent.                                                 *)

\* Absolute, hierarchical, without a fragment or a scheme the browser executes,
\* and http only towards a loopback host.
ValidateRedirectURI(uri) == uri \in {"https", "app", "loopback"}

\* Clients are never deleted.
InsertOAuthClient(db, id, uris) == [c \in DOMAIN db \cup {id} |-> IF c = id THEN uris ELSE db[c]]

RegisterClient(uris) ==
    /\ uris # {} /\ Cardinality(uris) <= MaxRedirectURIs
    /\ \A uri \in uris : ValidateRedirectURI(uri)
    /\ \E id \in ClientIds \ DOMAIN oauthClients :
          oauthClients' = InsertOAuthClient(oauthClients, id, uris)
    /\ UNCHANGED <<vars, codes, exchange, granted, spoilt>>

GetOAuthClient(id) == IF id \in DOMAIN oauthClients THEN {oauthClients[id]} ELSE {}

\* The other parameters of a request (the response type, the challenge method and
\* length, the scope, the resource) are right: a request that has one wrong is
\* answered in place.
ValidateAuthorizationRequest(client, uri) == \E uris \in GetOAuthClient(client) : uri \in uris

DeleteExpiredOAuthAuthorizationCodes(db) ==
    [c \in {d \in DOMAIN db : ~db[d].expired} |-> db[c]]

InsertOAuthAuthorizationCode(db, id, client, uri, challenge) ==
    [c \in DOMAIN db \cup {id} |->
        IF c = id THEN [client |-> client, uri |-> uri, challenge |-> challenge,
                        used |-> FALSE, expired |-> FALSE]
        ELSE db[c]]

\* A code that names nothing yet: uuid.New().
NewCodes == {c \in CodeIds : /\ c \notin DOMAIN codes /\ granted[c] = {} /\ c \notin spoilt
                             /\ \A q \in Requests : exchange[q].code # c}

\* ConsentHandler, approved, behind a dashboard session of its own, which an
\* enabled account may have at any time: the sweep, whose failure is only logged,
\* and the insert.
CreateAuthorizationCode(client, uri, challenge) ==
    /\ account.enabled
    /\ ValidateAuthorizationRequest(client, uri)
    /\ \E c \in NewCodes, swept \in {codes, DeleteExpiredOAuthAuthorizationCodes(codes)} :
          codes' = InsertOAuthAuthorizationCode(swept, c, client, uri, challenge)
    /\ UNCHANGED <<vars, oauthClients, exchange, granted, spoilt>>

\* authorizationCodeTTL has passed.
CodeExpires(c) ==
    /\ ~codes[c].expired
    /\ codes' = [codes EXCEPT ![c].expired = TRUE]
    /\ UNCHANGED <<vars, oauthClients, exchange, granted, spoilt>>

-----------------------------------------------------------------------------
(* The exchange.                                                             *)

\* The exchange replays what the user consented to.
Matches(row, uri, verifier) == uri = row.uri /\ verifier = row.challenge

\* Mutant: an exchange that does not match leaves the code to be claimed again.
ConsumeIfMatching(db, c, ok) == IF ok THEN [db EXCEPT ![c].used = TRUE] ELSE db

\* The claim of a code that was found unused and not expired.
ConsumeOAuthAuthorizationCode(db, c, ok) == [db EXCEPT ![c].used = TRUE]

\* ExchangeAuthorizationCode up to the checks: the code is consumed before
\* anything is verified.  A code that cannot be claimed is an invalid grant.
ExchangeAuthorizationCode(q, c, uri, verifier) ==
    LET ok == Matches(codes[c], uri, verifier) IN
    /\ req[q].pc = "idle"
    /\ ~codes[c].used /\ ~codes[c].expired
    /\ codes' = ConsumeOAuthAuthorizationCode(codes, c, ok)
    /\ Become(q, [Idle EXCEPT !.pc = "verify"])
    /\ exchange' = [exchange EXCEPT ![q] = [code |-> c, ok |-> ok]]
    /\ spoilt' = IF ok THEN spoilt ELSE spoilt \cup {c}
    /\ UNCHANGED <<account, ledger, jwts, oauthClients, granted>>

\* The comparisons with the row the claim returned, and principalForUser: the
\* account is read again, and the pair will carry the version it has now.
VerifyGrant(q) ==
    /\ req[q].pc = "verify"
    /\ IF exchange[q].ok /\ account.enabled
       THEN /\ Become(q, [Idle EXCEPT !.pc = "start", !.sv = account.session_version,
                                      !.password = account.password])
            /\ UNCHANGED exchange
       ELSE Become(q, Idle) /\ exchange' = [exchange EXCEPT ![q] = NoExchange]
    /\ UNCHANGED <<account, ledger, jwts, oauthClients, codes, granted, spoilt>>

\* InsertRefreshToken for the exchange, as in a sign-in.
StartGrant(q) ==
    /\ exchange[q] # NoExchange
    /\ StartSession(q)
    /\ granted' = [granted EXCEPT ![exchange[q].code] = @ \cup (DOMAIN ledger' \ Rows)]
    /\ UNCHANGED <<oauthClients, codes, exchange, spoilt>>

\* RefreshAccessToken, the end of the exchange, and what happens to the account and
\* the rows meanwhile; the exchange of a request ends with the request.
SessionStep ==
    /\ \/ \E q \in Requests :
            \/ Purge(q) \/ Abort(q)
            \/ \E j \in jwts : Refresh(q, j)
            \/ Rotate(q) \/ Explain(q) \/ HandBack(q) \/ DeleteFamily(q) \/ Bump(q)
       \/ Administer
       \/ \E t \in Rows : Age(t)
    /\ exchange' = [q \in Requests |-> IF req'[q].pc = "idle" THEN NoExchange ELSE exchange[q]]
    /\ UNCHANGED <<oauthClients, codes, granted, spoilt>>

OAuthNext ==
    \/ \E uris \in SUBSET RedirectURIs : RegisterClient(uris)
    \/ \E client \in ClientIds, uri \in RedirectURIs, v \in Verifiers :
          CreateAuthorizationCode(client, uri, v)
    \/ \E c \in DOMAIN codes : CodeExpires(c)
    \/ \E q \in Requests :
          \/ \E c \in DOMAIN codes, uri \in RedirectURIs, v \in Verifiers :
                ExchangeAuthorizationCode(q, c, uri, v)
          \/ VerifyGrant(q) \/ StartGrant(q)
    \/ SessionStep

OAuthSpec == OAuthInit /\ [][OAuthNext]_<<vars, oauthVars>>

-----------------------------------------------------------------------------

\* A consent yields one session: a code never starts two families, however many
\* exchanges present it at once, and an exchange that did not match what the user
\* consented to burns it, so that no later exchange of the code succeeds.
ConsentYieldsOneSession ==
    \A c \in CodeIds : /\ Cardinality(granted[c]) <= 1
                       /\ c \in spoilt => granted[c] = {}
=============================================================================
