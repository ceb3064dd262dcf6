------------------------------ MODULE MCAccess -------------------------------
(***************************************************************************)
(* Who may do what, for TLC: the sessions of an account, the OAuth grants  *)
(* behind them (up to one change of the version), single sign-on, the      *)
(* roles and grants of a member, and API keys.  The parts share nothing,   *)
(* so a behaviour runs one of them, chosen at the start, and the others    *)
(* rest.                                                                   *)
(***************************************************************************)
EXTENDS OAuthGrants, SingleSignOn, AppAccess, ApiKeys, TLC

VARIABLE part

allVars == <<part, vars, oauthVars, ssoVars, accessVars, keyVars>>

SSORests ==
    /\ ssoConfig = 0 /\ ssoLicensed = 0 /\ members = 0 /\ identities = 0
    /\ cachedProvider = 0 /\ saver = 0 /\ signIn = 0 /\ admitted = 0 /\ sent = 0
    /\ born = 0 /\ meddled = 0 /\ saves = 0

AccessRests ==
    /\ apps = 0 /\ roles = 0 /\ grants = 0 /\ licensed = 0 /\ saving = 0
    /\ lastSave = 0 /\ visit = 0

KeysRest == apiKeys = 0 /\ branchRules = 0 /\ enterprise = 0 /\ asked = 0 /\ cli = 0

MCInit ==
    /\ part \in {"sessions", "oauth", "sso", "access", "keys"}
    /\ OAuthInit
    /\ IF part = "sso" THEN SSOInit ELSE SSORests
    /\ IF part = "access" THEN AccessInit ELSE AccessRests
    /\ IF part = "keys" THEN KeyInit ELSE KeysRest

MCNext ==
    \/ part = "sessions" /\ Next /\ UNCHANGED <<part, oauthVars, ssoVars, accessVars, keyVars>>
    \/ /\ part = "oauth" /\ OAuthNext /\ account'.session_version <= 1
       /\ UNCHANGED <<part, ssoVars, accessVars, keyVars>>
    \/ part = "sso" /\ SSONext /\ UNCHANGED <<part, vars, oauthVars, accessVars, keyVars>>
    \/ part = "access" /\ AccessNext /\ UNCHANGED <<part, vars, oauthVars, ssoVars, keyVars>>
    \/ part = "keys" /\ KeyNext /\ UNCHANGED <<part, vars, oauthVars, ssoVars, accessVars>>

MCSpec == MCInit /\ [][MCNext]_allVars

\* Token ids are interchangeable, and so are requests, whatever part they are of.
Symmetry == Permutations(Tokens) \cup Permutations(Requests)

MCClaims ==
    {[subject |-> "s1", email |-> "e1", preferred_username |-> "", verified |-> TRUE, groups |-> {"g"}],
     [subject |-> "s2", email |-> "", preferred_username |-> "e1", verified |-> FALSE, groups |-> {}]}

Submit(i, open, given) ==
    [cfg |-> [issuer |-> i, secret |-> "", enabled |-> TRUE, manual |-> ~open, trust |-> open,
              groups |-> IF open THEN {} ELSE {"g"}],
     secretGiven |-> given]

MCInputs == {Submit("i1", TRUE, TRUE), Submit("i2", FALSE, FALSE), Submit("i2", FALSE, TRUE)}

MCEdits == {[a \in {"a1"} |-> [role |-> "r1", extra |-> {}]],
            [a \in {"a2"} |-> [role |-> "none", extra |-> {"branch:delete"}]]}

MCAllowLists == {<<>>, <<"", "mapped", "host">>, <<"net", "bad">>}

Rule(pattern, actions) == [pattern |-> pattern, actions |-> actions]

MCSubmissions ==
    {<<>>,
     <<Rule("**", <<"publish">>)>>,
     <<Rule("main", <<"rollback", "publish", "rollback">>), Rule("*", <<"read">>)>>,
     <<Rule("*", <<"read">>), Rule("**", <<"publish">>)>>,
     <<Rule("main", <<>>)>>,
     <<Rule("main", <<"write">>)>>}
-----------------------------------------------------------------------------
\* SingleSignOn: a client secret goes only to the provider it was saved for, a session
\* belongs to the account its identity is linked to, no account is left without a way
\* in, and of several first sign-ins of one person every one ends with the account
\* (SaveConfig, provider, resolveUser).
SSOIsSound == part = "sso" => SSOTypeOK /\ SignInSound

\* AppAccess: what a member is shown and what the handlers let them do agree, every
\* answer is right as of some moment of the request, and a save that no other one
\* overtakes leaves exactly the grants it was given (Effective, authorizeRequest,
\* ReplaceUserGrants).
GrantsAreSound == part = "access" => AccessTypeOK /\ AccessSound

\* ApiKeys: the list shows the rules that are enforced, and they allow exactly what was
\* asked for (GetApiKeyAccessByAppID, NormalizeBranchRules).
ApiKeysAreSound == part = "keys" => KeysSound
=============================================================================
