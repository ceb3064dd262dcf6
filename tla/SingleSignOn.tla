---------------------------- MODULE SingleSignOn ----------------------------
(***************************************************************************)
(* Single sign-on (ee/sso): the sso_config row and who saves it, the cache *)
(* of discovered providers, and the sign-ins that turn an identity of the  *)
(* provider into an account of users, through sso_identities, while other  *)
(* replicas sign the same people in and administrators change accounts.    *)
(* A secret is the issuer it was entered for; a provider, the issuer it    *)
(* was discovered from.                                                    *)
(***************************************************************************)
EXTENDS Naturals, FiniteSets

CONSTANTS
    Issuers,        \* identity providers
    Claims,         \* what an id_token may say: [subject, email, preferred_username, verified, groups]
    Inputs,         \* submissions of the configuration
    Savers,         \* requests that save a configuration
    SignIns,        \* sign-ins in flight
    MaxMembers,     \* bound on accounts ever created
    MaxSaves        \* bound on submissions

ASSUME SSOBoundsAssumption == MaxMembers \in Nat /\ MaxSaves \in Nat

VARIABLES
    ssoConfig,      \* the row of sso_config: {} or one configuration
    ssoLicensed,    \* licenseValid
    members,        \* users, by id: [email, password, enabled]
    identities,     \* sso_identities: <<issuer, subject>> -> user id
    cachedProvider, \* [issuer, provider], of one replica
    saver,          \* the submissions in flight
    signIn,         \* the sign-ins in flight
    admitted,        \* sessions handed out: [identity, user]
    sent,           \* secrets sent to token endpoints: <<provider, secret>>
    born,           \* accounts created so far
    meddled,        \* history: an account came or went under a sign-in's feet
    saves           \* submissions so far

ssoVars == <<ssoConfig, ssoLicensed, members, identities, cachedProvider, saver, signIn,
             admitted, sent, born, meddled, saves>>

-----------------------------------------------------------------------------
(* Reading the configuration.                                               *)

\* GetConfig, whose secret may be unreadable: the master key changed.
GetConfig == {c \in ssoConfig : c.secret \in Issuers}

\* activeConfig: stored, enabled, licensed.
activeConfig == {c \in GetConfig : c.enabled /\ ssoLicensed}

\* Enabled: the community services stop password sign-in of members and the
\* creation of accounts.
SSOEnabled == activeConfig # {}

-----------------------------------------------------------------------------
(* Discovery.                                                                *)

NoProvider == [issuer |-> "", provider |-> ""]

\* provider: the cached document of this issuer, or a discovery, which replaces it.
Provider(issuer) == IF cachedProvider.issuer = issuer THEN cachedProvider
                    ELSE [issuer |-> issuer, provider |-> issuer]

-----------------------------------------------------------------------------
Submission == [issuer |-> "", secret |-> "", enabled |-> FALSE]
NoSave == [pc |-> "idle", cfg |-> Submission]
NoOne == [subject |-> "", email |-> "", preferred_username |-> "", verified |-> FALSE, groups |-> {}]
NoSignIn == [pc |-> "idle", at |-> "", cfg |-> Submission, who |-> NoOne, user |-> 0,
             enabled |-> FALSE, retried |-> FALSE]

SSOInit ==
    /\ ssoConfig = {} /\ ssoLicensed = TRUE
    /\ members = [u \in {} |-> {}] /\ identities = [i \in {} |-> 0]
    /\ cachedProvider = NoProvider
    /\ saver = [r \in Savers |-> NoSave]
    /\ signIn = [r \in SignIns |-> NoSignIn]
    /\ admitted = {} /\ sent = {}
    /\ born = 0 /\ meddled = FALSE /\ saves = 0

SavesWait(r, x) == saver' = [saver EXCEPT ![r] = x]
SignInBecomes(r, x) == signIn' = [signIn EXCEPT ![r] = x]

Tables == <<members, identities, born, meddled>>

-----------------------------------------------------------------------------
(* The administrator of the configuration.                                  *)

\* A secret left blank is the stored one, of the same issuer only.
KeptSecret(input) == {c.secret : c \in {x \in GetConfig : x.issuer = input.issuer}}

\* The configuration a submission stands for, with a new secret or the kept one.
Normalized(input) ==
    {[input.cfg EXCEPT !.secret = s] :
        s \in (IF input.secretGiven THEN {input.cfg.issuer} ELSE KeptSecret(input.cfg))}

\* SaveConfig validates; without a usable secret it stops here.
SaveConfig(r, input) ==
    /\ saver[r].pc = "idle" /\ ssoLicensed /\ saves < MaxSaves
    /\ \E c \in Normalized(input) :
          SavesWait(r, [pc |-> IF c.enabled THEN "discover" ELSE "write", cfg |-> c])
    /\ saves' = saves + 1
    /\ UNCHANGED <<ssoConfig, ssoLicensed, cachedProvider, signIn, admitted, sent, Tables>>

\* discoverProvider: an enabled configuration is tested live, or refused.
DiscoverProvider(r) ==
    /\ saver[r].pc = "discover"
    /\ \/ /\ cachedProvider' = [issuer |-> saver[r].cfg.issuer, provider |-> saver[r].cfg.issuer]
          /\ SavesWait(r, [saver[r] EXCEPT !.pc = "write"])
       \/ SavesWait(r, NoSave) /\ UNCHANGED cachedProvider
    /\ UNCHANGED <<ssoConfig, ssoLicensed, signIn, admitted, sent, Tables, saves>>

\* UpsertSSOConfig writes the whole row.
UpsertSSOConfig(r) ==
    /\ saver[r].pc = "write"
    /\ ssoConfig' = {saver[r].cfg}
    /\ SavesWait(r, NoSave)
    /\ UNCHANGED <<ssoLicensed, cachedProvider, signIn, admitted, sent, Tables, saves>>

DeleteSSOConfig ==
    /\ ssoConfig # {} /\ ssoLicensed
    /\ ssoConfig' = {}
    /\ UNCHANGED <<ssoLicensed, cachedProvider, saver, signIn, admitted, sent, Tables, saves>>

\* The licence is removed; or the master key changes under the sealed secret.
LoseLicence ==
    /\ ssoLicensed /\ ssoLicensed' = FALSE
    /\ UNCHANGED <<ssoConfig, cachedProvider, saver, signIn, admitted, sent, Tables, saves>>

ChangeMasterKey ==
    /\ GetConfig # {}
    /\ ssoConfig' = {[c EXCEPT !.secret = "unreadable"] : c \in ssoConfig}
    /\ UNCHANGED <<ssoLicensed, cachedProvider, saver, signIn, admitted, sent, Tables, saves>>

-----------------------------------------------------------------------------
(* Signing in.                                                               *)

\* BeginLogin sends the browser to the provider.
BeginLogin(r) ==
    /\ signIn[r].pc = "idle"
    /\ \E c \in activeConfig :
          /\ cachedProvider' = Provider(c.issuer)
          /\ SignInBecomes(r, [NoSignIn EXCEPT !.pc = "away", !.at = Provider(c.issuer).provider])
    /\ UNCHANGED <<ssoConfig, ssoLicensed, saver, admitted, sent, Tables, saves>>

\* emailFromClaims: the email claim, or else preferred_username, which nobody verified.
EmailOf(who) == IF who.email # "" THEN who.email ELSE who.preferred_username
Verified(who) == who.email # "" /\ who.verified

\* The email is one the provider vouches for, and checkSignInRestrictions.
Admitted(c, who) ==
    /\ EmailOf(who) # ""
    /\ Verified(who) \/ c.trust
    /\ c.groups = {} \/ c.groups \cap who.groups # {}

\* CallbackHandler and the first half of CompleteLogin: the configuration is read
\* again, and the code goes with its secret to the token endpoint, which knows only
\* its own codes.
CompleteLogin(r, who) ==
    /\ signIn[r].pc = "away"
    /\ IF activeConfig = {}
       THEN SignInBecomes(r, NoSignIn) /\ UNCHANGED <<cachedProvider, sent>>
       ELSE \E c \in activeConfig :
              LET p == Provider(c.issuer) IN
              /\ cachedProvider' = p
              /\ sent' = sent \cup {<<p.provider, c.secret>>}
              /\ SignInBecomes(r, IF signIn[r].at = p.provider /\ Admitted(c, who)
                                  THEN [signIn[r] EXCEPT !.pc = "subject", !.cfg = c, !.who = who]
                                  ELSE NoSignIn)
    /\ UNCHANGED <<ssoConfig, ssoLicensed, saver, admitted, Tables, saves>>

Identity(r) == <<signIn[r].cfg.issuer, signIn[r].who.subject>>

\* GetUserBySSOSubject.
FindUserBySubject(r) ==
    /\ signIn[r].pc = "subject"
    /\ SignInBecomes(r, IF Identity(r) \in DOMAIN identities
                        THEN [signIn[r] EXCEPT !.pc = "issue", !.user = identities[Identity(r)],
                                               !.enabled = members[identities[Identity(r)]].enabled]
                        ELSE [signIn[r] EXCEPT !.pc = "email"])
    /\ UNCHANGED <<ssoConfig, ssoLicensed, cachedProvider, saver, admitted, sent, Tables, saves>>

WithEmail(email) == {u \in DOMAIN members : members[u].email = email}

\* GetUserByEmail: link the account, or provision one.
GetUserByEmail(r) ==
    LET found == WithEmail(EmailOf(signIn[r].who)) IN
    /\ signIn[r].pc = "email"
    /\ IF found = {} THEN SignInBecomes(r, [signIn[r] EXCEPT !.pc = "provision"])
       ELSE \E u \in found :
              SignInBecomes(r, [signIn[r] EXCEPT !.pc = "link", !.user = u,
                                                 !.enabled = members[u].enabled])
    /\ UNCHANGED <<ssoConfig, ssoLicensed, cachedProvider, saver, admitted, sent, Tables, saves>>

\* A sign-in that is between its lookups and its writes.
Resolving(r) == signIn[r].pc \in {"subject", "email", "link", "provision"}

\* The account a sign-in creates is one another identity is being given, by its email.
Meddles(r) ==
    \E q \in SignIns : /\ Resolving(q) /\ Identity(q) # Identity(r)
                        /\ EmailOf(signIn[q].who) = EmailOf(signIn[r].who)

\* resolveUser retries once what another sign-in did first.
AlreadyExists(r) ==
    SignInBecomes(r, IF signIn[r].retried THEN [NoSignIn EXCEPT !.pc = "refused"]
                     ELSE [signIn[r] EXCEPT !.pc = "subject", !.retried = TRUE])

\* InsertSSOIdentity: the primary key, and the account must still be there.
LinkIdentity(r) ==
    /\ signIn[r].pc = "link"
    /\ IF signIn[r].user \notin DOMAIN members
       THEN SignInBecomes(r, NoSignIn) /\ UNCHANGED identities
       ELSE IF Identity(r) \in DOMAIN identities
            THEN AlreadyExists(r) /\ UNCHANGED identities
            ELSE /\ identities' = [i \in DOMAIN identities \cup {Identity(r)} |->
                                      IF i = Identity(r) THEN signIn[r].user ELSE identities[i]]
                 /\ SignInBecomes(r, [signIn[r] EXCEPT !.pc = "issue"])
    /\ UNCHANGED <<ssoConfig, ssoLicensed, cachedProvider, saver, admitted, sent, members, born,
                   meddled, saves>>

\* Mutant: the two rows are not one transaction, and the second may be lost.
TwoInserts(r, u) ==
    /\ members' = [m \in DOMAIN members \cup {u} |->
                      IF m = u THEN [email |-> EmailOf(signIn[r].who), password |-> FALSE,
                                     enabled |-> ~signIn[r].cfg.manual]
                      ELSE members[m]]
    /\ identities' \in {identities, [i \in DOMAIN identities \cup {Identity(r)} |->
                                        IF i = Identity(r) THEN u ELSE identities[i]]}

\* The transaction of ProvisionUser.
ProvisionRows(r, u) ==
    /\ members' = [m \in DOMAIN members \cup {u} |->
                      IF m = u THEN [email |-> EmailOf(signIn[r].who), password |-> FALSE,
                                     enabled |-> ~signIn[r].cfg.manual]
                      ELSE members[m]]
    /\ identities' = [i \in DOMAIN identities \cup {Identity(r)} |->
                         IF i = Identity(r) THEN u ELSE identities[i]]

\* ProvisionUser: users.email is unique, and so is the identity.
ProvisionUser(r) ==
    /\ signIn[r].pc = "provision"
    /\ IF WithEmail(EmailOf(signIn[r].who)) # {} \/ Identity(r) \in DOMAIN identities
       THEN AlreadyExists(r) /\ UNCHANGED <<members, identities, born, meddled>>
       ELSE /\ born < MaxMembers
            /\ born' = born + 1
            /\ meddled' = (meddled \/ Meddles(r))
            /\ ProvisionRows(r, born')
            /\ SignInBecomes(r, [signIn[r] EXCEPT !.pc = "issue", !.user = born',
                                                   !.enabled = ~signIn[r].cfg.manual])
    /\ UNCHANGED <<ssoConfig, ssoLicensed, cachedProvider, saver, admitted, sent, saves>>

\* The second half of CompleteLogin, with the account as it was read: a disabled one
\* waits for approval, and IssueSession needs the row for its refresh token.
IssueSession(r) ==
    /\ signIn[r].pc = "issue"
    /\ SignInBecomes(r, NoSignIn)
    /\ admitted' = IF signIn[r].enabled /\ signIn[r].user \in DOMAIN members
                  THEN admitted \cup {[identity |-> Identity(r), user |-> signIn[r].user]}
                  ELSE admitted
    /\ UNCHANGED <<ssoConfig, ssoLicensed, cachedProvider, saver, sent, Tables, saves>>

-----------------------------------------------------------------------------
(* Administrators and accounts.                                             *)

\* CreateUser, unless single sign-on is in force.
CreateMember(email) ==
    /\ ~SSOEnabled /\ born < MaxMembers /\ WithEmail(email) = {}
    /\ born' = born + 1
    /\ members' = [u \in DOMAIN members \cup {born'} |->
                      IF u = born' THEN [email |-> email, password |-> TRUE, enabled |-> TRUE]
                      ELSE members[u]]
    /\ meddled' = (meddled \/ \E r \in SignIns : Resolving(r))
    /\ UNCHANGED <<ssoConfig, ssoLicensed, identities, cachedProvider, saver, signIn, admitted, sent,
                   saves>>

\* DeleteUser; sso_identities.user_id cascades.
DeleteMember(u) ==
    LET kept == {i \in DOMAIN identities : identities[i] # u} IN
    /\ members' = [m \in DOMAIN members \ {u} |-> members[m]]
    /\ identities' = [i \in kept |-> identities[i]]
    /\ meddled' = (meddled \/ \E r \in SignIns : Resolving(r))
    /\ UNCHANGED <<ssoConfig, ssoLicensed, cachedProvider, saver, signIn, admitted, sent, born, saves>>

\* SetUserEnabled: an account is approved.
ApproveMember(u) ==
    /\ ~members[u].enabled
    /\ members' = [members EXCEPT ![u].enabled = TRUE]
    /\ UNCHANGED <<ssoConfig, ssoLicensed, identities, cachedProvider, saver, signIn, admitted, sent,
                   born, meddled, saves>>

SSONext ==
    \/ \E r \in Savers : (\E input \in Inputs : SaveConfig(r, input)) \/ DiscoverProvider(r)
                         \/ UpsertSSOConfig(r)
    \/ DeleteSSOConfig \/ LoseLicence \/ ChangeMasterKey
    \/ \E r \in SignIns : \/ BeginLogin(r) \/ (\E who \in Claims : CompleteLogin(r, who))
                          \/ FindUserBySubject(r) \/ GetUserByEmail(r) \/ LinkIdentity(r)
                          \/ ProvisionUser(r) \/ IssueSession(r)
    \/ \E who \in Claims : EmailOf(who) # "" /\ CreateMember(EmailOf(who))
    \/ \E u \in DOMAIN members : DeleteMember(u) \/ ApproveMember(u)

SSOSpec == SSOInit /\ [][SSONext]_ssoVars

-----------------------------------------------------------------------------
SSOTypeOK ==
    /\ Cardinality(ssoConfig) <= 1
    /\ DOMAIN members \subseteq 1..born
    /\ \A i \in DOMAIN identities : identities[i] \in DOMAIN members

\* A client secret only ever goes to the issuer it was entered for, whoever saves
\* another issuer between a save's read and its write, and whatever is cached.
SecretStaysWithIssuer == \A s \in sent : s[1] = s[2]

\* Everyone who signed in has the account their identity stands for, for as long
\* as the account exists: no other identity takes it over, and none moves.
SessionsFollowIdentities ==
    \A g \in admitted : g.user \in DOMAIN members =>
        g.identity \in DOMAIN identities /\ identities[g.identity] = g.user

\* No account is left that nobody can sign in to: it has a password or an identity.
NoOrphanAccount ==
    \A u \in DOMAIN members :
        members[u].password \/ \E i \in DOMAIN identities : identities[i] = u

\* Of several first sign-ins of one person every one ends with the account: the one
\* retry is enough, unless an account comes or goes meanwhile by other hands.
RetryIsEnough == (\E r \in SignIns : signIn[r].pc = "refused") => meddled

SignInSound == /\ SecretStaysWithIssuer
               /\ SessionsFollowIdentities
               /\ NoOrphanAccount
               /\ RetryIsEnough
=============================================================================
