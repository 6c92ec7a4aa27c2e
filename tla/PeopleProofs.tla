------------------------------ MODULE PeopleProofs -----------------------------
(* Theorems about the people of the site, and what is done in their names, for *)
(* any numbers of users, browsers, applications, workers and requests.         *)
EXTENDS Lock, Accounts, SignIn, Grants, Crowdsourcing, FiniteSetTheorems, SequenceTheorems, TLAPS

-----------------------------------------------------------------------------
(* Applications with a user's consent.                                        *)

(* What a code gives the user has authorized since he last revoked it, if it is *)
(* not from before; what a permission gives, and a refresh that has found it,   *)
(* he has too, or a code from before was exchanged for it.                      *)
CodesHaveConsent == \A g \in codes \ before.codes : g.scope \subseteq consent[g.app]
Consented(a) == consent[a] \cup returned[a]
PermissionsHaveConsent == \A a \in Apps : permission[a] \subseteq Consented(a)
RefreshesHaveConsent == \A g \in refreshing \ before.refreshing : g.scope \subseteq Consented(g.app)

GrantsInv ==
    GrantsTypeOK /\ CodesHaveConsent /\ PermissionsHaveConsent /\ RefreshesHaveConsent /\ AccessHasConsent

LEMMA GrantsInitInv == GrantsInit => GrantsInv
BY DEF GrantsInit, GrantsInv, GrantsTypeOK, CodesHaveConsent, PermissionsHaveConsent,
       RefreshesHaveConsent, AccessHasConsent, Consented

\* A permission is revoked: what there is of codes, refreshes and tokens is from before.
LEMMA RevokeKeepsInv ==
    ASSUME GrantsInv, NEW a \in Apps, RevokePermission(a)
    PROVE  GrantsInv'
<1> USE DEF RevokePermission, Grant, Of
<1>0. GrantsTypeOK
  BY DEF GrantsInv
<1>1. GrantsTypeOK'
  BY <1>0 DEF GrantsTypeOK
<1>2. \A b \in Apps : b # a => consent'[b] = consent[b] /\ returned'[b] = returned[b]
                               /\ permission'[b] = permission[b]
  BY <1>0 DEF GrantsTypeOK
<1>3. /\ \A g \in codes' \ before'.codes : g \in codes \ before.codes /\ g.app # a
      /\ \A g \in refreshing' \ before'.refreshing : g \in refreshing \ before.refreshing /\ g.app # a
      /\ \A g \in tokens' \ before'.tokens : g \in tokens \ before.tokens /\ g.app # a
  OBVIOUS
<1>4. \A g \in codes \cup refreshing \cup tokens : g.app \in Apps
  BY <1>0 DEF GrantsTypeOK
<1>5. permission'[a] = {}
  BY <1>0 DEF GrantsTypeOK
<1>6. CodesHaveConsent'
  BY <1>2, <1>3, <1>4 DEF GrantsInv, CodesHaveConsent
<1>7. PermissionsHaveConsent'
  BY <1>2, <1>5 DEF GrantsInv, PermissionsHaveConsent, Consented
<1>8. RefreshesHaveConsent'
  BY <1>2, <1>3, <1>4 DEF GrantsInv, RefreshesHaveConsent, Consented
<1>9. AccessHasConsent'
  BY <1>2, <1>3, <1>4 DEF GrantsInv, AccessHasConsent
<1> QED
  BY <1>1, <1>6, <1>7, <1>8, <1>9 DEF GrantsInv

\* A user authorizes more.
LEMMA AuthorizeKeepsInv ==
    ASSUME GrantsInv, NEW g \in Grant, Authorize(g)
    PROVE  GrantsInv'
<1> USE DEF GrantsInv, Authorize, Grant, ScopeSets
<1>1. GrantsTypeOK'
  BY DEF GrantsTypeOK
<1>2. g.app \in Apps /\ consent'[g.app] = consent[g.app] \cup g.scope
      /\ \A a \in Apps : consent[a] \subseteq consent'[a]
  BY DEF GrantsTypeOK
<1>3. \A h \in codes \cup refreshing \cup tokens : h.app \in Apps
  BY DEF GrantsTypeOK
<1>4. CodesHaveConsent'
  BY <1>2, <1>3 DEF CodesHaveConsent
<1>5. PermissionsHaveConsent'
  BY <1>2 DEF PermissionsHaveConsent, Consented
<1>6. RefreshesHaveConsent'
  BY <1>2, <1>3 DEF RefreshesHaveConsent, Consented
<1>7. AccessHasConsent'
  BY <1>2, <1>3 DEF AccessHasConsent
<1> QED
  BY <1>1, <1>4, <1>5, <1>6, <1>7

\* A code that is exchanged is from before, or gives what is consented to.
LEMMA ExchangeKeepsInv ==
    ASSUME GrantsInv, NEW g \in Grant, NEW commits \in BOOLEAN, Exchange(g, commits)
    PROVE  GrantsInv'
<1> USE DEF GrantsInv, Exchange
<1>1. GrantsTypeOK'
  BY DEF GrantsTypeOK, Grant, ScopeSets
<1>2. /\ g.app \in Apps
      /\ \A a \in Apps : returned[a] \subseteq returned'[a] /\ consent'[a] = consent[a]
  BY DEF GrantsTypeOK, Grant
<1>3. g.scope \subseteq consent'[g.app] \cup returned'[g.app]
  <2>1. CASE g \in before.codes
    BY <1>2, <2>1 DEF GrantsTypeOK
  <2>2. CASE g \notin before.codes
    BY <2>2 DEF CodesHaveConsent
  <2> QED
    BY <2>1, <2>2
<1>4. /\ permission'[g.app] \subseteq permission[g.app] \cup g.scope
      /\ \A a \in Apps : a # g.app => permission'[a] = permission[a]
  BY <1>2 DEF GrantsTypeOK
<1>5. \A h \in refreshing \cup tokens : h.app \in Apps
  BY DEF GrantsTypeOK, Grant
<1>6. CodesHaveConsent'
  BY DEF CodesHaveConsent
<1>7. PermissionsHaveConsent'
  BY <1>2, <1>3, <1>4 DEF PermissionsHaveConsent, Consented
<1>8. RefreshesHaveConsent'
  BY <1>2, <1>5 DEF RefreshesHaveConsent, Consented
<1>9. AccessHasConsent'
  BY <1>2, <1>3, <1>5 DEF AccessHasConsent
<1> QED
  BY <1>1, <1>6, <1>7, <1>8, <1>9

\* An application has another token made: the permission is found first, and may be gone
\* when the token is.
LEMMA RefreshKeepsInv ==
    ASSUME GrantsInv, NEW g \in Grant, CheckPermission(g) \/ IssueToken(g) \/ ExpireGrant(g)
    PROVE  GrantsInv'
<1> USE DEF GrantsInv, Grant, ScopeSets
<1>1. CASE CheckPermission(g)
  BY <1>1 DEF CheckPermission, Permitted, GrantsTypeOK, CodesHaveConsent, PermissionsHaveConsent,
              RefreshesHaveConsent, AccessHasConsent, Consented
<1>2. CASE IssueToken(g)
  <2>1. GrantsTypeOK'
    BY <1>2 DEF IssueToken, GrantsTypeOK
  <2>2. CodesHaveConsent' /\ PermissionsHaveConsent' /\ RefreshesHaveConsent'
    BY <1>2 DEF IssueToken, GrantsTypeOK, CodesHaveConsent, PermissionsHaveConsent,
                RefreshesHaveConsent, Consented
  <2>3. AccessHasConsent'
    BY <1>2 DEF IssueToken, GrantsTypeOK, RefreshesHaveConsent, AccessHasConsent, Consented
  <2> QED
    BY <2>1, <2>2, <2>3
<1>3. CASE ExpireGrant(g)
  BY <1>3 DEF ExpireGrant, Expire, GrantsTypeOK, CodesHaveConsent, PermissionsHaveConsent,
              RefreshesHaveConsent, AccessHasConsent, Consented
<1> QED
  BY <1>1, <1>2, <1>3

LEMMA GrantsNextInv == GrantsInv /\ [GrantsNext]_grantVars => GrantsInv'
<1> SUFFICES ASSUME GrantsInv, [GrantsNext]_grantVars PROVE GrantsInv'
  OBVIOUS
<1>1. ASSUME NEW a \in Apps, CreateClient(a) PROVE GrantsInv'
  BY <1>1 DEF CreateClient, GrantsInv, GrantsTypeOK, CodesHaveConsent,
              PermissionsHaveConsent, RefreshesHaveConsent, AccessHasConsent, Consented
<1>2. CASE UNCHANGED grantVars
  BY <1>2 DEF grantVars, GrantsInv, GrantsTypeOK, CodesHaveConsent, PermissionsHaveConsent,
              RefreshesHaveConsent, AccessHasConsent, Consented
<1> QED
  BY <1>1, <1>2, RevokeKeepsInv, AuthorizeKeepsInv, ExchangeKeepsInv, RefreshKeepsInv DEF GrantsNext

(* oauth2.ts, the exchanges of codes and refresh tokens: a token gives what    *)
(* the user has authorized since he last revoked it, however many refresh      *)
(* tokens are kept and whenever their permission was looked for - but for the  *)
(* tokens and refreshes from before, and what a code from before brought back. *)
THEOREM AccessNeedsConsent == GrantsSpec => []AccessHasConsent
<1>1. GrantsInv => AccessHasConsent
  BY DEF GrantsInv
<1> QED
  BY <1>1, GrantsInitInv, GrantsNextInv, PTL DEF GrantsSpec

-----------------------------------------------------------------------------
(* How people get in.                                                         *)

(* A browser whose session says that the second factor was shown showed it, or *)
(* it skips it; so a factor that is set up later finds no session that does    *)
(* not know of it.                                                             *)
CompletedIsProved ==
    \A b \in Browsers :
        session[b].completed2fa /\ Who(b) # NoOne => <<b, Who(b)>> \in proved \/ b \in remembered

EditingTypeOK == editing \in [Browsers -> (People \X Addresses) \cup {NoOne}]

SignInInv ==
    SignInTypeOK /\ EditingTypeOK /\ CompletedIsProved /\ SecondFactorShown /\ VerifiedIsProved

LEMMA SignInInitInv == SignInInit => SignInInv
<1> SUFFICES ASSUME SignInInit PROVE SignInInv
  OBVIOUS
<1> USE SignInAssumption DEF SignInInit
<1>1. SignInTypeOK
  BY DEF SignInTypeOK, LoggedOut
<1>2. EditingTypeOK
  BY DEF EditingTypeOK
<1>3. CompletedIsProved /\ SecondFactorShown /\ VerifiedIsProved
  BY DEF CompletedIsProved, SecondFactorShown, VerifiedIsProved, Has, Authenticated, Who, LoggedOut
<1> QED
  BY <1>1, <1>2, <1>3 DEF SignInInv

\* The second factor counts as shown where a session says that it was.
LEMMA CompletedSuffices == CompletedIsProved => SecondFactorShown
BY DEF CompletedIsProved, SecondFactorShown, Authenticated

\* A browser gets into an account: what its session says is what was proved.
LEMMA EntersIsProved ==
    ASSUME SignInInv, NEW b \in Browsers, NEW u \in People, NEW completed \in BOOLEAN,
           Enters(b, u, completed), proved \subseteq proved', remembered \subseteq remembered',
           remembered' \subseteq Browsers,
           completed => <<b, u>> \in proved' \/ b \in remembered'
    PROVE  /\ session' \in [Browsers -> [who : People \cup {NoOne}, completed2fa : BOOLEAN]]
           /\ CompletedIsProved'
<1> USE DEF SignInInv, SignInTypeOK, Enters, Who
<1>1. session' \in [Browsers -> [who : People \cup {NoOne}, completed2fa : BOOLEAN]]
  OBVIOUS
<1>2. session'[b] = [who |-> u, completed2fa |-> completed]
      /\ \A c \in Browsers : c # b => session'[c] = session[c]
  OBVIOUS
<1>3. CompletedIsProved'
  BY <1>2 DEF CompletedIsProved
<1> QED
  BY <1>1, <1>3

\* An address that counts as verified did so before, or was proved now.
LEMMA VerifiedStays ==
    ASSUME VerifiedIsProved, vouched \subseteq vouched', kept \subseteq kept',
           \A u \in People : Has(u)' /\ account'[u].email_verified =>
              \/ Has(u) /\ account[u].email_verified /\ account'[u].email = account[u].email
              \/ <<u, account'[u].email>> \in vouched' \cup kept'
    PROVE  VerifiedIsProved'
BY DEF VerifiedIsProved

LEMMA SignUpKeepsInv ==
    ASSUME SignInInv, NEW b \in Browsers, NEW u \in People, NEW e \in Emails, SignUp(b, u, e)
    PROVE  SignInInv'
<1> USE SignInAssumption DEF SignInInv, SignInTypeOK, SignUp, SendValidationEmail
<1>1. account' \in [People -> Account \cup {NoOne, Deleted}]
  BY DEF Account, Addresses
<1>2. VerifiedIsProved'
  <2>1. account'[u].email_verified = FALSE /\ \A v \in People : v # u => account'[v] = account[v]
    OBVIOUS
  <2> QED
    BY <2>1, VerifiedStays DEF Has
<1>3. CompletedIsProved' /\ session' \in [Browsers -> [who : People \cup {NoOne}, completed2fa : BOOLEAN]]
  BY EntersIsProved
<1>4. EditingTypeOK'
  BY DEF EditingTypeOK
<1>5. links' \cup vouched' \cup kept' \subseteq People \X Addresses
  BY DEF Addresses
<1> QED
  BY <1>1, <1>2, <1>3, <1>4, <1>5, CompletedSuffices DEF CompletedIsProved, SecondFactorShown, Authenticated

LEMMA LoginKeepsInv ==
    ASSUME SignInInv, NEW b \in Browsers, NEW u \in People,
           \/ Login(b, u) \/ AppLogin(b, u) \/ RecoveryContinue(b, u) \/ SetupSecond(b)
           \/ \E remember \in BOOLEAN : SecondLogin(b, remember)
    PROVE  SignInInv'
<1> USE SignInAssumption DEF SignInInv, SignInTypeOK
<1>1. Who(b) \in People \cup {NoOne}
  BY DEF Who
<1>2. /\ account' \in [People -> Account \cup {NoOne, Deleted}]
      /\ \A v \in People : Has(v)' =>
            /\ Has(v) /\ account'[v].email = account[v].email
            /\ account'[v].email_verified = account[v].email_verified
  <2>1. CASE account' = account
    BY <2>1 DEF Has
  <2>2. CASE RecoveryContinue(b, u)
    BY <2>2, ZenonT(200) DEF RecoveryContinue, ResetPassword, Has, Account
  <2>3. CASE SetupSecond(b)
    BY <1>1, <2>3, ZenonT(200) DEF SetupSecond, Authenticated, Has, Account
  <2> QED
    BY <2>1, <2>2, <2>3 DEF Login, AppLogin, SecondLogin
<1>3. UNCHANGED <<links, recoveries, editing, vouched, kept>>
  BY DEF Login, AppLogin, RecoveryContinue, SetupSecond, SecondLogin
<1>4. VerifiedIsProved'
  BY <1>2, <1>3, VerifiedStays
<1>5. \E v \in People, completed \in BOOLEAN :
         /\ Enters(b, v, completed)
         /\ completed => <<b, v>> \in proved' \/ b \in remembered'
         /\ proved \subseteq proved' /\ remembered \subseteq remembered' /\ remembered' \subseteq Browsers
  <2>1. CASE Login(b, u)
    <3>1. CASE b \in remembered
      <4>1. Enters(b, u, TRUE)
        BY <2>1, <3>1 DEF Login, AfterPassword, Enters
      <4> QED
        BY <2>1, <3>1, <4>1 DEF Login
    <3>2. CASE b \notin remembered
      <4>1. Enters(b, u, FALSE)
        <5>1. (b \in remembered) = FALSE
          BY <3>2
        <5>2. Enters(b, u, b \in remembered)
          BY <2>1, Zenon DEF Login, AfterPassword
        <5> QED
          BY <5>1, <5>2, Zenon
      <4> QED
        BY <2>1, <4>1 DEF Login
    <3> QED
      BY <3>1, <3>2
  <2>2. CASE RecoveryContinue(b, u)
    BY <2>2 DEF RecoveryContinue
  <2>5. CASE AppLogin(b, u)
    BY <2>5 DEF AppLogin
  <2>3. CASE SetupSecond(b)
    BY <1>1, <2>3 DEF SetupSecond, Authenticated
  <2>4. ASSUME NEW remember \in BOOLEAN, SecondLogin(b, remember)
        PROVE  /\ Who(b) \in People /\ Enters(b, Who(b), TRUE) /\ <<b, Who(b)>> \in proved'
               /\ proved \subseteq proved' /\ remembered \subseteq remembered'
               /\ remembered' \subseteq Browsers
    BY <1>1, <2>4 DEF SecondLogin
  <2> QED
    BY <2>1, <2>2, <2>3, <2>4, <2>5
<1>6. CompletedIsProved' /\ session' \in [Browsers -> [who : People \cup {NoOne}, completed2fa : BOOLEAN]]
  BY <1>5, EntersIsProved
<1>7. EditingTypeOK'
  BY <1>3 DEF EditingTypeOK
<1>8. remembered' \subseteq Browsers
  BY <1>5
<1> QED
  BY <1>2, <1>3, <1>4, <1>6, <1>7, <1>8 DEF CompletedIsProved, SecondFactorShown, Authenticated

\* An identity is linked with one account, new or old.
LEMMA FromIdentityType ==
    ASSUME SignInInv, NEW i \in Identities, NEW u \in People, FromIdentity(i, u)
    PROVE  /\ account' \in [People -> Account \cup {NoOne, Deleted}]
           /\ \A v \in People : Has(v)' =>
                 \/ /\ Has(v) /\ account'[v].email = account[v].email
                    /\ account'[v].email_verified = account[v].email_verified
                 \/ v = u /\ account[u] = NoOne /\ account'[u].email = MailOf[i]
<1> USE SignInAssumption DEF SignInInv, SignInTypeOK
<1> DEFINE new == [email |-> MailOf[i], email_verified |-> MailOf[i] # NoEmail, password |-> FALSE,
                   totp_key |-> FALSE, identities |-> {i}]
<1>1. CASE account' = account
  BY <1>1 DEF Has
<1>2. CASE Has(u) /\ account' = [account EXCEPT ![u].identities = Linked(u, i)]
  <2>1. Linked(u, i) \subseteq Identities
    BY <1>2 DEF Linked, Has, Account
  <2> QED
    BY <1>2, <2>1 DEF Has, Account
<1>3. CASE account[u] = NoOne /\ account' = [account EXCEPT ![u] = new]
  <2>1. new \in Account
    BY DEF Account, Addresses
  <2> QED
    BY <1>3, <2>1 DEF Has
<1> QED
  BY <1>1, <1>2, <1>3 DEF FromIdentity

LEMMA IdentityKeepsInv ==
    ASSUME SignInInv, NEW b \in Browsers, NEW i \in Identities, NEW u \in People,
           LinkIdentity(b, i) \/ ByIdentity(b, i, u)
    PROVE  SignInInv'
<1> USE SignInAssumption DEF SignInInv, SignInTypeOK
<1>1. CASE ByIdentity(b, i, u)
  <2>1. /\ account' \in [People -> Account \cup {NoOne, Deleted}]
        /\ \A v \in People : Has(v)' =>
              \/ /\ Has(v) /\ account'[v].email = account[v].email
                 /\ account'[v].email_verified = account[v].email_verified
              \/ v = u /\ account[u] = NoOne /\ account'[u].email = MailOf[i]
    BY <1>1, FromIdentityType DEF ByIdentity
  <2>2. /\ vouched' \subseteq People \X Addresses /\ vouched \subseteq vouched'
        /\ account[u] = NoOne => <<u, MailOf[i]>> \in vouched'
    BY <1>1 DEF ByIdentity, Addresses
  <2>3. UNCHANGED <<remembered, links, recoveries, editing, kept>>
    BY <1>1 DEF ByIdentity
  <2>4. VerifiedIsProved'
    BY <2>1, <2>2, <2>3, VerifiedStays
  <2>5. CompletedIsProved' /\ session' \in [Browsers -> [who : People \cup {NoOne}, completed2fa : BOOLEAN]]
    BY <1>1, EntersIsProved DEF ByIdentity, Callback
  <2> QED
    BY <2>1, <2>2, <2>3, <2>4, <2>5
    DEF EditingTypeOK, CompletedIsProved, SecondFactorShown, Authenticated
<1>2. CASE LinkIdentity(b, i)
  <2> DEFINE v == Who(b)
  <2>1. v \in People /\ Has(v)
    BY <1>2 DEF LinkIdentity, Authenticates, Asks, Who
  <2>2. Linked(v, i) \subseteq Identities
    BY <2>1 DEF Linked, Has, Account
  <2>3. /\ account' = [account EXCEPT ![v].identities = Linked(v, i)] /\ Callback(b, v)
        /\ UNCHANGED <<remembered, links, recoveries, editing, vouched, kept>>
    BY <1>2 DEF LinkIdentity
  <2> HIDE DEF v
  <2>4. /\ account' \in [People -> Account \cup {NoOne, Deleted}]
        /\ \A w \in People : Has(w)' =>
              /\ Has(w) /\ account'[w].email = account[w].email
              /\ account'[w].email_verified = account[w].email_verified
    BY <2>1, <2>2, <2>3 DEF Has, Account
  <2>5. VerifiedIsProved'
    BY <2>3, <2>4, VerifiedStays
  <2>6. CompletedIsProved' /\ session' \in [Browsers -> [who : People \cup {NoOne}, completed2fa : BOOLEAN]]
    BY <2>1, <2>3, EntersIsProved DEF Callback
  <2> QED
    BY <2>3, <2>4, <2>5, <2>6
    DEF EditingTypeOK, CompletedIsProved, SecondFactorShown, Authenticated
<1> QED
  BY <1>1, <1>2

\* Who goes out leaves nothing behind.
LEMMA LeaveKeepsInv ==
    ASSUME SignInInv, NEW b \in Browsers, Logout(b) \/ DeleteAccount(b)
    PROVE  SignInInv'
<1> USE SignInAssumption DEF SignInInv, SignInTypeOK
<1>1. /\ session' = [session EXCEPT ![b] = LoggedOut] \/ session' = [session EXCEPT ![b].who = NoOne]
      /\ UNCHANGED <<remembered, links, recoveries, editing, proved, vouched, kept>>
      /\ account' = account \/ account' = [account EXCEPT ![Who(b)] = Deleted]
  BY DEF Logout, DeleteAccount
<1>2. account' \in [People -> Account \cup {NoOne, Deleted}]
      /\ \A v \in People : Has(v)' => Has(v) /\ account'[v] = account[v]
  BY <1>1 DEF Has
<1>3. VerifiedIsProved'
  BY <1>1, <1>2, VerifiedStays
<1>4. /\ session' \in [Browsers -> [who : People \cup {NoOne}, completed2fa : BOOLEAN]]
      /\ session'[b].who = NoOne /\ \A c \in Browsers : c # b => session'[c] = session[c]
  <2>1. CASE session' = [session EXCEPT ![b] = LoggedOut]
    BY <2>1 DEF LoggedOut
  <2>2. CASE session' = [session EXCEPT ![b].who = NoOne]
    <3>1. /\ [session[b] EXCEPT !.who = NoOne] \in [who : People \cup {NoOne}, completed2fa : BOOLEAN]
          /\ [session[b] EXCEPT !.who = NoOne].who = NoOne
      OBVIOUS
    <3> QED
      BY <2>2, <3>1
  <2> QED
    BY <1>1, <2>1, <2>2
<1>5. CompletedIsProved'
  BY <1>1, <1>4 DEF CompletedIsProved, Who
<1> QED
  BY <1>1, <1>2, <1>3, <1>4, <1>5 DEF EditingTypeOK, CompletedIsProved, SecondFactorShown, Authenticated

\* Links are followed, and profiles are saved, long after they were made.
LEMMA ProfileKeepsInv ==
    ASSUME SignInInv, NEW b \in Browsers,
           \/ \E link \in links : VerifyEmail(b, link)
           \/ \E e \in Addresses, commits \in BOOLEAN : SaveProfile(b, e, commits)
           \/ EditProfile(b)
    PROVE  SignInInv'
<1> USE SignInAssumption DEF SignInInv, SignInTypeOK
<1>1. UNCHANGED <<session, remembered, proved>>
  BY DEF VerifyEmail, SaveProfile, EditProfile
<1>2. CompletedIsProved' /\ SecondFactorShown'
  <2>1. CompletedIsProved'
    BY <1>1 DEF CompletedIsProved, Who
  <2> QED
    BY <2>1 DEF CompletedIsProved, SecondFactorShown, Authenticated
<1>3. ASSUME NEW link \in links, VerifyEmail(b, link) PROVE SignInInv'
  <2> DEFINE u == Who(b)
  <2>1. u \in People /\ Has(u) /\ account[u] \in Account
    BY <1>3 DEF VerifyEmail, Authenticated, Has, Who
  <2>2. /\ vouched' = vouched \cup {link}
        /\ UNCHANGED <<session, remembered, links, recoveries, editing, proved, kept>>
        /\ \/ account' = account
           \/ /\ account' = [account EXCEPT ![u].email_verified = TRUE]
              /\ link = <<u, account[u].email>>
    BY <1>3 DEF VerifyEmail, IsFor
  <2> HIDE DEF u
  <2>3. account' \in [People -> Account \cup {NoOne, Deleted}]
    <3>1. [account[u] EXCEPT !.email_verified = TRUE] \in Account
      BY <2>1 DEF Account
    <3> QED
      BY <2>1, <2>2, <3>1, ZenonT(200)
  <2>4. VerifiedIsProved'
    BY <2>1, <2>2, VerifiedStays DEF Has, Account
  <2>5. vouched' \subseteq People \X Addresses
    BY <2>2
  <2> QED
    BY <1>2, <2>2, <2>3, <2>4, <2>5, SMTT(60) DEF EditingTypeOK
<1>4. ASSUME NEW e \in Addresses, NEW commits \in BOOLEAN, SaveProfile(b, e, commits) PROVE SignInInv'
  <2> DEFINE u == editing[b][1]
             copy == editing[b][2]
  <2>1. u \in People /\ copy \in Addresses
    BY <1>4 DEF SaveProfile, EditingTypeOK
  <2>2. /\ UNCHANGED <<session, remembered, recoveries, proved, vouched>>
        /\ links' = links \/ links' = links \cup {<<u, e>>}
        /\ editing' = [editing EXCEPT ![b] = NoOne]
        /\ \/ UNCHANGED <<account, kept>>
           \/ /\ account' = [account EXCEPT ![u].email = e, ![u].email_verified = (e = copy)]
              /\ kept' = IF e = copy THEN kept \cup {<<u, e>>} ELSE kept
              /\ Has(u)
    BY <1>4 DEF SaveProfile, SendValidationEmail
  <2> HIDE DEF u, copy
  <2>3. account' \in [People -> Account \cup {NoOne, Deleted}]
    BY <2>1, <2>2 DEF Account, Has
  <2>4. VerifiedIsProved'
    <3>1. CASE UNCHANGED <<account, kept>>
      BY <2>2, <3>1, VerifiedStays DEF Has
    <3>2. CASE /\ account' = [account EXCEPT ![u].email = e, ![u].email_verified = (e = copy)]
               /\ kept' = IF e = copy THEN kept \cup {<<u, e>>} ELSE kept
               /\ Has(u)
      <4>1. account[u] \in Account
        BY <2>1, <3>2 DEF Has
      <4>2. account'[u].email = e /\ (account'[u].email_verified <=> e = copy)
        BY <2>1, <3>2, <4>1 DEF Account
      <4>3. \A v \in People : v # u => account'[v] = account[v]
        BY <3>2
      <4> QED
        BY <2>2, <3>2, <4>2, <4>3, VerifiedStays DEF Has
    <3> QED
      BY <2>2, <3>1, <3>2
  <2>5. EditingTypeOK'
    BY <2>2 DEF EditingTypeOK
  <2>6. links' \cup vouched' \cup kept' \subseteq People \X Addresses
    BY <2>1, <2>2
  <2> QED
    BY <1>2, <2>2, <2>3, <2>4, <2>5, <2>6
<1>5. CASE EditProfile(b)
  <2>1. Who(b) \in People /\ account[Who(b)].email \in Addresses
    BY <1>5 DEF EditProfile, Authenticated, Has, Who, Account
  <2>2. EditingTypeOK' /\ UNCHANGED <<account, links, recoveries, vouched, kept>>
    BY <1>5, <2>1 DEF EditProfile, EditingTypeOK
  <2>3. VerifiedIsProved'
    BY <2>2 DEF VerifiedIsProved, Has
  <2> QED
    BY <1>1, <1>2, <2>2, <2>3
<1> QED
  BY <1>3, <1>4, <1>5, SMTT(60)

\* Passwords, and the mails.
LEMMA PasswordKeepsInv ==
    ASSUME SignInInv, NEW b \in Browsers,
           \/ ResendVerification(b) \/ ChangePassword(b)
           \/ \E u \in People : RecoveryStart(b, u)
    PROVE  SignInInv'
<1> USE SignInAssumption DEF SignInInv, SignInTypeOK
<1>1. UNCHANGED <<session, remembered, editing, proved, vouched, kept>>
  BY DEF ResendVerification, ChangePassword, RecoveryStart
<1>2. /\ account' \in [People -> Account \cup {NoOne, Deleted}]
      /\ \A v \in People : Has(v)' =>
            /\ Has(v) /\ account'[v].email = account[v].email
            /\ account'[v].email_verified = account[v].email_verified
  <2>1. CASE account' = account
    BY <2>1 DEF Has
  <2>2. CASE ChangePassword(b)
    BY <2>2, ZenonT(200) DEF ChangePassword, ResetPassword, Authenticated, Who, Has, Account
  <2> QED
    BY <2>1, <2>2 DEF ResendVerification, RecoveryStart
<1>3. links' \subseteq People \X Addresses
  <2>1. CASE ResendVerification(b)
    <3>1. Who(b) \in People /\ account[Who(b)].email \in Addresses
      BY <2>1 DEF ResendVerification, Authenticated, Has, Who, Account
    <3> QED
      BY <2>1, <3>1 DEF ResendVerification, SendValidationEmail
  <2> QED
    BY <2>1 DEF ChangePassword, RecoveryStart
<1>4. recoveries' \subseteq People
  BY DEF ResendVerification, ChangePassword, RecoveryStart, SendRecoveryEmail
<1>5. VerifiedIsProved'
  BY <1>1, <1>2, VerifiedStays
<1>6. CompletedIsProved'
  BY <1>1 DEF CompletedIsProved, Who
<1> QED
  BY <1>1, <1>2, <1>3, <1>4, <1>5, <1>6
  DEF EditingTypeOK, CompletedIsProved, SecondFactorShown, Authenticated

LEMMA SignInNextInv == SignInInv /\ [SignInNext]_signInVars => SignInInv'
<1> SUFFICES ASSUME SignInInv, [SignInNext]_signInVars PROVE SignInInv'
  OBVIOUS
<1>1. ASSUME NEW b \in Browsers, NEW i \in Identities, LinkIdentity(b, i) PROVE SignInInv'
  <2>1. Who(b) \in People
    BY <1>1 DEF LinkIdentity, Authenticates, Who, SignInInv, SignInTypeOK
  <2> QED
    BY <1>1, <2>1, IdentityKeepsInv
<1>2. ASSUME NEW b \in Browsers, SetupSecond(b) \/ \E remember \in BOOLEAN : SecondLogin(b, remember)
      PROVE  SignInInv'
  <2>1. Who(b) \in People
    BY <1>2 DEF SetupSecond, Authenticated, SecondLogin, Who, SignInInv, SignInTypeOK
  <2> QED
    BY <1>2, <2>1, LoginKeepsInv
<1>3. CASE UNCHANGED signInVars
  BY <1>3 DEF signInVars, SignInInv, SignInTypeOK, EditingTypeOK, CompletedIsProved,
              SecondFactorShown, VerifiedIsProved, Has, Authenticated, Who
<1>4. ASSUME NEW b \in Browsers, NEW u \in People,
             \/ \E e \in Emails : SignUp(b, u, e)
             \/ Login(b, u) \/ AppLogin(b, u) \/ RecoveryContinue(b, u)
             \/ \E i \in Identities : ByIdentity(b, i, u)
      PROVE  SignInInv'
  BY <1>4, SignUpKeepsInv, LoginKeepsInv, IdentityKeepsInv
<1>5. ASSUME NEW b \in Browsers,
             \/ \E link \in links : VerifyEmail(b, link)
             \/ \E e \in Addresses, commits \in BOOLEAN : SaveProfile(b, e, commits)
             \/ EditProfile(b) \/ ResendVerification(b) \/ ChangePassword(b)
             \/ \E u \in People : RecoveryStart(b, u)
      PROVE  SignInInv'
  BY <1>5, ProfileKeepsInv, PasswordKeepsInv
<1>6. ASSUME NEW b \in Browsers, Logout(b) \/ DeleteAccount(b) PROVE SignInInv'
  BY <1>6, LeaveKeepsInv
<1> QED
  BY <1>1, <1>2, <1>3, <1>4, <1>5, <1>6 DEF SignInNext

(* passport.ts, routes/user.ts: a second factor was shown where it counts as   *)
(* shown, and an address that counts as verified was proved, in any order of   *)
(* logins, links, recoveries and changes of any number of browsers.            *)
THEOREM EntryNeedsProof == SignInSpec => []EntryIsProved
<1>1. SignInInv => EntryIsProved
  BY DEF SignInInv, EntryIsProved
<1> QED
  BY <1>1, SignInInitInv, SignInNextInv, PTL DEF SignInSpec

-----------------------------------------------------------------------------
(* Paraphrases that are used for training.                                    *)

(* The counters that are stored with a paraphrase are those of its answers,    *)
IsCounted(p) ==
    /\ paraphrases[p].accept_count = Cardinality(Said(p, "same"))
    /\ paraphrases[p].reject_count = Cardinality(Said(p, "different"))
    /\ paraphrases[p].training <=> /\ paraphrases[p].accept_count >= Target
                                   /\ paraphrases[p].reject_count = 0
CountsAreAnswers == \A p \in DOMAIN paraphrases : IsCounted(p)

(* because whoever answered about a paraphrase is in the log of its task, and  *)
(* nobody is before the tasks are made.                                        *)
AnswersAreLogged ==
    /\ \A p \in Ids, w \in Workers : answers[p][w] # {} =>
          p \in DOMAIN paraphrases /\ <<paraphrases[p].hit, w>> \in log
    /\ batch \in {"created", "paraphrasing"} => log = {}

CrowdInv == CrowdTypeOK /\ CountsAreAnswers /\ AnswersAreLogged

LEMMA SaidIsFinite ==
    ASSUME NEW p, NEW a
    PROVE  /\ Said(p, a) \subseteq Workers /\ IsFiniteSet(Said(p, a))
           /\ Cardinality(Said(p, a)) \in Nat
           /\ Cardinality(Said(p, a)) = 0 <=> Said(p, a) = {}
<1>1. Said(p, a) \in SUBSET Workers
  BY DEF Said
<1>2. IsFiniteSet(Said(p, a))
  BY <1>1, FS_Subset, CrowdAssumption
<1> QED
  BY <1>1, <1>2, FS_EmptySet, FS_CardinalityType

LEMMA FreshIsParaphrase == Fresh \in Paraphrase
BY DEF Fresh, Paraphrase, NoHit

LEMMA CrowdInitInv == CrowdInit => CrowdInv
<1> SUFFICES ASSUME CrowdInit PROVE CrowdInv
  OBVIOUS
<1> USE CrowdAssumption DEF CrowdInit
<1>1. Len(paraphrases) = 0 /\ DOMAIN paraphrases = {}
  OBVIOUS
<1>2. CrowdTypeOK
  BY <1>1 DEF CrowdTypeOK
<1>3. CountsAreAnswers /\ AnswersAreLogged
  BY <1>1 DEF CountsAreAnswers, AnswersAreLogged
<1> QED
  BY <1>2, <1>3 DEF CrowdInv

\* New paraphrases that nobody was asked about.
LEMMA SubmitKeepsInv ==
    ASSUME CrowdInv, NEW n \in 0..PerSubmission, Submit(n)
    PROVE  CrowdInv'
<1> USE CrowdAssumption DEF CrowdInv, CrowdTypeOK
<1> DEFINE more == [i \in 1..n |-> Fresh]
<1>1. more \in Seq(Paraphrase) /\ Len(more) = n
  <2>1. n \in Nat /\ more \in [1..n -> Paraphrase]
    BY FreshIsParaphrase
  <2> QED
    BY <2>1, SeqDef
<1>2. /\ paraphrases' = paraphrases \o more /\ Len(paraphrases) + n <= MaxParaphrases
      /\ batch' = "paraphrasing" /\ log = {} /\ UNCHANGED <<log, answers>>
  BY DEF Submit, AnswersAreLogged
<1>3. \A i \in 1..n : more[i] = Fresh
  OBVIOUS
<1> HIDE DEF more
<1>4. /\ paraphrases' \in Seq(Paraphrase) /\ Len(paraphrases') = Len(paraphrases) + n
      /\ \A p \in 1..(Len(paraphrases) + n) :
            paraphrases'[p] = IF p <= Len(paraphrases) THEN paraphrases[p] ELSE Fresh
  <2>1. /\ paraphrases \o more \in Seq(Paraphrase)
        /\ Len(paraphrases \o more) = Len(paraphrases) + Len(more)
        /\ \A p \in 1..(Len(paraphrases) + Len(more)) :
              (paraphrases \o more)[p] = IF p <= Len(paraphrases) THEN paraphrases[p]
                                        ELSE more[p - Len(paraphrases)]
    BY <1>1, ConcatProperties, ZenonT(60)
  <2>2. \A p \in 1..(Len(paraphrases) + n) : p <= Len(paraphrases) \/ p - Len(paraphrases) \in 1..n
    OBVIOUS
  <2> QED
    BY <1>1, <1>2, <1>3, <2>1, <2>2
<1>5. CrowdTypeOK'
  BY <1>2, <1>4
<1>6. \A p \in Ids, w \in Workers : answers[p][w] = {}
  BY <1>2 DEF AnswersAreLogged
<1>7. ASSUME NEW p \in DOMAIN paraphrases' PROVE IsCounted(p)'
  <2>1. p \in 1..(Len(paraphrases) + n) /\ p \in Ids
    BY <1>2, <1>4 DEF Ids
  <2>2. Said(p, "same") = {} /\ Said(p, "different") = {}
    BY <1>6, <2>1 DEF Said
  <2>3. Cardinality(Said(p, "same")) = 0 /\ Cardinality(Said(p, "different")) = 0
    BY <2>2, FS_EmptySet
  <2>4. Said(p, "same")' = Said(p, "same") /\ Said(p, "different")' = Said(p, "different")
    BY <1>2 DEF Said
  <2>5. CASE p <= Len(paraphrases)
    BY <1>4, <2>1, <2>4, <2>5, SMTT(60) DEF CountsAreAnswers, IsCounted
  <2>6. CASE ~(p <= Len(paraphrases))
    BY <1>4, <2>1, <2>3, <2>4, <2>6 DEF IsCounted, Fresh
  <2> QED
    BY <2>5, <2>6
<1>8. AnswersAreLogged'
  BY <1>2, <1>6 DEF AnswersAreLogged
<1> QED
  BY <1>5, <1>7, <1>8 DEF CountsAreAnswers

\* The tasks are made before anybody has answered.
LEMMA StartValidationKeepsInv ==
    ASSUME CrowdInv, StartValidation
    PROVE  CrowdInv'
<1> USE CrowdAssumption DEF CrowdInv, CrowdTypeOK
<1>1. PICK hit \in [DOMAIN paraphrases -> Hits] :
           paraphrases' = [p \in DOMAIN paraphrases |->
              IF Unvalidated(paraphrases[p]) THEN [paraphrases[p] EXCEPT !.hit = hit[p]]
              ELSE paraphrases[p]]
  BY DEF StartValidation
<1>2. batch' = "validating" /\ log = {} /\ UNCHANGED <<log, answers>>
  BY DEF StartValidation, AnswersAreLogged
<1>3. DOMAIN paraphrases = 1..Len(paraphrases) /\ Len(paraphrases) \in Nat
  OBVIOUS
<1>4. \A p \in DOMAIN paraphrases : paraphrases[p] \in Paraphrase
  OBVIOUS
<1>5. \A p \in DOMAIN paraphrases :
         /\ paraphrases'[p] \in Paraphrase
         /\ paraphrases'[p].accept_count = paraphrases[p].accept_count
         /\ paraphrases'[p].reject_count = paraphrases[p].reject_count
         /\ paraphrases'[p].training = paraphrases[p].training
  <2> SUFFICES ASSUME NEW p \in DOMAIN paraphrases
               PROVE  /\ paraphrases'[p] \in Paraphrase
                      /\ paraphrases'[p].accept_count = paraphrases[p].accept_count
                      /\ paraphrases'[p].reject_count = paraphrases[p].reject_count
                      /\ paraphrases'[p].training = paraphrases[p].training
    OBVIOUS
  <2>1. \/ paraphrases'[p] = paraphrases[p]
        \/ paraphrases'[p] = [paraphrases[p] EXCEPT !.hit = hit[p]]
    BY <1>1
  <2> QED
    BY <1>4, <2>1, ZenonT(60) DEF Paraphrase
<1>6. paraphrases' \in [1..Len(paraphrases) -> Paraphrase]
  BY <1>1, <1>3, <1>5
<1>7. paraphrases' \in Seq(Paraphrase) /\ Len(paraphrases') = Len(paraphrases)
      /\ DOMAIN paraphrases' = DOMAIN paraphrases
  BY <1>3, <1>6, SeqDef, SMTT(60)
<1>8. CrowdTypeOK'
  BY <1>2, <1>7
<1>9. CountsAreAnswers'
  BY <1>2, <1>5, <1>7, ZenonT(200) DEF CountsAreAnswers, IsCounted, Said
<1>10. AnswersAreLogged'
  BY <1>2 DEF AnswersAreLogged
<1> QED
  BY <1>8, <1>9, <1>10

LEMMA MarkGoodCounts ==
    ASSUME NEW q \in Paraphrase
    PROVE  /\ MarkGood(q) \in Paraphrase /\ MarkGood(q).hit = q.hit
           /\ MarkGood(q).accept_count = q.accept_count + 1
           /\ MarkGood(q).reject_count = q.reject_count
           /\ MarkGood(q).training <=>
                 q.training \/ (q.accept_count + 1 >= Target /\ q.reject_count = 0)
<1> USE CrowdAssumption
<1> DEFINE enough == q.accept_count + 1 >= Target /\ q.reject_count = 0
           t == q.training \/ enough
           n == q.accept_count + 1
<1>1. MarkGood(q) = [q EXCEPT !.accept_count = n, !.training = t]
  BY Zenon DEF MarkGood
<1>2. t \in BOOLEAN /\ n \in Nat
  BY DEF Paraphrase
<1> HIDE DEF t, n
<1>3. /\ MarkGood(q) \in Paraphrase /\ MarkGood(q).hit = q.hit
      /\ MarkGood(q).accept_count = n /\ MarkGood(q).reject_count = q.reject_count
      /\ MarkGood(q).training = t
  BY <1>1, <1>2 DEF Paraphrase
<1>4. MarkGood(q).training <=> q.training \/ enough
  BY <1>3, Zenon DEF t
<1> QED
  BY <1>3, <1>4 DEF n

LEMMA MarkBadCounts ==
    ASSUME NEW q \in Paraphrase
    PROVE  /\ MarkBad(q) \in Paraphrase /\ MarkBad(q).hit = q.hit
           /\ MarkBad(q).accept_count = q.accept_count
           /\ MarkBad(q).reject_count = q.reject_count + 1
           /\ ~MarkBad(q).training
<1> DEFINE n == q.reject_count + 1
<1>1. MarkBad(q) = [q EXCEPT !.reject_count = n, !.training = FALSE]
  BY DEF MarkBad
<1>2. n \in Nat
  BY DEF Paraphrase
<1> HIDE DEF n
<1>3. /\ MarkBad(q) \in Paraphrase /\ MarkBad(q).hit = q.hit
      /\ MarkBad(q).reject_count = n /\ MarkBad(q).accept_count = q.accept_count
      /\ MarkBad(q).training = FALSE
  BY <1>1, <1>2 DEF Paraphrase
<1> QED
  BY <1>3 DEF n

\* One more answer about a paraphrase, of somebody who has not answered yet.
LEMMA AnswerIsCounted ==
    ASSUME CrowdInv, NEW p \in DOMAIN paraphrases, NEW w \in Workers, NEW a \in Answers,
           answers[p][w] = {}, answers'[p] = [answers[p] EXCEPT ![w] = {a}],
           paraphrases'[p] = IF a = "same" THEN MarkGood(paraphrases[p]) ELSE MarkBad(paraphrases[p])
    PROVE  IsCounted(p)' /\ paraphrases'[p] \in Paraphrase /\ paraphrases'[p].hit = paraphrases[p].hit
<1> USE CrowdAssumption DEF CrowdInv, CrowdTypeOK, Ids
<1> DEFINE q == paraphrases[p]
<1>1. p \in Ids /\ q \in Paraphrase
  OBVIOUS
<1>2. IsCounted(p)
  BY DEF CountsAreAnswers
<1>3. /\ Said(p, a)' = Said(p, a) \cup {w} /\ w \notin Said(p, a)
      /\ \A b \in Answers : b # a => Said(p, b)' = Said(p, b)
  BY <1>1 DEF Said
<1>4. Cardinality(Said(p, a)') = Cardinality(Said(p, a)) + 1
  BY <1>3, SaidIsFinite, FS_AddElement
<1>5. /\ Cardinality(Said(p, "same")) \in Nat /\ Cardinality(Said(p, "different")) \in Nat
  BY SaidIsFinite
<1>6. CASE a = "same"
  <2>1. /\ Cardinality(Said(p, "same")') = q.accept_count + 1
        /\ Cardinality(Said(p, "different")') = q.reject_count
    BY <1>2, <1>3, <1>4, <1>6 DEF IsCounted, Answers
  <2>2. paraphrases'[p] = MarkGood(q)
    BY <1>6
  <2>3. /\ paraphrases'[p].accept_count = q.accept_count + 1
        /\ paraphrases'[p].reject_count = q.reject_count
        /\ paraphrases'[p].hit = q.hit
        /\ paraphrases'[p].training <=> q.training \/ (q.accept_count + 1 >= Target /\ q.reject_count = 0)
        /\ paraphrases'[p] \in Paraphrase
    BY <1>1, <2>2, MarkGoodCounts
  <2> QED
    BY <1>2, <1>5, <2>1, <2>3 DEF IsCounted
<1>7. CASE a # "same"
  <2>1. /\ Cardinality(Said(p, "same")') = q.accept_count
        /\ Cardinality(Said(p, "different")') = q.reject_count + 1
    BY <1>2, <1>3, <1>4, <1>7 DEF IsCounted, Answers
  <2>2. paraphrases'[p] = MarkBad(q)
    BY <1>7
  <2>3. /\ paraphrases'[p].accept_count = q.accept_count
        /\ paraphrases'[p].reject_count = q.reject_count + 1
        /\ paraphrases'[p].hit = q.hit
        /\ ~paraphrases'[p].training
        /\ paraphrases'[p] \in Paraphrase
    BY <1>1, <2>2, MarkBadCounts
  <2> QED
    BY <1>2, <1>5, <2>1, <2>3 DEF IsCounted
<1> QED
  BY <1>6, <1>7

LEMMA ValidateKeepsInv ==
    ASSUME CrowdInv, NEW w \in Workers, NEW h \in Hits, Validate(w, h)
    PROVE  CrowdInv'
<1> USE CrowdAssumption DEF CrowdInv, CrowdTypeOK
<1>1. PICK answer \in [InHit(h) -> Answers] :
          /\ paraphrases' = [p \in DOMAIN paraphrases |->
                IF p \notin InHit(h) THEN paraphrases[p]
                ELSE IF answer[p] = "same" THEN MarkGood(paraphrases[p]) ELSE MarkBad(paraphrases[p])]
          /\ answers' = [p \in Ids |->
                IF p \in InHit(h) THEN [answers[p] EXCEPT ![w] = @ \cup {answer[p]}] ELSE answers[p]]
  BY DEF Validate
<1>2. /\ <<h, w>> \notin log /\ log' = log \cup {<<h, w>>}
      /\ batch = "validating" /\ batch' = batch
  BY DEF Validate, AlreadySubmitted
<1>3. /\ DOMAIN paraphrases = 1..Len(paraphrases) /\ Len(paraphrases) \in Nat
      /\ DOMAIN paraphrases \subseteq Ids
  BY DEF Ids
<1>4. ASSUME NEW p \in InHit(h)
      PROVE  /\ p \in DOMAIN paraphrases /\ paraphrases[p].hit = h /\ answers[p][w] = {}
             /\ answers'[p] = [answers[p] EXCEPT ![w] = {answer[p]}]
             /\ IsCounted(p)' /\ paraphrases'[p] \in Paraphrase /\ paraphrases'[p].hit = h
  <2>1. p \in DOMAIN paraphrases /\ p \in Ids /\ paraphrases[p].hit = h
    BY <1>3 DEF InHit
  <2>2. answers[p][w] = {}
    BY <1>2, <2>1 DEF AnswersAreLogged
  <2>3. answers'[p] = [answers[p] EXCEPT ![w] = {answer[p]}]
    BY <1>1, <2>1, <2>2
  <2>4. answer[p] \in Answers
    BY <1>1
  <2>5. paraphrases'[p] = IF answer[p] = "same" THEN MarkGood(paraphrases[p])
                          ELSE MarkBad(paraphrases[p])
    BY <1>1, <2>1
  <2> QED
    BY <2>1, <2>2, <2>3, <2>4, <2>5, AnswerIsCounted
<1>5. ASSUME NEW p \in DOMAIN paraphrases, p \notin InHit(h)
      PROVE  /\ IsCounted(p)' /\ paraphrases'[p] = paraphrases[p] /\ answers'[p] = answers[p]
             /\ paraphrases'[p] \in Paraphrase
  <2>1. paraphrases'[p] = paraphrases[p] /\ answers'[p] = answers[p]
    BY <1>1, <1>3, <1>5
  <2>2. Said(p, "same")' = Said(p, "same") /\ Said(p, "different")' = Said(p, "different")
    BY <2>1 DEF Said
  <2>3. IsCounted(p) /\ paraphrases[p] \in Paraphrase
    BY DEF CountsAreAnswers
  <2> QED
    BY <2>1, <2>2, <2>3 DEF IsCounted
<1>6. paraphrases' \in [1..Len(paraphrases) -> Paraphrase]
  BY <1>1, <1>3, <1>4, <1>5
<1>7. paraphrases' \in Seq(Paraphrase) /\ Len(paraphrases') = Len(paraphrases)
      /\ DOMAIN paraphrases' = DOMAIN paraphrases
  BY <1>3, <1>6, SeqDef, SMTT(60)
<1>8. answers' \in [Ids -> [Workers -> SUBSET Answers]]
  BY <1>1
<1>9. CrowdTypeOK'
  BY <1>2, <1>7, <1>8
<1>10. CountsAreAnswers'
  BY <1>4, <1>5, <1>7 DEF CountsAreAnswers
<1>11. AnswersAreLogged'
  <2> SUFFICES ASSUME NEW p \in Ids, NEW v \in Workers, answers'[p][v] # {}
               PROVE  p \in DOMAIN paraphrases' /\ <<paraphrases'[p].hit, v>> \in log'
    BY <1>2 DEF AnswersAreLogged
  <2>1. CASE p \in InHit(h)
    <3>1. v = w \/ answers'[p][v] = answers[p][v]
      <4>1. answers[p] \in [Workers -> SUBSET Answers]
        OBVIOUS
      <4> QED
        BY <1>4, <2>1, <4>1
    <3> QED
      BY <1>2, <1>4, <1>7, <2>1, <3>1 DEF AnswersAreLogged
  <2>2. CASE p \notin InHit(h)
    <3>1. answers'[p] = answers[p]
      BY <1>1, <2>2
    <3> QED
      BY <1>2, <1>5, <1>7, <2>2, <3>1 DEF AnswersAreLogged
  <2> QED
    BY <2>1, <2>2
<1> QED
  BY <1>9, <1>10, <1>11

LEMMA CrowdNextInv == CrowdInv /\ [CrowdNext]_crowdVars => CrowdInv'
<1> SUFFICES ASSUME CrowdInv, [CrowdNext]_crowdVars PROVE CrowdInv'
  OBVIOUS
<1>1. CASE CloseBatch \/ UNCHANGED crowdVars
  <2>1. UNCHANGED <<paraphrases, log, answers>> /\ batch' \in {batch, "complete"}
    BY <1>1 DEF CloseBatch, crowdVars
  <2> QED
    BY <2>1 DEF CrowdInv, CrowdTypeOK, CountsAreAnswers, IsCounted, Said, AnswersAreLogged
<1> QED
  BY <1>1, SubmitKeepsInv, StartValidationKeepsInv, ValidateKeepsInv DEF CrowdNext

(* routes/mturk.ts: a paraphrase is used for training exactly when enough      *)
(* different workers found it the same as the sentence and nobody found it     *)
(* different, in whatever order answers come and are repeated.                 *)
THEOREM TrainingNeedsAgreement == CrowdSpec => []TrainingIsUnanimous
<1>1. CrowdInv => TrainingIsUnanimous
  <2> SUFFICES ASSUME CrowdInv, NEW p \in DOMAIN paraphrases
               PROVE  paraphrases[p].training <=> /\ Cardinality(Said(p, "same")) >= Target
                                                  /\ Said(p, "different") = {}
    BY DEF TrainingIsUnanimous
  <2> QED
    BY SaidIsFinite DEF CrowdInv, CountsAreAnswers, IsCounted
<1> QED
  BY <1>1, CrowdInitInv, CrowdNextInv, PTL DEF CrowdSpec

-----------------------------------------------------------------------------
(* The developer keys of engines.                                             *)

(* A request that is not over knows its user, and which row it is about.       *)
RequestsAreAbout ==
    \A r \in Requests :
        /\ request[r].stage = "open" => request[r].who \in Users /\ request[r].session \in Row
        /\ request[r].stage \in {"restart", "inside", "deleting"} => request[r].about \in Users

(* While a member is removed the row is locked by that request alone, and the  *)
(* engine that was started in the transaction has the key of the old row.      *)
Removes(r, u) == request[r].stage = "inside" /\ request[r].about = u
RowIsLocked ==
    \A r \in Requests, u \in Users : Removes(r, u) =>
        Exists(u) /\ HasKey(u) /\ \A q \in Requests : Removes(q, u) => q = r

Restarts(r, u) == request[r].about = u /\ request[r].stage \in {"restart", "inside"}

AccountsInv == AccountsTypeOK /\ RequestsAreAbout /\ RowIsLocked /\ KeyIsCurrent

LEMMA AccountsInitInv == AccountsInit => AccountsInv
<1> SUFFICES ASSUME AccountsInit PROVE AccountsInv
  OBVIOUS
<1> USE AccountsAssumption DEF AccountsInit
<1>1. FirstRow \in Row /\ Idle \in Request
  BY DEF FirstRow, Row, Idle, Request, Stages, Status, USER, ORG_ADMIN
<1>2. AccountsTypeOK
  BY <1>1 DEF AccountsTypeOK
<1>3. RequestsAreAbout /\ RowIsLocked
  BY DEF RequestsAreAbout, RowIsLocked, Removes, Idle
<1>4. KeyIsCurrent
  BY DEF KeyIsCurrent, HasKey
<1> QED
  BY <1>2, <1>3, <1>4 DEF AccountsInv

\* One request goes on; whom it is about.
LEMMA GoesType ==
    ASSUME AccountsInv, NEW r \in Requests, NEW stage \in Stages, NEW u \in Users \cup {Nobody},
           Goes(r, stage, u)
    PROVE  /\ request' \in [Requests -> Request]
           /\ \A q \in Requests : q # r => request'[q] = request[q]
           /\ request'[r].stage = stage
           /\ stage # "idle" => /\ request'[r].about = u
                                /\ request'[r].who = request[r].who
                                /\ request'[r].session = request[r].session
<1> USE DEF AccountsInv, AccountsTypeOK, Goes
<1>1. CASE stage = "idle"
  <2>1. Idle \in Request /\ Idle.stage = "idle"
    BY DEF Idle, Request, Stages
  <2> QED
    BY <1>1, <2>1
<1>2. CASE stage # "idle"
  <2> DEFINE q == [request[r] EXCEPT !.stage = stage, !.about = u]
  <2>1. /\ q \in Request /\ q.stage = stage /\ q.about = u
        /\ q.who = request[r].who /\ q.session = request[r].session
    BY ZenonT(60) DEF Request
  <2>2. request' = [request EXCEPT ![r] = q]
    BY <1>2
  <2> HIDE DEF q
  <2> QED
    BY <2>1, <2>2
<1> QED
  BY <1>1, <1>2

\* What happens to one row, and one request about it, is nothing to the others.
LEMMA OthersKeepKeys ==
    ASSUME AccountsInv, NEW r \in Requests, NEW u \in Users,
           \A q \in Requests : q # r => request'[q] = request[q],
           \A v \in Users : v # u =>
              user'[v] = user[v] /\ engine'[v] = engine[v] /\ unseen'[v] = unseen[v],
           request[r].stage \in {"restart", "inside"} => request[r].about = u,
           unseen'[u] = "nothing" /\ ~Restarts(r, u)' /\ (\A q \in Requests : q # r => ~Restarts(q, u))
              => HasKey(u)'
    PROVE  KeyIsCurrent'
<1>1. ASSUME NEW v \in Users, unseen'[v] = "nothing", ~Restarting(v)' PROVE HasKey(v)'
  <2>1. \A q \in Requests : ~Restarts(q, v)'
    BY <1>1 DEF Restarting, Restarts
  <2>2. \A q \in Requests : q # r => ~Restarts(q, v)
    BY <2>1 DEF Restarts
  <2>3. CASE v = u
    BY <1>1, <2>1, <2>2, <2>3
  <2>4. CASE v # u
    <3>1. ~Restarting(v)
      BY <2>2, <2>4 DEF Restarting, Restarts
    <3>2. HasKey(v)
      BY <1>1, <2>4, <3>1 DEF AccountsInv, KeyIsCurrent
    <3> QED
      BY <2>4, <3>2 DEF HasKey, Exists
  <2> QED
    BY <2>3, <2>4
<1> QED
  BY <1>1 DEF KeyIsCurrent

LEMMA OthersKeepLocks ==
    ASSUME AccountsInv, NEW r \in Requests, NEW u \in Users,
           \A q \in Requests : q # r => request'[q] = request[q],
           \A v \in Users : v # u => user'[v] = user[v] /\ engine'[v] = engine[v],
           request'[r].stage # "inside",
           (\E q \in Requests : q # r /\ Removes(q, u)) => Exists(u)' /\ HasKey(u)'
    PROVE  RowIsLocked'
<1>1. \A q \in Requests, v \in Users : Removes(q, v)' => q # r /\ Removes(q, v)
  BY DEF Removes
<1>2. ASSUME NEW q \in Requests, NEW v \in Users, Removes(q, v)' PROVE Exists(v)' /\ HasKey(v)'
  <2>1. q # r /\ Removes(q, v) /\ Exists(v) /\ HasKey(v)
    BY <1>1, <1>2 DEF AccountsInv, RowIsLocked
  <2>2. CASE v = u
    BY <2>1, <2>2
  <2>3. CASE v # u
    BY <2>1, <2>3 DEF Exists, HasKey
  <2> QED
    BY <2>2, <2>3
<1>3. \A p, q \in Requests, v \in Users : Removes(p, v)' /\ Removes(q, v)' => p = q
  BY <1>1 DEF AccountsInv, RowIsLocked
<1> QED
  BY <1>2, <1>3 DEF RowIsLocked

\* A transaction that changes a row: the engine is restarted, or its key stays.
LEMMA UpdatesKeepsInv ==
    ASSUME AccountsInv, NEW r \in Requests, NEW u \in Users, NEW row \in Row,
           NEW stage \in {"idle", "restart"}, Updates(r, u, row, stage),
           stage = "idle" => row.org = user[u].org,
           founded' \subseteq Companies, invitations' \subseteq Invitation
    PROVE  AccountsInv'
<1> USE DEF AccountsInv, Updates, Open
<1>1. /\ request' \in [Requests -> Request]
      /\ \A q \in Requests : q # r => request'[q] = request[q]
      /\ request'[r].stage = stage
      /\ stage # "idle" => request'[r].about = u
  BY GoesType DEF Stages
<1>2. /\ user' = [user EXCEPT ![u] = row] /\ UNCHANGED <<engine, unseen>>
      /\ Exists(u) /\ request[r].stage = "open" /\ \A q \in Requests : ~Removes(q, u)
  BY DEF Locked, Removes
<1>3. AccountsTypeOK'
  BY <1>1, <1>2 DEF AccountsTypeOK
<1>4. RequestsAreAbout'
  BY <1>1 DEF RequestsAreAbout
<1>5. \A v \in Users : v # u =>
          user'[v] = user[v] /\ engine'[v] = engine[v] /\ unseen'[v] = unseen[v]
  BY <1>2 DEF AccountsTypeOK
<1>6. RowIsLocked'
  BY <1>1, <1>2, <1>5, OthersKeepLocks
<1>7. ASSUME unseen'[u] = "nothing", ~Restarts(r, u)', \A q \in Requests : q # r => ~Restarts(q, u)
      PROVE  HasKey(u)'
  <2>1. stage = "idle"
    BY <1>1, <1>7 DEF Restarts
  <2>2. HasKey(u)
    BY <1>2, <1>7 DEF KeyIsCurrent, Restarting, Restarts
  <2> QED
    BY <1>2, <2>1, <2>2 DEF HasKey, Exists, AccountsTypeOK
<1>8. KeyIsCurrent'
  BY <1>1, <1>2, <1>5, <1>7, OthersKeepKeys
<1> QED
  BY <1>3, <1>4, <1>6, <1>8

\* A request that begins, or that is over without a change.
LEMMA OnlyRequestKeepsInv ==
    ASSUME AccountsInv, NEW r \in Requests, UNCHANGED <<user, engine, unseen, founded>>,
           request' \in [Requests -> Request],
           \A q \in Requests : q # r => request'[q] = request[q],
           request[r].stage # "restart", request'[r].stage \in {"idle", "open"},
           request'[r].stage = "open" => request'[r].who \in Users /\ request'[r].session \in Row,
           invitations' \subseteq Invitation
    PROVE  AccountsInv'
<1> USE DEF AccountsInv
<1>1. AccountsTypeOK' /\ RequestsAreAbout'
  BY DEF AccountsTypeOK, RequestsAreAbout
<1>2. \A q \in Requests, v \in Users : Removes(q, v)' => Removes(q, v)
  BY DEF Removes
<1>3. RowIsLocked'
  BY <1>2 DEF RowIsLocked, Exists, HasKey
<1>4. ASSUME NEW v \in Users, unseen'[v] = "nothing", ~Restarting(v)' PROVE HasKey(v)'
  <2>1. CASE Removes(r, v)
    BY <2>1 DEF RowIsLocked, Exists, HasKey
  <2>2. CASE ~Removes(r, v)
    <3>1. ~Restarting(v)
      BY <1>4, <2>2 DEF Restarting, Removes
    <3> QED
      BY <1>4, <3>1 DEF KeyIsCurrent, Exists, HasKey
  <2> QED
    BY <2>1, <2>2
<1> QED
  BY <1>1, <1>3, <1>4 DEF KeyIsCurrent

LEMMA RequestKeepsInv ==
    ASSUME AccountsInv, NEW r \in Requests, NEW u \in Users,
           \/ Session(r, u) \/ RescindInvitation(r, u) \/ Refuse(r)
           \/ \E s \in Status : AddMember(r, u, s)
    PROVE  AccountsInv'
<1> USE DEF AccountsInv
<1>1. CASE Session(r, u)
  <2>1. /\ request[r].stage = "idle" /\ user[u] \in Row
        /\ UNCHANGED <<user, founded, invitations, engine, unseen>>
        /\ request' = [request EXCEPT ![r] =
                          [stage |-> "open", who |-> u, session |-> user[u], about |-> Nobody]]
    BY <1>1 DEF Session, NewRequest, Exists, AccountsTypeOK
  <2>2. request' \in [Requests -> Request]
    BY <2>1 DEF Request, Stages, AccountsTypeOK
  <2>3. /\ \A q \in Requests : q # r => request'[q] = request[q]
        /\ request'[r].stage = "open" /\ request'[r].who = u /\ request'[r].session = user[u]
    BY <2>1 DEF AccountsTypeOK
  <2> QED
    BY <2>1, <2>2, <2>3, OnlyRequestKeepsInv DEF AccountsTypeOK
<1>2. CASE RescindInvitation(r, u) \/ \E s \in Status : AddMember(r, u, s)
  <2>1. /\ Open(r) /\ IsOrgAdmin(r) /\ Goes(r, "idle", u)
        /\ UNCHANGED <<user, founded, engine, unseen>>
    BY <1>2 DEF RescindInvitation, AddMember
  <2>2. Mine(r) \in Companies
    BY <2>1 DEF Open, IsOrgAdmin, Mine, RequestsAreAbout, Row
  <2>3. invitations' \subseteq Invitation
    BY <1>2, <2>2 DEF RescindInvitation, AddMember, Invitation, AccountsTypeOK
  <2>4. /\ request' \in [Requests -> Request] /\ request'[r].stage = "idle"
        /\ \A q \in Requests : q # r => request'[q] = request[q]
    BY <2>1, GoesType DEF Stages
  <2> QED
    BY <2>1, <2>3, <2>4, OnlyRequestKeepsInv DEF Open
<1>3. CASE Refuse(r)
  <2>1. /\ request' \in [Requests -> Request] /\ request'[r].stage = "idle"
        /\ \A q \in Requests : q # r => request'[q] = request[q]
    BY <1>3, GoesType DEF Refuse, Stages
  <2> QED
    BY <1>3, <2>1, OnlyRequestKeepsInv DEF Refuse, AccountsTypeOK
<1> QED
  BY <1>1, <1>2, <1>3

\* Rows of developers.
LEMMA MakeDeveloperType ==
    ASSUME NEW u \in Users, user[u] \in Row, NEW org \in Companies \cup {Nobody}, NEW s \in Status
    PROVE  MakeDeveloper(u, org, s) \in Row
<1>1. USER \in Status
  BY DEF USER, ORG_ADMIN, Status
<1> QED
  BY <1>1 DEF MakeDeveloper, Row

\* The requests of users about themselves.
LEMMA OwnRowKeepsInv ==
    ASSUME AccountsInv, NEW r \in Requests,
           \/ \E org \in Companies : RequestDeveloper(r, org)
           \/ \E i \in invitations : AcceptInvitation(r, i)
           \/ \E l \in Locales, commits \in BOOLEAN : Profile(r, l, commits)
    PROVE  AccountsInv'
<1> DEFINE u == Self(r)
<1>1. u \in Users /\ user[u] \in Row
  BY DEF RequestDeveloper, AcceptInvitation, Profile, Updates, Open, Self, Exists,
         AccountsInv, AccountsTypeOK, RequestsAreAbout
<1>2. USER \in Status /\ ORG_ADMIN \in Status
  BY DEF USER, ORG_ADMIN, Status
<1>3. ASSUME NEW org \in Companies, RequestDeveloper(r, org) PROVE AccountsInv'
  <2>1. MakeDeveloper(u, org, ORG_ADMIN) \in Row
    BY <1>1, <1>2, MakeDeveloperType
  <2>2. /\ Updates(r, u, MakeDeveloper(u, org, ORG_ADMIN), "restart")
        /\ founded' = founded \cup {org} /\ invitations' = invitations
    BY <1>3 DEF RequestDeveloper, AfterNewOrg
  <2> QED
    BY <1>1, <2>1, <2>2, UpdatesKeepsInv DEF AccountsInv, AccountsTypeOK
<1>4. ASSUME NEW i \in invitations, AcceptInvitation(r, i) PROVE AccountsInv'
  <2>1. i.org \in Companies /\ i.status \in Status
    BY DEF AccountsInv, AccountsTypeOK, Invitation
  <2>2. MakeDeveloper(u, i.org, i.status) \in Row
    BY <1>1, <2>1, MakeDeveloperType
  <2>3. /\ Updates(r, u, MakeDeveloper(u, i.org, i.status), "restart")
        /\ founded' = founded /\ invitations' \subseteq invitations
    BY <1>4 DEF AcceptInvitation
  <2> QED
    BY <1>1, <2>2, <2>3, UpdatesKeepsInv DEF AccountsInv, AccountsTypeOK
<1>5. ASSUME NEW l \in Locales, NEW commits \in BOOLEAN, Profile(r, l, commits) PROVE AccountsInv'
  <2> DEFINE row == IF commits THEN [user[u] EXCEPT !.locale = l] ELSE user[u]
             stage == IF l # request[r].session.locale THEN "restart" ELSE "idle"
  <2>1. row \in Row /\ row.org = user[u].org /\ stage \in {"idle", "restart"}
    BY <1>1 DEF Row
  <2>2. Updates(r, u, row, stage) /\ UNCHANGED <<founded, invitations>>
    BY <1>5 DEF Profile
  <2> HIDE DEF row, stage
  <2> QED
    BY <1>1, <2>1, <2>2, UpdatesKeepsInv DEF AccountsInv, AccountsTypeOK
<1> QED
  BY <1>3, <1>4, <1>5

\* A change of the status leaves the organization, and with it the key.
LEMMA StatusChangeKeepsInv ==
    ASSUME AccountsInv, NEW r \in Requests, NEW u \in Users, NEW s \in Status,
           UNCHANGED <<founded, invitations>>,
           Updates(r, u, [user[u] EXCEPT !.status = s], "idle")
    PROVE  AccountsInv'
<1> DEFINE row == [user[u] EXCEPT !.status = s]
<1>1. user[u] \in Row
  BY DEF Updates, Exists, AccountsInv, AccountsTypeOK
<1>2. row \in Row /\ row.org = user[u].org
  BY <1>1 DEF Row
<1>3. Updates(r, u, row, "idle")
  OBVIOUS
<1> HIDE DEF row
<1> QED
  BY <1>2, <1>3, UpdatesKeepsInv DEF AccountsInv, AccountsTypeOK

\* The requests of the administrators of an organization, and of the site.
LEMMA OthersRowKeepsInv ==
    ASSUME AccountsInv, NEW r \in Requests, NEW u \in Users,
           \/ Promote(r, u) \/ Demote(r, u) \/ AdminDemote(r, u) \/ RevokeDeveloper(r, u)
           \/ \E org \in Companies : AdminPromote(r, u, org)
           \/ \E org \in Companies, s \in {USER, USER + 1} : AdminAddMember(r, u, org, s)
    PROVE  AccountsInv'
<1>1. user[u] \in Row
  BY DEF Promote, Demote, AdminDemote, RevokeDeveloper, AdminPromote, AdminAddMember, InMyOrg, Exists,
         AccountsInv, AccountsTypeOK
<1>2. /\ user[u].status \in Status
      /\ user[u].status < ORG_ADMIN => user[u].status + 1 \in Status
      /\ user[u].status > USER => user[u].status - 1 \in Status
  BY <1>1 DEF Row, Status, USER, ORG_ADMIN
<1>3. USER \in Status /\ USER + 1 \in Status /\ ORG_ADMIN \in Status
  BY DEF USER, ORG_ADMIN, Status
<1>4. CASE Promote(r, u)
  BY <1>2, <1>4, StatusChangeKeepsInv DEF Promote, StatusChange
<1>5. CASE Demote(r, u) \/ AdminDemote(r, u)
  BY <1>2, <1>5, StatusChangeKeepsInv DEF Demote, AdminDemote, StatusChange
<1>6. CASE RevokeDeveloper(r, u)
  <2>1. MakeDeveloper(u, Nobody, USER) \in Row
    BY <1>1, <1>3, MakeDeveloperType
  <2> QED
    BY <1>6, <2>1, UpdatesKeepsInv DEF RevokeDeveloper, AccountsInv, AccountsTypeOK
<1>7. ASSUME NEW org \in Companies, AdminPromote(r, u, org) PROVE AccountsInv'
  <2>1. CASE user[u].org = Nobody
    <3>1. MakeDeveloper(u, org, ORG_ADMIN) \in Row
      BY <1>1, <1>3, MakeDeveloperType
    <3>2. /\ Updates(r, u, MakeDeveloper(u, org, ORG_ADMIN), "restart")
          /\ founded' = founded \cup {org} /\ invitations' = invitations
      BY <1>7, <2>1 DEF AdminPromote
    <3> QED
      BY <3>1, <3>2, UpdatesKeepsInv DEF AccountsInv, AccountsTypeOK
  <2>2. CASE user[u].org # Nobody
    <3>1. /\ Updates(r, u, [user[u] EXCEPT !.status = user[u].status + 1], "idle")
          /\ UNCHANGED <<founded, invitations>>
          /\ user[u].status < ORG_ADMIN
      BY <1>7, <2>2 DEF AdminPromote
    <3> QED
      BY <1>2, <3>1, StatusChangeKeepsInv
  <2> QED
    BY <2>1, <2>2
<1>8. ASSUME NEW org \in Companies, NEW s \in {USER, USER + 1}, AdminAddMember(r, u, org, s)
      PROVE  AccountsInv'
  <2>1. MakeDeveloper(u, org, s) \in Row
    BY <1>1, <1>3, MakeDeveloperType
  <2> QED
    BY <1>8, <2>1, UpdatesKeepsInv DEF AdminAddMember, AccountsInv, AccountsTypeOK
<1> QED
  BY <1>4, <1>5, <1>6, <1>7, <1>8

\* A new user: nothing was ever said of his engine.
LEMMA RegisterKeepsInv ==
    ASSUME AccountsInv, NEW r \in Requests, NEW u \in Users, Register(r, u)
    PROVE  AccountsInv'
<1> USE AccountsAssumption DEF AccountsInv, Register, NewRequest
<1> DEFINE row == [org |-> Nobody, status |-> USER, locale |-> DefaultLocale]
<1>1. row \in Row
  BY DEF Row, Status, USER, ORG_ADMIN
<1>2. user' = [user EXCEPT ![u] = row] /\ UNCHANGED <<founded, invitations, engine, unseen>>
  OBVIOUS
<1> HIDE DEF row
<1>3. /\ request' \in [Requests -> Request]
      /\ \A q \in Requests : q # r => request'[q] = request[q]
      /\ request'[r].stage = "restart" /\ request'[r].about = u
  BY GoesType DEF Stages
<1>4. \A v \in Users : v # u =>
          user'[v] = user[v] /\ engine'[v] = engine[v] /\ unseen'[v] = unseen[v]
  BY <1>2 DEF AccountsTypeOK
<1>5. AccountsTypeOK'
  BY <1>1, <1>2, <1>3 DEF AccountsTypeOK
<1>6. RequestsAreAbout'
  BY <1>3 DEF RequestsAreAbout
<1>7. \A q \in Requests : ~Removes(q, u)
  BY DEF RowIsLocked
<1>8. RowIsLocked'
  BY <1>3, <1>4, <1>7, OthersKeepLocks
<1>9. KeyIsCurrent'
  BY <1>3, <1>4, OthersKeepKeys DEF Restarts
<1> QED
  BY <1>5, <1>6, <1>8, <1>9

\* An engine is started with the row that is there.
LEMMA StartsHasKey ==
    ASSUME AccountsTypeOK, NEW u \in Users, user[u] \in Row, Starts(u), user' = user
    PROVE  /\ engine' \in [Users -> [org : Companies \cup {Nobody}, locale : Locales] \cup {Nobody}]
           /\ unseen' \in [Users -> {"nothing", "failed", "removed", "deleted"}]
           /\ HasKey(u)'
           /\ \A v \in Users : v # u => engine'[v] = engine[v] /\ unseen'[v] = unseen[v]
<1>1. /\ Given(user[u]) \in [org : Companies \cup {Nobody}, locale : Locales]
      /\ Given(user[u]).org = user[u].org
  BY DEF Given, Row
<1> QED
  BY <1>1 DEF Starts, AccountsTypeOK, HasKey

\* The end of a restart, and the commits of removals and deletions.
LEMMA EndKeepsInv ==
    ASSUME AccountsInv, NEW r \in Requests,
           Restart(r) \/ RestartFails(r) \/ RemoveCommits(r) \/ DeleteCommits(r)
    PROVE  AccountsInv'
<1> USE AccountsAssumption DEF AccountsInv
<1>1. /\ request[r].stage \in {"restart", "inside", "deleting"} /\ Goes(r, "idle", request[r].about)
      /\ UNCHANGED <<founded, invitations>>
  BY DEF Restart, RestartFails, RemoveCommits, DeleteCommits
<1>2. PICK u \in Users : u = request[r].about
  BY <1>1 DEF RequestsAreAbout
<1>3. /\ request' \in [Requests -> Request] /\ request'[r].stage = "idle"
      /\ \A q \in Requests : q # r => request'[q] = request[q]
  BY <1>1, <1>2, GoesType DEF Stages
<1>4. RequestsAreAbout'
  BY <1>3 DEF RequestsAreAbout
<1>5. SUFFICES /\ user' \in [Users -> Row \cup {Nobody}]
               /\ engine' \in [Users -> [org : Companies \cup {Nobody}, locale : Locales] \cup {Nobody}]
               /\ unseen' \in [Users -> {"nothing", "failed", "removed", "deleted"}]
               /\ \A v \in Users : v # u =>
                     user'[v] = user[v] /\ engine'[v] = engine[v] /\ unseen'[v] = unseen[v]
               /\ (\E q \in Requests : q # r /\ Removes(q, u)) => Exists(u)' /\ HasKey(u)'
               /\ unseen'[u] = "nothing" => HasKey(u)'
  BY <1>1, <1>2, <1>3, <1>4, OthersKeepKeys, OthersKeepLocks, SMTT(60) DEF AccountsTypeOK
<1>6. CASE Restart(r)
  <2>1. user' = user
    BY <1>6 DEF Restart
  <2>2. CASE Exists(u)
    <3>1. Starts(u) /\ user[u] \in Row
      BY <1>2, <1>6, <2>2 DEF Restart, Exists, AccountsTypeOK
    <3> QED
      BY <1>2, <2>1, <2>2, <3>1, StartsHasKey DEF AccountsTypeOK, Exists
  <2>3. CASE ~Exists(u)
    <3>1. engine' = [engine EXCEPT ![u] = Nobody] /\ unseen' = unseen
      BY <1>2, <1>6, <2>3 DEF Restart
    <3>2. \A q \in Requests : ~Removes(q, u)
      BY <1>2, <2>3 DEF RowIsLocked
    <3> QED
      BY <1>2, <2>1, <3>1, <3>2 DEF AccountsTypeOK, HasKey
  <2> QED
    BY <2>2, <2>3
<1>7. CASE RestartFails(r)
  <2>1. /\ UNCHANGED <<user, engine>>
        /\ unseen' = [unseen EXCEPT ![u] = IF @ = "deleted" THEN @ ELSE "failed"]
    BY <1>2, <1>7 DEF RestartFails
  <2> QED
    BY <1>2, <2>1 DEF AccountsTypeOK, RowIsLocked, Exists, HasKey
<1>8. CASE RemoveCommits(r)
  <2>1. /\ Removes(r, u) /\ engine' = engine
        /\ user' = [user EXCEPT ![u] = MakeDeveloper(u, Nobody, USER)]
        /\ unseen' = [unseen EXCEPT ![u] = IF @ = "failed" THEN @ ELSE "removed"]
    BY <1>2, <1>8 DEF RemoveCommits, Removes
  <2>2. user[u] \in Row /\ \A q \in Requests : Removes(q, u) => q = r
    BY <1>2, <2>1 DEF RowIsLocked, Exists, AccountsTypeOK
  <2>3. MakeDeveloper(u, Nobody, USER) \in Row
    BY <1>2, <2>2, MakeDeveloperType DEF USER, ORG_ADMIN, Status
  <2> QED
    BY <1>2, <2>1, <2>2, <2>3 DEF AccountsTypeOK
<1>9. CASE DeleteCommits(r)
  <2>1. /\ engine' = engine /\ user' = [user EXCEPT ![u] = Nobody]
        /\ unseen' = [unseen EXCEPT ![u] = "deleted"] /\ ~Locked(u)
    BY <1>2, <1>9 DEF DeleteCommits
  <2>2. \A q \in Requests : ~Removes(q, u)
    BY <2>1 DEF Locked, Removes
  <2> QED
    BY <1>2, <2>1, <2>2 DEF AccountsTypeOK
<1> QED
  BY <1>6, <1>7, <1>8, <1>9

\* Engines stop, before a row is deleted or by themselves, and start again.
LEMMA EngineKeepsInv ==
    ASSUME AccountsInv, NEW u \in Users, EngineStarts(u) \/ EngineStops(u)
    PROVE  AccountsInv'
<1> USE DEF AccountsInv
<1>1. UNCHANGED <<user, founded, invitations, request>>
  BY DEF EngineStarts, EngineStops
<1>2. /\ engine' \in [Users -> [org : Companies \cup {Nobody}, locale : Locales] \cup {Nobody}]
      /\ unseen' \in [Users -> {"nothing", "failed", "removed", "deleted"}]
      /\ HasKey(u)'
      /\ \A v \in Users : v # u => engine'[v] = engine[v] /\ unseen'[v] = unseen[v]
  <2>1. CASE EngineStarts(u)
    <3>1. Starts(u) /\ user[u] \in Row /\ user' = user
      BY <2>1 DEF EngineStarts, Exists, AccountsTypeOK
    <3> QED
      BY <3>1, StartsHasKey
  <2>2. CASE EngineStops(u)
    BY <2>2 DEF EngineStops, AccountsTypeOK, HasKey
  <2> QED
    BY <2>1, <2>2
<1>3. AccountsTypeOK' /\ RequestsAreAbout'
  BY <1>1, <1>2 DEF AccountsTypeOK, RequestsAreAbout
<1>4. \A v \in Users : HasKey(v) => HasKey(v)'
  BY <1>1, <1>2 DEF HasKey, Exists
<1>5. RowIsLocked'
  BY <1>1, <1>4 DEF RowIsLocked, Removes, Exists
<1>6. ASSUME NEW v \in Users, unseen'[v] = "nothing", ~Restarting(v)' PROVE HasKey(v)'
  BY <1>1, <1>2, <1>4, <1>6 DEF KeyIsCurrent, Restarting
<1> QED
  BY <1>3, <1>5, <1>6 DEF KeyIsCurrent

\* A removal starts the engine, with the row locked; a deletion stops it first.
LEMMA RemoveKeepsInv ==
    ASSUME AccountsInv, NEW r \in Requests, NEW u \in Users, RemoveMember(r, u) \/ Deletes(r, u)
    PROVE  AccountsInv'
<1> USE AccountsAssumption DEF AccountsInv
<1>1. PICK stage \in {"inside", "deleting"} :
           /\ Goes(r, stage, u)
           /\ stage = "inside" => ~Locked(u) /\ Exists(u)
  BY DEF RemoveMember, InMyOrg, Deletes
<1>2. /\ user' = user /\ UNCHANGED <<founded, invitations>> /\ request[r].stage = "open"
      /\ engine' \in [Users -> [org : Companies \cup {Nobody}, locale : Locales] \cup {Nobody}]
      /\ unseen' \in [Users -> {"nothing", "failed", "removed", "deleted"}]
      /\ HasKey(u)'
      /\ \A v \in Users : v # u => engine'[v] = engine[v] /\ unseen'[v] = unseen[v]
  <2>1. CASE RemoveMember(r, u)
    <3>1. Starts(u) /\ user[u] \in Row /\ user' = user
      BY <2>1 DEF RemoveMember, InMyOrg, Exists, AccountsTypeOK
    <3> QED
      BY <2>1, <3>1, StartsHasKey DEF RemoveMember, Open
  <2>2. CASE Deletes(r, u)
    BY <2>2 DEF Deletes, Open, AccountsTypeOK, HasKey
  <2> QED
    BY <2>1, <2>2
<1>3. /\ request' \in [Requests -> Request]
      /\ \A q \in Requests : q # r => request'[q] = request[q]
      /\ request'[r].stage = stage /\ request'[r].about = u
  BY <1>1, GoesType DEF Stages
<1>4. AccountsTypeOK' /\ RequestsAreAbout'
  BY <1>2, <1>3 DEF AccountsTypeOK, RequestsAreAbout
<1>5. \A v \in Users : HasKey(v) => HasKey(v)'
  BY <1>2 DEF HasKey, Exists
<1>6. \A q \in Requests, v \in Users : Removes(q, v)' =>
          Removes(q, v) \/ (q = r /\ v = u /\ stage = "inside")
  BY <1>3 DEF Removes
<1>7. stage = "inside" => \A q \in Requests : ~Removes(q, u)
  BY <1>1 DEF Locked, Removes
<1>8. RowIsLocked'
  BY <1>1, <1>2, <1>5, <1>6, <1>7 DEF RowIsLocked, Exists
<1>9. KeyIsCurrent'
  BY <1>2, <1>3, OthersKeepKeys
<1> QED
  BY <1>4, <1>8, <1>9

LEMMA AccountsNextInv == AccountsInv /\ [AccountsNext]_accountVars => AccountsInv'
<1> SUFFICES ASSUME AccountsInv, [AccountsNext]_accountVars PROVE AccountsInv'
  OBVIOUS
<1>1. ASSUME NEW r \in Requests, NEW u \in Users,
             \/ Register(r, u) \/ Session(r, u) \/ Deletes(r, u) \/ Refuse(r)
             \/ RemoveMember(r, u) \/ RescindInvitation(r, u)
             \/ Promote(r, u) \/ Demote(r, u) \/ AdminDemote(r, u) \/ RevokeDeveloper(r, u)
      PROVE  AccountsInv'
  BY <1>1, RegisterKeepsInv, RequestKeepsInv, RemoveKeepsInv, OthersRowKeepsInv
<1>2. ASSUME NEW r \in Requests, NEW u \in Users,
             \/ \E s \in Status : AddMember(r, u, s)
             \/ \E org \in Companies : AdminPromote(r, u, org)
             \/ \E org \in Companies, s \in {USER, USER + 1} : AdminAddMember(r, u, org, s)
      PROVE  AccountsInv'
  BY <1>2, RequestKeepsInv, OthersRowKeepsInv
<1>3. ASSUME NEW r \in Requests,
             \/ \E org \in Companies : RequestDeveloper(r, org)
             \/ \E l \in Locales, commits \in BOOLEAN : Profile(r, l, commits)
             \/ \E i \in invitations : AcceptInvitation(r, i)
      PROVE  AccountsInv'
  BY <1>3, OwnRowKeepsInv
<1>4. ASSUME NEW r \in Requests,
             Restart(r) \/ RestartFails(r) \/ RemoveCommits(r) \/ DeleteCommits(r)
      PROVE  AccountsInv'
  BY <1>4, EndKeepsInv
<1>5. ASSUME NEW u \in Users, EngineStarts(u) \/ EngineStops(u) PROVE AccountsInv'
  BY <1>5, EngineKeepsInv
<1>6. ASSUME NEW r \in Requests, Refuse(r) PROVE AccountsInv'
  BY <1>6, <1>1, AccountsAssumption
<1>7. CASE UNCHANGED accountVars
  BY <1>7 DEF accountVars, AccountsInv, AccountsTypeOK, RequestsAreAbout, RowIsLocked, KeyIsCurrent,
              Removes, Restarting, Exists, HasKey
<1> QED
  BY <1>1, <1>2, <1>3, <1>4, <1>5, <1>6, <1>7 DEF AccountsNext, Console, Admins

(* routes/user.ts, developer_console.ts and admin.ts: when no restart is still *)
(* to come and none has failed, the engine of a user has the developer key of  *)
(* his row, however requests cross, unless he was removed in the console.      *)
THEOREM EngineHasCurrentKey == AccountsSpec => []KeyIsCurrent
<1>1. AccountsInv => KeyIsCurrent
  BY DEF AccountsInv
<1> QED
  BY <1>1, AccountsInitInv, AccountsNextInv, PTL DEF AccountsSpec

-----------------------------------------------------------------------------
(* The promise-chain lock that each user has, for any set of clients and any   *)
(* number of calls of acquire().                                               *)

(* The inductive invariant.  MutualExclusion alone is not inductive: it     *)
(* needs to know that a client between acquire() and unlock owns a turn of  *)
(* its own that is still pending, and that the chain never drains past a    *)
(* pending turn, so that the one client that may hold is the owner of the   *)
(* first pending turn.                                                      *)
TicketsPending ==
    \A c \in Client : pc[c] # "idle" =>
        /\ ticket[c] \in 1..Len(turn)
        /\ turn[ticket[c]] = "pending"
TicketsDistinct ==
    \A c, d \in Client :
        pc[c] # "idle" /\ pc[d] # "idle" /\ ticket[c] = ticket[d] => c = d
DrainedFulfilled ==
    \A n \in 1..drained : turn[n] = "fulfilled"
HolderIsFront ==
    \A c \in Client : pc[c] = "holding" => ticket[c] - 1 = drained

IInv == /\ TypeOK
        /\ TicketsPending
        /\ TicketsDistinct
        /\ DrainedFulfilled
        /\ HolderIsFront
        /\ TurnHasOwner

\* A client whose turn is pending is behind the drained part of the chain.
LEMMA PendingBehindDrained ==
    ASSUME TypeOK, TicketsPending, DrainedFulfilled,
           NEW c \in Client, pc[c] # "idle"
    PROVE  drained < ticket[c]
BY DEF TypeOK, TicketsPending, DrainedFulfilled

LEMMA InitIInv == Init => IInv
BY LockAssumption
   DEF Init, IInv, TypeOK, TicketsPending, TicketsDistinct, DrainedFulfilled,
       HolderIsFront, TurnHasOwner

LEMMA NextIInv == IInv /\ [Next]_vars => IInv'
<1> USE LockAssumption
<1> SUFFICES ASSUME IInv, [Next]_vars PROVE IInv'
  OBVIOUS
<1>1. ASSUME Drain PROVE IInv'
  BY <1>1 DEF Drain, IInv, TypeOK, TicketsPending, TicketsDistinct,
              DrainedFulfilled, HolderIsFront, TurnHasOwner
<1>2. ASSUME NEW c \in Client, Acquire(c) PROVE IInv'
  BY <1>2 DEF Acquire, IInv, TypeOK, TicketsPending, TicketsDistinct,
              DrainedFulfilled, HolderIsFront, TurnHasOwner
<1>3. ASSUME NEW c \in Client, Resume(c) PROVE IInv'
  <2>1. drained < ticket[c]
    BY <1>3, PendingBehindDrained DEF IInv, Resume
  <2> QED
    BY <1>3, <2>1 DEF Resume, IInv, TypeOK, TicketsPending, TicketsDistinct,
                      DrainedFulfilled, HolderIsFront, TurnHasOwner
<1>4. ASSUME NEW c \in Client, Unlock(c) PROVE IInv'
  BY <1>4 DEF Unlock, IInv, TypeOK, TicketsPending, TicketsDistinct,
              DrainedFulfilled, HolderIsFront, TurnHasOwner
<1>5. CASE UNCHANGED vars
  BY <1>5 DEF vars, IInv, TypeOK, TicketsPending, TicketsDistinct,
              DrainedFulfilled, HolderIsFront, TurnHasOwner
<1> QED
  BY <1>1, <1>2, <1>3, <1>4, <1>5 DEF Next

LEMMA InvariantIInv == Spec => []IInv
BY InitIInv, NextIInv, PTL DEF Spec

(* The state of the lock always has the declared shape: in particular no    *)
(* client holds a ticket the chain does not have, and the chain never drains*)
(* past its end.                                                            *)
THEOREM TypeCorrect == Spec => []TypeOK
<1>1. IInv => TypeOK
  BY DEF IInv
<1> QED
  BY <1>1, InvariantIInv, PTL

(* lock.ts: "when acquire() returns, the lock is owned by the calling       *)
(* promise chain"; at most one chain is past its acquire() at any time.     *)
THEOREM LockIsExclusive == Spec => []MutualExclusion
<1>1. IInv => MutualExclusion
  BY DEF IInv, TypeOK, HolderIsFront, TicketsDistinct, MutualExclusion
<1> QED
  BY <1>1, InvariantIInv, PTL

(* A pending turn always has a client left to resolve it.                   *)
THEOREM LockIsNeverLost == Spec => []TurnHasOwner
<1>1. IInv => TurnHasOwner
  BY DEF IInv
<1> QED
  BY <1>1, InvariantIInv, PTL

-----------------------------------------------------------------------------
(* The chain of promises implements FifoMutex.                              *)

\* While a client holds the lock, Owner is that client.
LEMMA OwnerIsHolder ==
    ASSUME IInv, NEW c \in Client, pc[c] = "holding"
    PROVE  Owner = c
BY DEF IInv, TypeOK, HolderIsFront, TicketsDistinct, Owner

LEMMA OwnerIsNobody ==
    ASSUME \A c \in Client : pc[c] # "holding"
    PROVE  Owner = NoClient
BY DEF Owner

LEMMA InitImplements == Init => Abstract!Init
BY DEF Init, Abstract!Init, Owner, Waiting, Before

LEMMA AcquireAsks ==
    ASSUME IInv, IInv', NEW c \in Client, Acquire(c)
    PROVE  Abstract!Ask(c)
<1> USE LockAssumption DEF IInv, TypeOK, Acquire
<1>1. Owner' = Owner
  <2>1. \A d \in Client : pc'[d] = "holding" <=> pc[d] = "holding"
    OBVIOUS
  <2> QED
    BY <2>1 DEF Owner
<1>2. c # Owner
  <2>1. CASE \E d \in Client : pc[d] = "holding"
    BY <2>1, OwnerIsHolder
  <2>2. CASE \A d \in Client : pc[d] # "holding"
    BY <2>2, OwnerIsNobody
  <2> QED
    BY <2>1, <2>2
<1>3. c \notin Waiting /\ Waiting' = Waiting \cup {c}
  BY DEF Waiting
<1>4. Before' = Before \cup (Waiting \X {c})
  <2>1. \A d \in Waiting : ticket'[d] = ticket[d] /\ ticket[d] < ticket'[c]
    BY DEF Waiting, TicketsPending
  <2>2. ~(ticket'[c] < ticket'[c])
    OBVIOUS
  <2>3. \A d \in Waiting : ~(ticket'[c] < ticket'[d])
    BY <2>1 DEF Waiting
  <2> QED
    BY <1>3, <2>1, <2>2, <2>3 DEF Before
<1> QED
  BY <1>1, <1>2, <1>3, <1>4 DEF Abstract!Ask

LEMMA ResumeGrants ==
    ASSUME IInv, IInv', NEW c \in Client, Resume(c)
    PROVE  Abstract!Grant(c)
<1> USE DEF IInv, TypeOK, Resume
<1>1. drained < ticket[c] /\ ticket[c] - 1 = drained
  BY PendingBehindDrained
<1>2. \A d \in Client : pc[d] # "holding"
  BY <1>1 DEF HolderIsFront, TicketsDistinct
<1>3. Owner = NoClient
  BY <1>2, OwnerIsNobody
<1>4. Owner' = c
  <2>1. pc'[c] = "holding" /\ \A d \in Client : pc'[d] = "holding" => d = c
    BY <1>2
  <2> QED
    BY <2>1 DEF Owner
<1>5. c \in Waiting /\ Waiting' = Waiting \ {c}
  BY DEF Waiting
<1>6. \A d \in Waiting : <<d, c>> \notin Before
  <2>1. \A d \in Waiting : drained < ticket[d]
    BY PendingBehindDrained DEF Waiting
  <2> QED
    BY <1>1, <2>1 DEF Before, Waiting
<1>7. Before' = {p \in Before : p[1] # c /\ p[2] # c}
  BY <1>5 DEF Before
<1> QED
  BY <1>3, <1>4, <1>5, <1>6, <1>7 DEF Abstract!Grant

LEMMA UnlockGivesBack ==
    ASSUME IInv, NEW c \in Client, Unlock(c)
    PROVE  Abstract!GiveBack(c)
<1> USE DEF IInv, TypeOK, Unlock
<1>1. Owner = c
  BY OwnerIsHolder
<1>2. Owner' = NoClient
  <2>1. \A d \in Client : pc'[d] # "holding"
    BY DEF HolderIsFront, TicketsDistinct
  <2> QED
    BY <2>1 DEF Owner
<1>3. Waiting' = Waiting
  BY DEF Waiting
<1>4. Before' = Before
  BY <1>3 DEF Before
<1> QED
  BY <1>1, <1>2, <1>3, <1>4 DEF Abstract!GiveBack

LEMMA StutterStutters ==
    ASSUME UNCHANGED <<pc, ticket>>
    PROVE  UNCHANGED Abstract!vars
BY DEF Owner, Waiting, Before, Abstract!vars

LEMMA NextImplements ==
    IInv /\ IInv' /\ [Next]_vars => [Abstract!Next]_(Abstract!vars)
<1> SUFFICES ASSUME IInv, IInv', [Next]_vars
             PROVE  [Abstract!Next]_(Abstract!vars)
  OBVIOUS
<1>1. CASE Drain
  BY <1>1, StutterStutters DEF Drain
<1>2. CASE UNCHANGED vars
  BY <1>2, StutterStutters DEF vars
<1>3. ASSUME NEW c \in Client, Acquire(c) \/ Resume(c) \/ Unlock(c)
      PROVE  Abstract!Next
  BY <1>3, AcquireAsks, ResumeGrants, UnlockGivesBack DEF Abstract!Next
<1> QED
  BY <1>1, <1>2, <1>3 DEF Next

(* The lock serves its callers one at a time and in the order of their      *)
(* calls of acquire(): each step of the promise chain is a step of the      *)
(* abstract first-come first-served lock, or changes nothing in it.         *)
THEOREM LockImplementsFifoMutex == Spec => ImplementsFifoMutex
BY InitImplements, NextImplements, InvariantIInv, PTL
   DEF Spec, ImplementsFifoMutex, Abstract!Spec
================================================================================
