--------------------------------- MODULE SignIn --------------------------------
(***************************************************************************)
(* How people get into their accounts: registration, passwords, Google and *)
(* GitHub, the second factor, and the mails that verify an address or      *)
(* recover a password.  A browser has a session, which holds the user and  *)
(* whether the second factor was shown; every request of the browser reads *)
(* the user's row first.  A request is one step, except for the one that   *)
(* saves a profile, which decides with the row it read first.              *)
(*                                                                         *)
(* Which password is right is left out, and so are user names; a link in a *)
(* mail expires, or is never followed, when it is not used any more.       *)
(***************************************************************************)
EXTENDS Naturals

CONSTANTS People, Browsers, Emails,
          Identities,           \* at Google or GitHub,
          GitHub,               \* those at GitHub,
          MailOf,               \* and the address each of them is known by,
          NoEmail,              \* which GitHub may not tell
          NoOne, Deleted,
          MaxSignIns            \* bound: requests in all

ASSUME SignInAssumption ==
    /\ GitHub \subseteq Identities
    /\ NoEmail \notin Emails
    /\ MailOf \in [Identities -> Emails \cup {NoEmail}]
    /\ \A i \in Identities \ GitHub : MailOf[i] # NoEmail
    /\ NoOne # Deleted
    /\ {NoOne, Deleted} \cap People = {}
    /\ MaxSignIns \in Nat

VARIABLES account,      \* the rows of the users
          session,      \* of a browser
          remembered,   \* browsers with the cookie almond.skip2fa
          links,        \* the mails that verify an address
          recoveries,   \* users who were sent a mail to recover their password
          editing,      \* per browser: the row that the request read to save a profile
          proved,       \* who has shown in which browser who he is, besides a password
          vouched,      \* addresses that a link or an identity has proved
          kept,         \* addresses that were saved as they were
          signInBudget  \* bound: requests still to come

signInVars == <<account, session, remembered, links, recoveries, editing, proved,
                vouched, kept, signInBudget>>

Addresses == Emails \cup {NoEmail}        \* what a row may have
Account == [email : Addresses, email_verified : BOOLEAN, password : BOOLEAN, totp_key : BOOLEAN,
            identities : SUBSET Identities]   \* google_id and github_id
LoggedOut == [who |-> NoOne, completed2fa |-> FALSE]

SignInInit ==
    /\ account = [u \in People |-> NoOne]
    /\ session = [b \in Browsers |-> LoggedOut]
    /\ remembered = {} /\ links = {} /\ recoveries = {}
    /\ editing = [b \in Browsers |-> NoOne]
    /\ proved = {} /\ vouched = {} /\ kept = {}
    /\ signInBudget = MaxSignIns

Has(u) == account[u] \notin {NoOne, Deleted}
\* A row with the address; null is no address.
Taken(e) == e # NoEmail /\ \E u \in People : Has(u) /\ account[u].email = e
Who(b) == session[b].who

\* deserializeUser fails when the row is gone, and with it every request of a
\* browser that is still logged in as a user who was deleted elsewhere.
Asks(b) == /\ Who(b) # NoOne => Has(Who(b))
           /\ signInBudget > 0 /\ signInBudget' = signInBudget - 1

\* isAuthenticated, requireLogIn
Authenticated(b) == /\ Who(b) # NoOne /\ Has(Who(b))
                    /\ account[Who(b)].totp_key => session[b].completed2fa

Enters(b, u, completed) ==
    session' = [session EXCEPT ![b] = [who |-> u, completed2fa |-> completed]]

\* The link holds the user and the address it was sent to; the one that recovers
\* a password holds the user.
SendValidationEmail(u, e) == links' = links \cup {<<u, e>>}
SendRecoveryEmail(u) == recoveries' = recoveries \cup {u}

\* resetPassword, and update for a user who has none: he has one afterwards.
ResetPassword(u) == account' = [account EXCEPT ![u].password = TRUE]

-----------------------------------------------------------------------------
(* Getting in.                                                              *)

SignUp(b, u, e) ==
    /\ Asks(b) /\ account[u] = NoOne /\ ~Taken(e)
    /\ account' = [account EXCEPT ![u] = [email |-> e, email_verified |-> FALSE, password |-> TRUE,
                                          totp_key |-> FALSE, identities |-> {}]]
    /\ SendValidationEmail(u, e)
    /\ Enters(b, u, TRUE)
    /\ proved' = proved \cup {<<b, u>>}
    /\ UNCHANGED <<remembered, recoveries, editing, vouched, kept>>

\* A bug to detect: what the session says of the user before him stays.
AfterPassword_Kept(b) == session[b].completed2fa \/ b \in remembered
AfterPassword(b) == b \in remembered

\* Who came by an identity has no password until he makes one.
LocalStrategy(u) == Has(u) /\ account[u].password

Login(b, u) ==
    /\ Asks(b) /\ LocalStrategy(u)
    /\ Enters(b, u, AfterPassword(b))
    /\ UNCHANGED <<account, remembered, links, recoveries, editing, proved, vouched, kept>>

\* The app loads pages with ?auth=app and the user's auth token, which skips the
\* second factor.
AppLogin(b, u) ==
    /\ Asks(b) /\ Has(u)
    /\ Enters(b, u, TRUE)
    /\ proved' = proved \cup {<<b, u>>}
    /\ UNCHANGED <<account, remembered, links, recoveries, editing, vouched, kept>>

\* A code can be right only if the user has set up a second factor.
TotpStrategy(u) == account[u].totp_key

SecondLogin(b, remember) ==
    /\ Asks(b) /\ Who(b) # NoOne /\ TotpStrategy(Who(b))
    /\ Enters(b, Who(b), TRUE)
    /\ remembered' = IF remember THEN remembered \cup {b} ELSE remembered
    /\ proved' = proved \cup {<<b, Who(b)>>}
    /\ UNCHANGED <<account, links, recoveries, editing, vouched, kept>>

Owns(u, i) == Has(u) /\ i \in account[u].identities
Linked(u, i) == (account[u].identities \ (IF i \in GitHub THEN GitHub ELSE Identities \ GitHub))
                \cup {i}

\* An identity belongs to the user it is linked with, or else to the one with
\* its address, if that was verified, or else to a new user, whose address counts
\* as verified if there is one.
FromIdentity(i, u) ==
    IF \E v \in People : Owns(v, i)
    THEN Owns(u, i) /\ account' = account
    ELSE IF Taken(MailOf[i])
    THEN /\ Has(u) /\ account[u].email = MailOf[i] /\ account[u].email_verified
         /\ account' = [account EXCEPT ![u].identities = Linked(u, i)]
    ELSE /\ account[u] = NoOne
         /\ account' = [account EXCEPT ![u] = [email |-> MailOf[i], email_verified |-> MailOf[i] # NoEmail,
                            password |-> FALSE, totp_key |-> FALSE, identities |-> {i}]]

\* With GitHub an identity counts in the same way when somebody is logged in
\* already; with Google it is linked then.
Authenticates(b, i) == i \in GitHub \/ Who(b) = NoOne

\* The callbacks "skip 2fa if logged in with" an identity.
Callback(b, u) == Enters(b, u, TRUE) /\ proved' = proved \cup {<<b, u>>}

ByIdentity(b, i, u) ==
    /\ Asks(b) /\ Authenticates(b, i)
    /\ FromIdentity(i, u)
    /\ Callback(b, u)
    /\ vouched' = IF account[u] = NoOne THEN vouched \cup {<<u, MailOf[i]>>} ELSE vouched
    /\ UNCHANGED <<remembered, links, recoveries, editing, kept>>

\* associateGoogle: with Google, who is logged in links the identity.
LinkIdentity(b, i) ==
    /\ Asks(b) /\ ~Authenticates(b, i)
    /\ \A v \in People \ {Who(b)} : ~Owns(v, i)
    /\ account' = [account EXCEPT ![Who(b)].identities = Linked(Who(b), i)]
    /\ Callback(b, Who(b))
    /\ UNCHANGED <<remembered, links, recoveries, editing, vouched, kept>>

Logout(b) ==
    /\ Asks(b) /\ session' = [session EXCEPT ![b] = LoggedOut]
    /\ UNCHANGED <<account, remembered, links, recoveries, editing, proved, vouched, kept>>

-----------------------------------------------------------------------------
(* The second factor, the address and the password.                         *)

SetupSecond(b) ==
    /\ Asks(b) /\ Authenticated(b)
    /\ account' = [account EXCEPT ![Who(b)].totp_key = TRUE]
    /\ Enters(b, Who(b), TRUE)
    /\ proved' = proved \cup {<<b, Who(b)>>}
    /\ UNCHANGED <<remembered, links, recoveries, editing, vouched, kept>>

\* The address that the link was sent to is still the user's.
IsFor(link, u) == link[1] = u /\ link[2] = account[u].email

VerifyEmail(b, link) ==
    /\ Asks(b) /\ Authenticated(b) /\ link[1] = Who(b)
    /\ account' = IF IsFor(link, Who(b)) THEN [account EXCEPT ![Who(b)].email_verified = TRUE]
                  ELSE account
    /\ vouched' = vouched \cup {link}
    /\ UNCHANGED <<session, remembered, links, recoveries, editing, proved, kept>>

ResendVerification(b) ==
    /\ Asks(b) /\ Authenticated(b)
    /\ ~account[Who(b)].email_verified /\ account[Who(b)].email # NoEmail
    /\ SendValidationEmail(Who(b), account[Who(b)].email)
    /\ UNCHANGED <<account, session, remembered, recoveries, editing, proved, vouched, kept>>

\* Saving a profile compares the address with that of the row it read, in the
\* same way as it was read, and takes one that stays the same for verified.  For one
\* that is no address it takes that of the row, if any.
EditProfile(b) ==
    /\ Asks(b) /\ Authenticated(b) /\ editing[b] = NoOne
    /\ editing' = [editing EXCEPT ![b] = <<Who(b), account[Who(b)].email>>]
    /\ UNCHANGED <<account, session, remembered, links, recoveries, proved, vouched, kept>>
SaveProfile(b, e, commits) ==
    LET u == editing[b][1]
        copy == editing[b][2]
        fits == Has(u) /\ e # account[u].email => ~Taken(e)   \* or the update fails
    IN  /\ editing[b] # NoOne /\ editing' = [editing EXCEPT ![b] = NoOne]
        /\ e \in Emails \cup {copy}
        /\ IF commits /\ fits /\ Has(u)
           THEN /\ account' = [account EXCEPT ![u].email = e, ![u].email_verified = e = copy]
                /\ kept' = IF e = copy THEN kept \cup {<<u, e>>} ELSE kept
           ELSE UNCHANGED <<account, kept>>
        /\ IF fits /\ e # copy THEN SendValidationEmail(u, e) ELSE UNCHANGED links
        /\ UNCHANGED <<session, remembered, recoveries, proved, vouched, signInBudget>>

ChangePassword(b) ==
    /\ Asks(b) /\ Authenticated(b)
    /\ ResetPassword(Who(b))
    /\ UNCHANGED <<session, remembered, links, recoveries, editing, proved, vouched, kept>>

RecoveryStart(b, u) ==
    /\ Asks(b) /\ Has(u) /\ account[u].email_verified /\ account[u].email # NoEmail
    /\ SendRecoveryEmail(u)
    /\ UNCHANGED <<account, session, remembered, links, editing, proved, vouched, kept>>

\* With the code of the second factor, if there is one; the mail stays valid.
RecoveryContinue(b, u) ==
    /\ Asks(b) /\ u \in recoveries /\ Has(u)
    /\ ResetPassword(u)
    /\ Enters(b, u, TRUE)
    /\ proved' = proved \cup {<<b, u>>}
    /\ UNCHANGED <<remembered, links, recoveries, editing, vouched, kept>>

\* It logs out, and leaves the rest of the session.
DeleteAccount(b) ==
    /\ Asks(b) /\ Authenticated(b)
    /\ account' = [account EXCEPT ![Who(b)] = Deleted]
    /\ session' = [session EXCEPT ![b].who = NoOne]
    /\ UNCHANGED <<remembered, links, recoveries, editing, proved, vouched, kept>>

-----------------------------------------------------------------------------
SignInNext ==
    \E b \in Browsers :
        \/ \E u \in People, e \in Emails : SignUp(b, u, e)
        \/ \E u \in People : Login(b, u) \/ AppLogin(b, u) \/ RecoveryStart(b, u) \/ RecoveryContinue(b, u)
        \/ \E remember \in BOOLEAN : SecondLogin(b, remember)
        \/ \E i \in Identities : LinkIdentity(b, i) \/ \E u \in People : ByIdentity(b, i, u)
        \/ \E link \in links : VerifyEmail(b, link)
        \/ \E e \in Addresses, commits \in BOOLEAN : SaveProfile(b, e, commits)
        \/ Logout(b) \/ SetupSecond(b) \/ ResendVerification(b) \/ EditProfile(b)
        \/ ChangePassword(b) \/ DeleteAccount(b)

SignInSpec == SignInInit /\ [][SignInNext]_signInVars

-----------------------------------------------------------------------------
SignInTypeOK ==
    /\ account \in [People -> Account \cup {NoOne, Deleted}]
    /\ session \in [Browsers -> [who : People \cup {NoOne}, completed2fa : BOOLEAN]]
    /\ remembered \subseteq Browsers
    /\ links \cup vouched \cup kept \subseteq People \X Addresses
    /\ recoveries \subseteq People

\* routes/user.ts, requireLogIn: who set up a second factor is logged in only
\* in browsers where he has shown it, or that skipped it once and for all,
\* whoever used the browser before him and wherever he set it up.  Registering,
\* recovering the password, coming with an identity or linking one, and the app's
\* auth token, count as showing it ("skip 2fa if logged in with Google").
SecondFactorShown ==
    \A b \in Browsers :
        Authenticated(b) /\ account[Who(b)].totp_key
            => <<b, Who(b)>> \in proved \/ b \in remembered

\* verify-email, authenticateGoogle: an address that counts as verified was
\* proved for this user by a link that was sent to it or by an identity, though
\* links to old addresses are followed after changes - or the profile was saved
\* with the address unchanged, or without any, which /profile takes for a proof.
VerifiedIsProved ==
    \A u \in People : Has(u) /\ account[u].email_verified
                         => <<u, account[u].email>> \in vouched \cup kept

\* passport.ts, routes/user.ts: what counts as shown or as verified was proved,
\* in any order of logins, links, recoveries and changes of two browsers.
EntryIsProved == SecondFactorShown /\ VerifiedIsProved
================================================================================
