--------------------------------- MODULE Grants --------------------------------
(****************************************************************************)
(* What applications may do for a user, by OAuth 2: he authorizes some      *)
(* scopes, which makes a code; the application exchanges the code for a     *)
(* refresh token and an access token, and the refresh token for further     *)
(* access tokens.  Codes and tokens are signed, not stored: the table       *)
(* oauth2_permissions is all that can be revoked.  Each of them is repeated *)
(* as often as the application likes, in any order, as answers are lost.    *)
(* An exchange of a code is a transaction; that of a refresh token looks    *)
(* for the permission first and signs the token later, without one.         *)
(****************************************************************************)
EXTENDS Naturals

CONSTANTS Apps,         \* applications
          Scopes

VARIABLES clients,          \* the applications that were created
          codes,            \* those that have not expired
          permission,       \* per application: {} when there is no row
          refresh_tokens,
          refreshing,       \* the refresh tokens whose permission was found, and that are not answered
          tokens,           \* the access tokens that have not expired
          consent,          \* history: what the user authorized since he last revoked it
          before,           \* history: what was made before he last revoked it
          returned          \* history: what codes from before were exchanged for since

grantVars == <<clients, codes, permission, refresh_tokens, refreshing, tokens, consent, before, returned>>

ScopeSets == SUBSET Scopes \ {{}}
Grant == [app : Apps, scope : ScopeSets]
Of(a, grants) == {g \in grants : g.app = a}

GrantsInit ==
    /\ clients = {} /\ codes = {} /\ refresh_tokens = {} /\ refreshing = {} /\ tokens = {}
    /\ permission = [a \in Apps |-> {}] /\ consent = [a \in Apps |-> {}]
    /\ before = [codes |-> {}, refreshing |-> {}, tokens |-> {}]
    /\ returned = [a \in Apps |-> {}]

CreateClient(a) ==
    /\ a \notin clients
    /\ clients' = clients \cup {a}
    /\ UNCHANGED <<codes, permission, refresh_tokens, refreshing, tokens, consent, before, returned>>

\* The page asks for scopes that the application may have; the code is for those that
\* the form comes back with.
Authorize(g) ==
    /\ g.app \in clients
    /\ codes' = codes \cup {g}
    /\ consent' = [consent EXCEPT ![g.app] = @ \cup g.scope]
    /\ before' = [before EXCEPT !.codes = @ \ {g}]
    /\ UNCHANGED <<clients, permission, refresh_tokens, refreshing, tokens, returned>>

\* The tokens are sent before the transaction commits.
Exchange(g, commits) ==
    /\ g \in codes
    /\ permission' = IF commits THEN [permission EXCEPT ![g.app] = @ \cup g.scope] ELSE permission
    /\ refresh_tokens' = refresh_tokens \cup {g}
    /\ tokens' = tokens \cup {g}
    /\ returned' = IF g \in before.codes THEN [returned EXCEPT ![g.app] = @ \cup g.scope] ELSE returned
    /\ UNCHANGED <<clients, codes, refreshing, consent, before>>

\* A bug to detect: that there is a permission is enough.
Permitted_Any(g) == permission[g.app] # {}
Permitted(g) == g.scope \subseteq permission[g.app]

CheckPermission(g) ==
    /\ g \in refresh_tokens /\ Permitted(g)
    /\ refreshing' = refreshing \cup {g}
    /\ UNCHANGED <<clients, codes, permission, refresh_tokens, tokens, consent, before, returned>>

\* With what was found, however long ago.
IssueToken(g) ==
    /\ g \in refreshing
    /\ refreshing' = refreshing \ {g}
    /\ tokens' = tokens \cup {g}
    /\ before' = [before EXCEPT !.refreshing = @ \ {g},
                                !.tokens = IF g \in before.refreshing THEN @ \cup {g} ELSE @]
    /\ UNCHANGED <<clients, codes, permission, refresh_tokens, consent, returned>>

RevokePermission(a) ==
    /\ permission' = [permission EXCEPT ![a] = {}]
    /\ consent' = [consent EXCEPT ![a] = {}]
    /\ before' = [codes |-> before.codes \cup Of(a, codes),
                  refreshing |-> before.refreshing \cup Of(a, refreshing),
                  tokens |-> before.tokens \cup Of(a, tokens)]
    /\ returned' = [returned EXCEPT ![a] = {}]
    /\ UNCHANGED <<clients, codes, refresh_tokens, refreshing, tokens>>

Expire(g) ==
    \/ /\ g \in codes
       /\ codes' = codes \ {g} /\ before' = [before EXCEPT !.codes = @ \ {g}]
       /\ UNCHANGED tokens
    \/ /\ g \in tokens
       /\ tokens' = tokens \ {g} /\ before' = [before EXCEPT !.tokens = @ \ {g}]
       /\ UNCHANGED codes
ExpireGrant(g) ==
    Expire(g) /\ UNCHANGED <<clients, permission, refresh_tokens, refreshing, consent, returned>>

GrantsNext ==
    \/ \E a \in Apps : RevokePermission(a) \/ CreateClient(a)
    \/ \E g \in Grant : \/ Authorize(g) \/ CheckPermission(g) \/ IssueToken(g) \/ ExpireGrant(g)
                        \/ \E commits \in BOOLEAN : Exchange(g, commits)

GrantsSpec == GrantsInit /\ [][GrantsNext]_grantVars

-----------------------------------------------------------------------------
GrantsTypeOK ==
    /\ clients \subseteq Apps
    /\ permission \in [Apps -> SUBSET Scopes]
    /\ consent \in [Apps -> SUBSET Scopes] /\ returned \in [Apps -> SUBSET Scopes]
    /\ codes \cup refresh_tokens \cup tokens \subseteq Grant
    /\ refreshing \subseteq refresh_tokens
    /\ before \in [codes : SUBSET codes, refreshing : SUBSET refreshing, tokens : SUBSET tokens]

\* util/oauth2.ts: "check that the permission is still in the database (has not
\* been revoked or superseded)".  Once a user has revoked the permission of an
\* application, its tokens give what he authorizes anew, however many refresh tokens it
\* kept.  Three things from before outlive the revocation, each for a short time: a token
\* until it expires, a refresh whose permission had been looked for and that was not yet
\* answered, and a code that has not expired, which even brings its permission back.
AccessHasConsent ==
    \A g \in tokens \ before.tokens : g.scope \subseteq consent[g.app] \cup returned[g.app]
================================================================================
