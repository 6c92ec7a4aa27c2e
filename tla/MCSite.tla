-------------------------------- MODULE MCSite ---------------------------------
(***************************************************************************)
(* The requests of the web site, of the database proxy and of the NLP      *)
(* server that work on the database and on files - Thingpedia's catalogue, *)
(* its translations and manifests, how devices are found, commands and     *)
(* their likes, uploads of values, accounts, how people and applications   *)
(* get into them, crowdsourcing, synchronised tables, the models and       *)
(* commands of the NLP server, the installation of the database - and      *)
(* those that reach an engine: its websockets on Kubernetes, its assistant *)
(* and its notifications, and the page of a conversation, first with its   *)
(* microphone and then with its recording.  These parts have no variable   *)
(* in common but the connection of the page, and no property relates two   *)
(* of them, so that a behaviour of all shows nothing that behaviours of    *)
(* one part do not: each behaviour is of one of them.                      *)
(***************************************************************************)
EXTENDS MCCatalogue, MCData, Translations, Manifest, Upload, Accounts, SignIn, Grants, Crowdsourcing,
        SyncTable, NlpServer, Learning, Bootstrap, DatagramSocket,
        DirectSocket, Assistant, Subscriptions, ChatForm

CONSTANTS CatalogueOnly, TranslationsOnly, ManifestOnly, UploadOnly, DevicesOnly, CommandsOnly,
          AccountsOnly, SignInOnly, GrantsOnly,
          CrowdOnly, SyncOnly, NlpOnly, LearningOnly, BootstrapOnly, DatagramOnly,
          DirectOnly, AssistantOnly, SubscriptionsOnly, FormOnly, RecordingOnly,
          e1, e2, i1, i2, i3,
          news, rain, diary, phone, mail,
          gate, cam, auto, odd

MCMailOf == i1 :> e1 @@ i2 :> e1 @@ i3 :> NoEmail
MCTo == news :> phone @@ rain :> phone @@ diary :> mail

\* A gate with one function, and a camera of Thingpedia that declares an entity, in
\* all the ways that a manifest may be incomplete, refused or not known again.
English(words) == TextIn(words, "en")
NoArg == [name |-> "x", type |-> "String", direction |-> "in req", canonical |-> Missing,
          prompt |-> English("which"), string_values |-> English("names")]
MCQuery == [what |-> "query", extends |-> <<>>, is_monitorable |-> TRUE, poll_interval |-> 1, url |-> FALSE,
            confirm |-> Missing, canonical |-> <<>>, confirmation |-> Missing, args |-> <<NoArg>>]
MCAction == [what |-> "action", extends |-> <<"set">>, is_monitorable |-> FALSE, poll_interval |-> Missing,
             url |-> TRUE, confirm |-> FALSE, canonical |-> <<English("open"), English("unlock")>>,
             confirmation |-> English("sure"),
             args |-> <<[name |-> "y", type |-> "tt:door", direction |-> "out", canonical |-> English("door"),
                         prompt |-> Missing, string_values |-> Missing]>>]
MCFunctions ==
    {MCQuery, [MCQuery EXCEPT !.poll_interval = Missing], [MCQuery EXCEPT !.poll_interval = -1],
     [MCQuery EXCEPT !.args[1].type = "Number"], [MCQuery EXCEPT !.confirm = odd],
     MCAction, [MCAction EXCEPT !.args[1].direction = "in opt"], [MCAction EXCEPT !.confirm = auto],
     [MCAction EXCEPT !.confirmation = Missing]}
MCGate == [kind |-> gate, wellFormed |-> TRUE, abstract |-> FALSE, loader |-> "javascript",
           entities |-> <<>>, functions |-> "f" :> MCAction, utterances |-> {}]
MCCam == [MCGate EXCEPT !.kind = cam, !.functions = "q" :> MCQuery, !.entities = "tt:door" :> {"tt:place"}]
MCManifests ==
    {[MCGate EXCEPT !.functions = "f" :> fun, !.abstract = a] : fun \in MCFunctions, a \in BOOLEAN}
    \cup {MCCam, [MCCam EXCEPT !.functions = "q" :> MCQuery @@ "a" :> MCAction]}
    \cup {[MCGate EXCEPT !.loader = "rest", !.functions = "f" :> fun] : fun \in {MCAction, MCQuery}}
    \cup {[MCGate EXCEPT !.loader = Missing], [MCGate EXCEPT !.wellFormed = FALSE],
          [MCGate EXCEPT !.utterances = {[args |-> {"y"}, placeholders |-> {}]}]}
MCNaming == gate :> "dotted" @@ cam :> "thingpedia"

VARIABLE part   \* the part that runs

Parts == {CatalogueOnly, TranslationsOnly, ManifestOnly, UploadOnly, DevicesOnly, CommandsOnly,
          AccountsOnly, SignInOnly, GrantsOnly,
          CrowdOnly, SyncOnly, NlpOnly, LearningOnly, BootstrapOnly, DatagramOnly,
          DirectOnly, AssistantOnly, SubscriptionsOnly, FormOnly, RecordingOnly}

catalogueVars == <<vars, translationVars, manifestVars, uploadVars, devicesVars, commandsVars>>
peopleVars == <<accountVars, signInVars, grantVars, crowdVars>>
restVars == <<syncVars, nlpVars, learningVars, bootstrapVars, datagramVars>>
engineVars == <<directVars, assistantVars, subscriptionVars, chatFormVars>>
siteVars == <<catalogueVars, peopleVars, restVars, engineVars, part>>

SiteInit == /\ Init /\ TranslationsInit /\ ManifestInit /\ UploadInit
            /\ DevicesInit /\ CommandsInit
            /\ AccountsInit /\ SignInInit /\ GrantsInit /\ CrowdInit
            /\ SyncInit /\ NlpInit /\ LearningInit /\ BootstrapInit /\ DatagramInit
            /\ DirectInit /\ AssistantInit /\ SubscriptionsInit /\ ChatFormInit
            /\ part \in Parts
            /\ part # CommandsOnly => remaining = Changing   \* no matter which

CatalogueSteps ==
    \/ /\ part = CatalogueOnly /\ Next
       /\ UNCHANGED <<translationVars, manifestVars, uploadVars, devicesVars, commandsVars>>
    \/ /\ part = TranslationsOnly /\ TranslationsNext
       /\ UNCHANGED <<vars, manifestVars, uploadVars, devicesVars, commandsVars>>
    \/ /\ part = ManifestOnly /\ ManifestNext
       /\ UNCHANGED <<vars, translationVars, uploadVars, devicesVars, commandsVars>>
    \/ /\ part = UploadOnly /\ UploadNext
       /\ UNCHANGED <<vars, translationVars, manifestVars, devicesVars, commandsVars>>
    \/ /\ part = DevicesOnly /\ DevicesNext
       /\ UNCHANGED <<vars, translationVars, manifestVars, uploadVars, commandsVars>>
    \/ /\ part = CommandsOnly /\ CommandsNext
       /\ UNCHANGED <<vars, translationVars, manifestVars, uploadVars, devicesVars>>

PeopleSteps ==
    \/ /\ part = AccountsOnly /\ AccountsNext
       /\ UNCHANGED <<signInVars, grantVars, crowdVars>>
    \/ /\ part = SignInOnly /\ SignInNext
       /\ UNCHANGED <<accountVars, grantVars, crowdVars>>
    \/ /\ part = GrantsOnly /\ GrantsNext
       /\ UNCHANGED <<accountVars, signInVars, crowdVars>>
    \/ /\ part = CrowdOnly /\ CrowdNext
       /\ UNCHANGED <<accountVars, signInVars, grantVars>>

RestSteps ==
    \/ /\ part = SyncOnly /\ SyncNext
       /\ UNCHANGED <<nlpVars, learningVars, bootstrapVars, datagramVars>>
    \/ /\ part = NlpOnly /\ NlpNext
       /\ UNCHANGED <<syncVars, learningVars, bootstrapVars, datagramVars>>
    \/ /\ part = LearningOnly /\ LearningNext
       /\ UNCHANGED <<syncVars, nlpVars, bootstrapVars, datagramVars>>
    \/ /\ part = BootstrapOnly /\ BootstrapNext
       /\ UNCHANGED <<syncVars, nlpVars, learningVars, datagramVars>>
    \/ /\ part = DatagramOnly /\ DatagramNext
       /\ UNCHANGED <<syncVars, nlpVars, learningVars, bootstrapVars>>

EngineSteps ==
    \/ /\ part = DirectOnly /\ DirectNext
       /\ UNCHANGED <<assistantVars, subscriptionVars, chatFormVars>>
    \/ /\ part = AssistantOnly /\ AssistantNext
       /\ UNCHANGED <<directVars, subscriptionVars, chatFormVars>>
    \/ /\ part = SubscriptionsOnly /\ SubscriptionsNext
       /\ UNCHANGED <<directVars, assistantVars, chatFormVars>>
    \/ /\ part = FormOnly /\ ChatFormNext
       /\ UNCHANGED <<directVars, assistantVars, subscriptionVars, identified, modeVars>>
    \/ /\ part = RecordingOnly /\ ChatFormNext /\ ~items'["cancel"]   \* no question
       /\ UNCHANGED <<directVars, assistantVars, subscriptionVars, voiceVars>>

SiteNext == \/ CatalogueSteps /\ UNCHANGED <<peopleVars, restVars, engineVars, part>>
            \/ PeopleSteps /\ UNCHANGED <<catalogueVars, restVars, engineVars, part>>
            \/ RestSteps /\ UNCHANGED <<catalogueVars, peopleVars, engineVars, part>>
            \/ EngineSteps /\ UNCHANGED <<catalogueVars, peopleVars, restVars, part>>

\* Once a write to a synchronised table is out of order nothing is said of it.
Orderly == ~disorder

SiteSpec == SiteInit /\ [][SiteNext]_siteVars
================================================================================
