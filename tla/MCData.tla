-------------------------------- MODULE MCData --------------------------------
(* What developers upload: devices, and the commands of one.                 *)
EXTENDS Devices, Commands

CONSTANTS Developer1, Administrators1, name1, name2, code1, code2, phrase1, phrase2, phrase3

\* Three devices, of which the second is of the kind of the first and the third has
\* those of the second for its children, with two classes each.
SomeClass(config, extends, child_types, services) ==
    [system |-> FALSE, thing |-> config = "none", config |-> config, extends |-> extends,
     child_types |-> child_types, services |-> services]
SomeOffers ==
    {[kind |-> 1, class |-> SomeClass("abstract", {}, {}, {})],
     [kind |-> 2, class |-> SomeClass("bluetooth", {1}, {}, {1, 2})],
     [kind |-> 2, class |-> SomeClass("none", {}, {3}, {})],
     [kind |-> 3, class |-> SomeClass("upnp", {}, {2}, {1})],
     [kind |-> 3, class |-> SomeClass("bluetooth", {1}, {}, {0, 1})]}
SomeVersions == [k \in {1, 2, 3} |-> IF k = 1 THEN 1 ELSE 2]

\* Datasets that name an example anew, reword it and recode it.
OneCommand == <<[name |-> name1, code |-> code1, phrases |-> <<phrase1>>]>>
SomeDatasets ==
    {OneCommand,
     <<[name |-> name1, code |-> code1, phrases |-> <<phrase1, phrase2>>]>>,
     <<[name |-> name1, code |-> code2, phrases |-> <<phrase1>>],
       [name |-> name2, code |-> code1, phrases |-> <<phrase2, phrase3>>]>>}
SomeCanonical == <<[name |-> NoName, code |-> code1, phrases |-> <<phrase1>>]>>

\* A dataset that changes, and likes of one that stays.
Changing == [datasets |-> SomeDatasets, uploads |-> 3, deleted |-> 2, likes |-> 0]
Liking == [datasets |-> {OneCommand}, uploads |-> 1, deleted |-> 0, likes |-> 3]
SomeScenes == {Changing, Liking}
===============================================================================
