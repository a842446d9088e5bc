---------------------------- MODULE SettingsManager ----------------------------
(***************************************************************************)
(* The manager's SettingsManager (manager/SettingsManager.cpp): a tree of  *)
(* settings over a tree of defaults, and the JSON file that one process    *)
(* saves on exit and the next one loads, or that a user writes.            *)
(***************************************************************************)
EXTENDS Integers, Sequences, SequencesExt, Maps

CONSTANTS
  Name,      \* names of settings, split at the dots
  Value,     \* values
  DefaultName,    \* bound: names that are given defaults
  DefaultValue,   \* bound: values of defaults
  Empty,     \* the empty string
  Default,   \* the defaults that the constructor sets
  Other,     \* a number or an array, where save() writes a string or a null
  ByHand,    \* the files that a user writes
  NoFile, Unparsable   \* what the file may be, apart from JSON

ASSUME SettingsAssumption ==
  /\ Name \subseteq Seq(STRING) /\ Empty \notin Value
  /\ DefaultName \subseteq Name /\ DefaultValue \subseteq Value
  /\ DOMAIN Default \subseteq Name \ {<<>>} /\ \A n \in DOMAIN Default : Default[n] \in DefaultValue

Unknown == NoFile

VARIABLES
  running,        \* whether a manager runs
  settingsTree_,  \* both trees: the value of each branch, by its path
  saveOnExit,     \* whether saveOnExitFilename_ is set
  file,           \* what is in the settings file
  asked,          \* history: what was last set, or loaded, by name
  asDefault,      \* history: the names last set to what was the default then
  edited,         \* history: whether a user ever wrote the file
  loaded,         \* history: whether the file was read: "no", "failed" or "yes"
  kept            \* history: what the last process left to the next one

history == <<asked, asDefault, edited>>
vars == <<running, settingsTree_, saveOnExit, file, history, loaded, kept>>

Root == [p \in {<<>>} |-> Empty]
Below(tree, name) == {p \in DOMAIN tree : IsStrictPrefix(name, p)}

\* SettingsBranch().value where there is no branch is the empty string.
ValueAt(tree, name) == IF name \in DOMAIN tree THEN tree[name] ELSE Empty

\* Mutant: the branches above are not made.
PutAlone(tree, name, value) ==
  [p \in DOMAIN tree \cup {name} |-> IF p = name THEN value ELSE ValueAt(tree, p)]

\* get_(name, root, true)->second.value = value
Put(tree, name, value) ==
  [p \in DOMAIN tree \cup Prefixes(name) |->
     IF p = name THEN value ELSE ValueAt(tree, p)]

\* Mutant: only the branch itself is erased.
SpentLeaf(tree, name) == {p \in {name} \ {<<>>} : Below(tree, p) = {}}

\* Mutant: a branch is erased with what is below it.
SpentSubtree(tree, name) == ({name} \cup Below(tree, name)) \ {<<>>}

\* The branches on the way up that are left with nothing.
Spent(tree, name) ==
  {p \in Prefixes(name) \ {<<>>} :
     \A q \in {p} \cup Below(tree, p) : IsPrefix(q, name) /\ (q = name \/ tree[q] = Empty)}

\* clear_
Clear(tree, name) ==
  IF name \notin DOMAIN tree THEN tree
  ELSE [p \in DOMAIN tree \ Spent(tree, name) |-> IF p = name THEN Empty ELSE tree[p]]

Set(tree, name, value) ==
  IF value = Empty THEN Clear(tree, name) ELSE Put(tree, name, value)

\* A value that is the default is not set.
Chosen(name, value) ==
  IF value = ValueAt(settingsTree_.defaultSettings, name) THEN Empty ELSE value

\* get
Get(name) ==
  IF name \in DOMAIN settingsTree_.settings THEN settingsTree_.settings[name]
  ELSE ValueAt(settingsTree_.defaultSettings, name)

-----------------------------------------------------------------------------
\* The file: the strings and nulls (Empty) in it, and what else a user put
\* there (Other), by the path of the member.
Own == "__value__"
MemberOf(tree, p) == IF Below(tree, p) = {} THEN p ELSE Append(p, Own)
IsOwn(m) == m # <<>> /\ Last(m) = Own
BranchOf(m) == IF IsOwn(m) THEN Front(m) ELSE m

\* Mutant: what has branches below it is an object and nothing else.
Leaves(tree) == {p \in DOMAIN tree : Below(tree, p) = {}}

\* Branches that only lead to others are objects without a member of their own.
InFile(tree) == {p \in DOMAIN tree : tree[p] # Empty \/ Below(tree, p) = {}}

\* save: the conversion
ToJson(tree) ==
  [m \in {MemberOf(tree, p) : p \in InFile(tree)} |-> tree[BranchOf(m)]]

\* load: the conversion.  A member that is not a string makes a branch with
\* no value; where the root is none, it keeps the value it had.
FromJson(json, before) ==
  LET branches == {BranchOf(m) : m \in DOMAIN json}
      MemberAt(p) == CHOOSE m \in DOMAIN json : BranchOf(m) = p IN
  [p \in {<<>>} \cup UNION {Prefixes(b) : b \in branches} |->
     IF p \notin branches THEN Empty
     ELSE IF json[MemberAt(p)] # Other THEN json[MemberAt(p)]
     ELSE IF p = <<>> THEN before ELSE Empty]

\* asString() throws where the value of a branch is no string.
Refused(json) == {BranchOf(m) : m \in {n \in DOMAIN json : IsOwn(n) /\ json[n] = Other}}

\* What is in the tree when it throws: the settings were cleared, and the
\* branches that were done have their value and those right below them.
TornTrees(json, before) ==
  LET full == FromJson(json, before)
      IsDone(done) ==
        /\ \A p \in done : Prefixes(p) \subseteq done /\ p \notin Refused(json)
        /\ \E p \in Refused(json) : p = <<>> \/ Front(p) \in done
      Begun(done) == {<<>>} \cup {p \in DOMAIN full \ {<<>>} : Front(p) \in done}
  IN  {[p \in Begun(done) |->
          IF p \in done THEN full[p] ELSE IF p = <<>> THEN before ELSE Empty] :
         done \in {d \in SUBSET DOMAIN full : IsDone(d)}}

\* A root with a value and nothing below it is a string, and is not written;
\* an empty root is a null, which jsoncpp counts as an object.
IsWritten(tree) == Below(tree, <<>>) # {} \/ tree[<<>>] = Empty

\* Whether the write is done, was refused, or fails: fclose() is not checked.
Writes(outcome) ==
  \/ outcome = "done"
     /\ file' = IF IsWritten(settingsTree_.settings)
                THEN ToJson(settingsTree_.settings) ELSE file
  \/ outcome = "refused" /\ IsWritten(settingsTree_.settings) /\ file' = file
  \/ outcome = "failed" /\ IsWritten(settingsTree_.settings) /\ file' = Unparsable

Outcome == {"done", "refused", "failed"}
-----------------------------------------------------------------------------
\* What each name has in a tree.
Settings(tree) == [n \in Name |-> ValueAt(tree, n)]

DefaultTree ==
  [p \in {<<>>} \cup UNION {Prefixes(n) : n \in DOMAIN Default} |->
     IF p \in DOMAIN Default THEN Default[p] ELSE Empty]

Fresh == [settings |-> Root, defaultSettings |-> DefaultTree]
Views(trees) == [t \in DOMAIN trees |-> Settings(trees[t])]

Init ==
  /\ running = TRUE /\ settingsTree_ = Fresh /\ saveOnExit = FALSE /\ file = NoFile
  /\ asked = Views(Fresh) /\ asDefault = {} /\ edited = FALSE
  /\ loaded = "no" /\ kept = Unknown

SetSetting(name, value) ==
  /\ running
  /\ settingsTree_' = [settingsTree_ EXCEPT !.settings = Set(@, name, Chosen(name, value))]
  /\ asked' = [asked EXCEPT !.settings[name] = value]
  /\ asDefault' = IF value # Empty /\ value = asked.defaultSettings[name]
                  THEN asDefault \cup {name} ELSE asDefault \ {name}
  /\ UNCHANGED <<running, saveOnExit, file, edited, loaded, kept>>

SetDefault(name, value) ==
  /\ running
  /\ settingsTree_' = [settingsTree_ EXCEPT !.defaultSettings = Set(@, name, value)]
  /\ asked' = [asked EXCEPT !.defaultSettings[name] = value]
  /\ UNCHANGED <<running, saveOnExit, file, asDefault, edited, loaded, kept>>

Save ==
  /\ running /\ \E outcome \in Outcome : Writes(outcome)
  /\ UNCHANGED <<running, settingsTree_, saveOnExit, history, loaded, kept>>

\* load, without a file: nothing is read, and it is saved on exit.
LoadNothing(isSaveOnExit) ==
  /\ running /\ file = NoFile
  /\ saveOnExit' = (saveOnExit \/ isSaveOnExit) /\ loaded' = "yes"
  /\ UNCHANGED <<running, settingsTree_, file, history, kept>>

\* The settings are replaced, the ones that were set too.
Replaced(tree) ==
  /\ settingsTree_' = [settingsTree_ EXCEPT !.settings = tree]
  /\ asked' = [asked EXCEPT !.settings = Settings(tree)] /\ asDefault' = {}

\* load, with one
LoadFile(isSaveOnExit) ==
  /\ running /\ file \notin {NoFile, Unparsable} /\ Refused(file) = {}
  /\ Replaced(FromJson(file, settingsTree_.settings[<<>>]))
  /\ saveOnExit' = (saveOnExit \/ isSaveOnExit) /\ loaded' = "yes"
  /\ UNCHANGED <<running, file, edited, kept>>

\* Mutant: the name of the file is kept before it is read.
ArmedEarly(isSaveOnExit) == saveOnExit \/ isSaveOnExit

\* What a load that throws makes of saveOnExitFilename_.
Armed(isSaveOnExit) == saveOnExit

\* load, of a file that cannot be opened, read or parsed
LoadFails(isSaveOnExit) ==
  /\ running /\ file # NoFile
  /\ saveOnExit' = Armed(isSaveOnExit)
  /\ loaded' = IF loaded = "yes" THEN "yes" ELSE "failed"
  /\ UNCHANGED <<running, settingsTree_, file, history, kept>>

\* load, of a file that asString() throws at
LoadThrows(isSaveOnExit) ==
  /\ running /\ file \notin {NoFile, Unparsable}
  /\ \E tree \in TornTrees(file, settingsTree_.settings[<<>>]) : Replaced(tree)
  /\ saveOnExit' = Armed(isSaveOnExit)
  /\ loaded' = IF loaded = "yes" THEN "yes" ELSE "failed"
  /\ UNCHANGED <<running, file, edited, kept>>

\* A user writes the file.
WriteByHand ==
  /\ file' \in ByHand /\ edited' = TRUE /\ kept' = Unknown
  /\ UNCHANGED <<running, settingsTree_, saveOnExit, asked, asDefault, loaded>>

\* What the process holds is gone; the next one's constructor sets the defaults.
Ends ==
  /\ running /\ running' = FALSE
  /\ settingsTree_' = Fresh /\ saveOnExit' = FALSE /\ loaded' = "no"
  /\ asked' = Views(Fresh) /\ asDefault' = {} /\ UNCHANGED edited

\* ~SettingsManager: nobody hears of a save that fails.
Exit ==
  /\ Ends
  /\ \/ saveOnExit /\ \E outcome \in Outcome :
          /\ Writes(outcome)
          /\ kept' = IF outcome = "done" /\ IsWritten(settingsTree_.settings)
                     THEN Settings(settingsTree_.settings) ELSE Unknown
     \/ ~ saveOnExit /\ kept' = Unknown /\ UNCHANGED file

\* The process ends without running its destructors.
Kill ==
  /\ Ends /\ kept' = Unknown /\ UNCHANGED file

Start ==
  /\ ~ running /\ running' = TRUE /\ kept' = Unknown
  /\ UNCHANGED <<settingsTree_, saveOnExit, file, history, loaded>>

Next ==
  \/ \E name \in Name, value \in Value \cup {Empty} : SetSetting(name, value)
  \/ \E name \in DefaultName, value \in DefaultValue \cup {Empty} : SetDefault(name, value)
  \/ \E isSaveOnExit \in BOOLEAN :
       \/ LoadNothing(isSaveOnExit) \/ LoadFile(isSaveOnExit)
       \/ LoadFails(isSaveOnExit) \/ LoadThrows(isSaveOnExit)
  \/ WriteByHand \/ Save \/ Exit \/ Kill \/ Start

Spec == Init /\ [][Next]_vars
-----------------------------------------------------------------------------
Path == {<<>>} \cup UNION {Prefixes(n) : n \in Name}
IsTree(tree) ==
  /\ DOMAIN tree \subseteq Path /\ <<>> \in DOMAIN tree
  /\ \A p \in DOMAIN tree : tree[p] \in Value \cup {Empty} /\ Prefixes(p) \subseteq DOMAIN tree
Member == Path \cup {Append(p, Own) : p \in Path}
IsJson(json) ==
  DOMAIN json \subseteq Member /\ \A m \in DOMAIN json : json[m] \in Value \cup {Empty, Other}

\* A file is there and parses, or it does not.
ASSUME FileAssumption ==
  /\ Other \notin Value \cup {Empty}
  /\ \A json \in ByHand : IsJson(json)
  /\ \A members \in SUBSET Member :
       {NoFile, Unparsable} \cap [members -> Value \cup {Empty, Other}] = {}

TypeOK ==
  /\ running \in BOOLEAN /\ saveOnExit \in BOOLEAN /\ loaded \in {"no", "failed", "yes"}
  /\ DOMAIN settingsTree_ = {"settings", "defaultSettings"}
  /\ \A t \in DOMAIN settingsTree_ : IsTree(settingsTree_[t])
  /\ file \in {NoFile, Unparsable} \/ IsJson(file)
  /\ asked \in [{"settings", "defaultSettings"} -> [Name -> Value \cup {Empty}]]
  /\ asDefault \subseteq Name /\ edited \in BOOLEAN
  /\ kept = Unknown \/ kept \in [Name -> Value \cup {Empty}]

\* Clearing erases upwards: a branch that is not the root has a value or leads
\* to one, unless a null or a number that a user wrote made it.  One that has
\* not hides a default from get().
NoDeadBranch ==
  \A t \in DOMAIN settingsTree_ : \A p \in DOMAIN settingsTree_[t] \ {<<>>} :
    settingsTree_[t][p] = Empty /\ Below(settingsTree_[t], p) = {}
      => t = "settings" /\ edited

\* get() answers with the value that was last given to set(), or loaded.  One
\* that was the default when it was set is not kept (SettingsManager.cpp:86):
\* the name reads as the default of now, or as nothing where there are settings
\* below the name, as it does when it was never set.  After a user wrote the
\* file, what has no value of its own may read as nothing too.
LastSetIsRead ==
  \A n \in Name :
    LET IsKept(m) == asked.settings[m] # Empty /\ m \notin asDefault
        isHidden  == \E m \in Name : IsStrictPrefix(n, m) /\ IsKept(m)
    IN  CASE IsKept(n) -> Get(n) = asked.settings[n]
          [] ~ IsKept(n) /\ (isHidden \/ n = <<>>) -> Get(n) = Empty
          [] ~ IsKept(n) /\ ~ isHidden /\ n # <<>> ->
               Get(n) = asked.defaultSettings[n] \/ (edited /\ Get(n) = Empty)

\* What a process had set when it ended is what the next one will load, if
\* the save on exit was asked for and did not fail and no user wrote the file.
KeptIsRestored ==
  kept # Unknown /\ ~ running =>
    file # Unparsable /\ Settings(FromJson(file, Empty)) = kept

\* A settings file that a process could not read is not replaced when it exits.
ExitSparesUnread == [][running /\ ~ running' /\ loaded # "yes" => file' = file]_vars
=============================================================================
