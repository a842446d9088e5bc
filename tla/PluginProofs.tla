----------------------------- MODULE PluginProofs -----------------------------
(***************************************************************************)
(* The invariants of PluginSystem, for any plugins, values, number of      *)
(* faults and number of calls.                                             *)
(***************************************************************************)
EXTENDS PluginSystem, SequenceTheorems, TLAPS

Info == [name : Plugin, enabled : BOOLEAN, value : Value]
Record == [name : Plugin, enabled : BOOLEAN, value : Value, isActive : BOOLEAN, heard : Seq(Info)]
Packet == [type : {"PLUGIN"}, info : Info] \cup [type : {"PLUGIN_REMOVE"}, name : Plugin]
Host ==
  [plugins : Seq(Record), loaded : [Plugin -> Nat], crashed : BOOLEAN,
   blamed : SUBSET Plugin, faults : 0..MaxFaults, threw : BOOLEAN, sent : Seq(Packet)]

\* No name is listed twice.
Apart(s) ==
  \A i, j \in DOMAIN s.plugins : s.plugins[i].name = s.plugins[j].name => i = j

\* What holds of either vector, also in the middle of a call.
HostInv(s) ==
  /\ s \in Host /\ Apart(s)
  /\ EnabledAreActiveIn(s) /\ EnabledHeardIn(s) /\ CodeIsLoadedIn(s)

\* The plugin that a packet is about, and the infos that it leaves of it.
Subject(packet) == IF packet.type = "PLUGIN" THEN packet.info.name ELSE packet.name
Announced(packet) == IF packet.type = "PLUGIN" THEN {packet.info} ELSE {}

InfosOf(s, p) == {InfoOf(s.plugins[i]) : i \in IndexOf(s, p)}

\* No packet is about p; the last one that is leaves these infos.
Silent(packets, p) == \A k \in DOMAIN packets : Subject(packets[k]) # p
LastSays(packets, p, infos) ==
  \E k \in DOMAIN packets :
    /\ Subject(packets[k]) = p /\ Announced(packets[k]) = infos
    /\ \A j \in DOMAIN packets : j > k => Subject(packets[j]) # p

\* A listener with these infos of p gets to those, by these packets.
Leads(packets, p, before, infos) ==
  LastSays(packets, p, infos) \/ (Silent(packets, p) /\ before = infos)

\* What a call that began in s sent up to t is enough for the cores.
Follows(s, t) ==
  /\ s.blamed \subseteq t.blamed
  /\ \A p \in Plugin \ t.blamed : Leads(t.sent, p, InfosOf(s, p), InfosOf(t, p))

\* The core gets to what the manager has.
Mirrors ==
  connected => \A p \in HasCore \ (manager.blamed \cup core.blamed) :
    Leads(toCore, p, InfosOf(core, p), InfosOf(manager, p))

IInv ==
  /\ HostInv(manager) /\ manager.sent = <<>> /\ ~ manager.threw
  /\ HostInv(core) /\ core.sent = <<>> /\ ~ core.threw
  /\ connected \in BOOLEAN /\ toCore \in Seq(Packet) /\ calls \in 0..MaxCalls
  /\ ~ connected => toCore = <<>> \/ calls = MaxCalls
  /\ Mirrors
-----------------------------------------------------------------------------
(* One plugin of a vector changes.                                         *)

RecordGood(r) ==
  /\ r.enabled <=> r.isActive
  /\ r.enabled => r.heard = <<InfoOf(r)>>

\* The info of a plugin that is enabled or disabled.
WithEnabled(r, enabled) == [name |-> r.name, enabled |-> enabled, value |-> r.value]

\* Of the plugins, only the one at i is touched, and it keeps its name.
Changes(s, t, i) ==
  /\ t \in Host /\ t.plugins = [s.plugins EXCEPT ![i] = t.plugins[i]]
  /\ t.plugins[i].name = s.plugins[i].name
  /\ t.loaded = s.loaded /\ t.crashed = s.crashed
  /\ s.blamed \subseteq t.blamed /\ t.sent = s.sent

LEMMA HostFacts ==
  ASSUME NEW s \in Host
  PROVE  /\ s.plugins \in Seq(Record) /\ DOMAIN s.plugins = 1..Len(s.plugins)
         /\ Len(s.plugins) \in Nat
         /\ s.loaded \in [Plugin -> Nat] /\ s.crashed \in BOOLEAN /\ s.blamed \subseteq Plugin
         /\ s.faults \in 0..MaxFaults /\ s.threw \in BOOLEAN /\ s.sent \in Seq(Packet)
         /\ \A i \in DOMAIN s.plugins :
              /\ s.plugins[i] \in Record /\ InfoOf(s.plugins[i]) \in Info
              /\ s.plugins[i].name \in Plugin
<1>1. /\ s.plugins \in Seq(Record)
      /\ s.loaded \in [Plugin -> Nat] /\ s.crashed \in BOOLEAN /\ s.blamed \subseteq Plugin
      /\ s.faults \in 0..MaxFaults /\ s.threw \in BOOLEAN /\ s.sent \in Seq(Packet)
  BY DEF Host
<1>2. /\ DOMAIN s.plugins = 1..Len(s.plugins) /\ Len(s.plugins) \in Nat
      /\ \A i \in DOMAIN s.plugins : s.plugins[i] \in Record
  BY <1>1
<1>3. \A r \in Record : InfoOf(r) \in Info /\ r.name \in Plugin
  BY DEF Record, Info, InfoOf
<1> QED
  BY <1>1, <1>2, <1>3

LEMMA ChangesTwice ==
  ASSUME NEW s \in Host, NEW i \in DOMAIN s.plugins, NEW t, Changes(s, t, i),
         NEW u, Changes(t, u, i)
  PROVE  Changes(s, u, i) /\ i \in DOMAIN t.plugins
<1>1. /\ i \in DOMAIN t.plugins
      /\ u.plugins = [s.plugins EXCEPT ![i] = u.plugins[i]]
  BY HostFacts DEF Changes
<1> QED
  BY <1>1 DEF Changes

\* The callbacks.
LEMMA BlamesFacts ==
  ASSUME NEW s \in Host, NEW name \in Plugin, NEW t \in Blames(s, name)
  PROVE  /\ t \in Host /\ t.plugins = s.plugins /\ t.loaded = s.loaded
         /\ t.crashed = s.crashed /\ t.sent = s.sent /\ t.threw = s.threw
         /\ t.blamed = s.blamed \cup {name}
<1>1. t = [s EXCEPT !.faults = s.faults + 1, !.blamed = s.blamed \cup {name}] /\ s.faults < MaxFaults
  BY DEF Blames
<1>2. s.faults + 1 \in 0..MaxFaults
  BY <1>1, HostFacts, PluginAssumption
<1>3. t \in Host
  BY <1>1, <1>2 DEF Host
<1>4. DOMAIN s = {"plugins", "loaded", "crashed", "blamed", "faults", "threw", "sent"}
  BY DEF Host
<1> QED
  BY <1>1, <1>3, <1>4

LEMMA FailsFacts ==
  ASSUME NEW s \in Host, NEW name \in Plugin, NEW t \in Fails(s, name)
  PROVE  /\ t \in Host /\ t.plugins = s.plugins /\ t.loaded = s.loaded
         /\ t.crashed = s.crashed /\ t.sent = s.sent /\ t.threw
         /\ t.blamed = s.blamed \cup {name}
<1>1. PICK u \in Blames(s, name) : t = [u EXCEPT !.threw = TRUE]
  BY DEF Fails, Throws
<1>2. /\ u \in Host /\ u.plugins = s.plugins /\ u.loaded = s.loaded
      /\ u.crashed = s.crashed /\ u.sent = s.sent /\ u.blamed = s.blamed \cup {name}
  BY BlamesFacts
<1>3. t \in Host
  BY <1>1, <1>2 DEF Host
<1>4. DOMAIN u = {"plugins", "loaded", "crashed", "blamed", "faults", "threw", "sent"}
  BY <1>2 DEF Host
<1> QED
  BY <1>1, <1>2, <1>3, <1>4

\* A record of a plugin is replaced by one of the same name.
LEMMA PutRecord ==
  ASSUME NEW s \in Host, NEW i \in DOMAIN s.plugins, NEW r \in Record,
         r.name = s.plugins[i].name, NEW t, t = [s EXCEPT !.plugins[i] = r]
  PROVE  Changes(s, t, i) /\ t.plugins[i] = r /\ t.threw = s.threw /\ t.blamed = s.blamed
         /\ i \in DOMAIN t.plugins
<1>1. t = [s EXCEPT !.plugins = [s.plugins EXCEPT ![i] = r]]
  OBVIOUS
<1>2. [s.plugins EXCEPT ![i] = r] \in Seq(Record)
  BY HostFacts
<1>3. t \in Host
  BY <1>1, <1>2 DEF Host
<1>4. t.plugins = [s.plugins EXCEPT ![i] = r] /\ t.threw = s.threw /\ t.blamed = s.blamed
      /\ t.loaded = s.loaded /\ t.crashed = s.crashed /\ t.sent = s.sent
  BY <1>1 DEF Host
<1> QED
  BY <1>3, <1>4, HostFacts DEF Changes

\* A callback that throws changes no plugin.
LEMMA BlameChanges ==
  ASSUME NEW s \in Host, NEW i \in DOMAIN s.plugins, NEW name \in Plugin,
         NEW t \in Blames(s, name) \cup Fails(s, name)
  PROVE  /\ Changes(s, t, i) /\ t.plugins = s.plugins /\ name \in t.blamed
<1>1. /\ t \in Host /\ t.plugins = s.plugins /\ t.loaded = s.loaded /\ t.crashed = s.crashed
      /\ t.sent = s.sent /\ t.blamed = s.blamed \cup {name}
  <2>1. CASE t \in Blames(s, name)
    BY <2>1, BlamesFacts
  <2>2. CASE t \in Fails(s, name)
    BY <2>2, FailsFacts
  <2> QED
    BY <2>1, <2>2
<1>2. t.plugins = [s.plugins EXCEPT ![i] = t.plugins[i]]
  BY <1>1, HostFacts
<1> QED
  BY <1>1, <1>2 DEF Changes

LEMMA OnSettingChangeFacts ==
  ASSUME NEW s \in Host, NEW i \in DOMAIN s.plugins, ~ s.threw, NEW t \in OnSettingChange(s, i)
  PROVE  /\ Changes(s, t, i) /\ i \in DOMAIN t.plugins
         /\ t.plugins[i] = [s.plugins[i] EXCEPT !.heard = <<InfoOf(s.plugins[i])>>]
         /\ t.threw => s.plugins[i].name \in t.blamed
<1> DEFINE r == [s.plugins[i] EXCEPT !.heard = <<InfoOf(s.plugins[i])>>]
           u == [s EXCEPT !.plugins[i] = r]
           name == s.plugins[i].name
<1>1. s.plugins[i] \in Record /\ InfoOf(s.plugins[i]) \in Info /\ name \in Plugin
  BY HostFacts
<1>2. r \in Record /\ r.name = name
  <2>1. <<InfoOf(s.plugins[i])>> \in Seq(Info)
    BY <1>1
  <2> QED
    BY <1>1, <2>1 DEF Record
<1>3. u = [s EXCEPT !.plugins[i].heard = <<InfoOf(s.plugins[i])>>]
  BY HostFacts DEF Host
<1>4. t = u \/ t \in Fails(u, name)
  BY <1>3 DEF OnSettingChange
<1> HIDE DEF r
<1>5. Changes(s, u, i) /\ u.plugins[i] = r /\ u.threw = s.threw /\ i \in DOMAIN u.plugins
  BY <1>2, PutRecord
<1>6. u \in Host
  BY <1>5 DEF Changes
<1> HIDE DEF u, name
<1>7. CASE t = u
  BY <1>5, <1>7 DEF r, name
<1>8. CASE t \in Fails(u, name)
  <2>1. Changes(u, t, i) /\ t.plugins = u.plugins /\ name \in t.blamed
    BY <1>1, <1>5, <1>6, <1>8, BlameChanges
  <2> QED
    BY <2>1, <1>5, ChangesTwice DEF r, name
<1> QED
  BY <1>4, <1>7, <1>8

LEMMA OnEnableFacts ==
  ASSUME NEW s \in Host, NEW i \in DOMAIN s.plugins, ~ s.threw, NEW t \in OnEnable(s, i)
  PROVE  /\ Changes(s, t, i) /\ i \in DOMAIN t.plugins
         /\ \/ t.threw /\ s.plugins[i].name \in t.blamed /\ t.plugins[i] = s.plugins[i]
            \/ ~ t.threw /\ t.plugins[i] = [s.plugins[i] EXCEPT !.isActive = TRUE]
<1> DEFINE r == [s.plugins[i] EXCEPT !.isActive = TRUE]
           u == [s EXCEPT !.plugins[i] = r]
           name == s.plugins[i].name
<1>1. s.plugins[i] \in Record /\ name \in Plugin
  BY HostFacts
<1>2. r \in Record /\ r.name = name
  BY <1>1 DEF Record
<1>3. u = [s EXCEPT !.plugins[i].isActive = TRUE]
  BY HostFacts DEF Host
<1>4. t = u \/ t \in Fails(s, name)
  BY <1>3 DEF OnEnable
<1> HIDE DEF r
<1>5. Changes(s, u, i) /\ u.plugins[i] = r /\ u.threw = s.threw /\ i \in DOMAIN u.plugins
  BY <1>2, PutRecord
<1> HIDE DEF u, name
<1>7. CASE t = u
  BY <1>5, <1>7 DEF r, name
<1>8. CASE t \in Fails(s, name)
  <2>1. Changes(s, t, i) /\ t.plugins = s.plugins /\ name \in t.blamed
    BY <1>1, <1>8, BlameChanges
  <2>2. t.threw
    BY <1>1, <1>8, FailsFacts
  <2> QED
    BY <2>1, <2>2 DEF name
<1> QED
  BY <1>4, <1>7, <1>8

LEMMA OnDisableFacts ==
  ASSUME NEW s \in Host, NEW i \in DOMAIN s.plugins, ~ s.threw, NEW t \in OnDisable(s, i)
  PROVE  /\ Changes(s, t, i) /\ i \in DOMAIN t.plugins /\ ~ t.threw
         /\ t.plugins[i] = [s.plugins[i] EXCEPT !.isActive = FALSE]
<1> DEFINE r == [s.plugins[i] EXCEPT !.isActive = FALSE]
           u == [s EXCEPT !.plugins[i] = r]
           name == s.plugins[i].name
<1>1. s.plugins[i] \in Record /\ name \in Plugin
  BY HostFacts
<1>2. r \in Record /\ r.name = name
  BY <1>1 DEF Record
<1>3. u = [s EXCEPT !.plugins[i].isActive = FALSE]
  BY HostFacts DEF Host
<1> HIDE DEF r
<1>5. Changes(s, u, i) /\ u.plugins[i] = r /\ u.threw = s.threw /\ i \in DOMAIN u.plugins
  BY <1>2, PutRecord
<1>6. u \in Host /\ u.plugins[i].name = name
  BY <1>2, <1>5 DEF Changes
<1>4. t = u \/ t \in Blames(u, name)
  BY <1>3, <1>6 DEF OnDisable
<1> HIDE DEF u, name
<1>7. CASE t = u
  BY <1>5, <1>7 DEF r, name
<1>8. CASE t \in Blames(u, name)
  <2>1. Changes(u, t, i) /\ t.plugins = u.plugins
    BY <1>1, <1>5, <1>6, <1>8, BlameChanges
  <2>2. t.threw = u.threw
    BY <1>1, <1>6, <1>8, BlamesFacts
  <2> QED
    BY <2>1, <2>2, <1>5, ChangesTwice DEF r, name
<1> QED
  BY <1>4, <1>7, <1>8


\* A disabled plugin that is enabled.
LEMMA EnableFacts ==
  ASSUME NEW s \in Host, NEW i \in DOMAIN s.plugins, ~ s.threw, NEW t \in Enable(s, i),
         ~ s.plugins[i].enabled, ~ s.plugins[i].isActive
  PROVE  /\ Changes(s, t, i) /\ i \in DOMAIN t.plugins /\ RecordGood(t.plugins[i])
         /\ t.threw => s.plugins[i].name \in t.blamed
         /\ t.threw \/ InfoOf(t.plugins[i]) = WithEnabled(s.plugins[i], TRUE)
<1> DEFINE Marked(u) == [u EXCEPT !.plugins[i].enabled = TRUE]
<1>1. PICK u \in OnEnable(s, i) : (u.threw /\ t = u) \/ (~ u.threw /\ t \in OnSettingChange(Marked(u), i))
  BY DEF Enable, Then
<1>2. /\ Changes(s, u, i) /\ i \in DOMAIN u.plugins /\ u \in Host
      /\ \/ u.threw /\ s.plugins[i].name \in u.blamed /\ u.plugins[i] = s.plugins[i]
         \/ ~ u.threw /\ u.plugins[i] = [s.plugins[i] EXCEPT !.isActive = TRUE]
  BY OnEnableFacts DEF Changes
<1>3. s.plugins[i] \in Record /\ u.plugins[i] \in Record
  BY <1>2, HostFacts
<1>4. CASE u.threw
  BY <1>1, <1>2, <1>4 DEF RecordGood
<1>5. CASE ~ u.threw
  <2> DEFINE r == [u.plugins[i] EXCEPT !.enabled = TRUE]
             v == Marked(u)
  <2>1. r \in Record /\ r.name = u.plugins[i].name /\ r.isActive /\ r.enabled
    BY <1>2, <1>3, <1>5 DEF Record
  <2>2. v = [u EXCEPT !.plugins[i] = r]
    BY <1>2, HostFacts DEF Host
  <2>3. InfoOf(r) = WithEnabled(s.plugins[i], TRUE)
    <3>1. r.name = s.plugins[i].name /\ r.value = s.plugins[i].value /\ r.enabled = TRUE
      BY <1>2, <1>3, <1>5 DEF Record
    <3> HIDE DEF r
    <3> QED
      BY <3>1 DEF InfoOf, WithEnabled
  <2>4. t \in OnSettingChange(v, i)
    BY <1>1, <1>5
  <2> HIDE DEF r, v
  <2>5. Changes(u, v, i) /\ v.plugins[i] = r /\ v.threw = u.threw /\ i \in DOMAIN v.plugins
    BY <1>2, <2>1, <2>2, PutRecord
  <2>6. v \in Host
    BY <2>5 DEF Changes
  <2>7. /\ Changes(v, t, i) /\ i \in DOMAIN t.plugins
        /\ t.plugins[i] = [r EXCEPT !.heard = <<InfoOf(r)>>]
        /\ t.threw => r.name \in t.blamed
    BY <1>5, <2>4, <2>5, <2>6, OnSettingChangeFacts
  <2>8. Changes(s, t, i)
    BY <1>2, <2>5, <2>7, ChangesTwice
  <2>9. InfoOf(t.plugins[i]) = InfoOf(r) /\ RecordGood(t.plugins[i])
    BY <2>1, <2>7 DEF Record, InfoOf, RecordGood
  <2>10. r.name = s.plugins[i].name
    BY <1>2, <2>1 DEF Changes
  <2> QED
    BY <2>3, <2>7, <2>8, <2>9, <2>10
<1> QED
  BY <1>4, <1>5

\* An enabled plugin that is disabled, whatever it was told last.
LEMMA DisableFacts ==
  ASSUME NEW s \in Host, NEW i \in DOMAIN s.plugins, ~ s.threw, NEW t \in Disable(s, i),
         s.plugins[i].enabled
  PROVE  /\ Changes(s, t, i) /\ i \in DOMAIN t.plugins /\ RecordGood(t.plugins[i])
         /\ t.threw => s.plugins[i].name \in t.blamed
         /\ InfoOf(t.plugins[i]) = WithEnabled(s.plugins[i], FALSE)
<1> DEFINE Marked(u) == [u EXCEPT !.plugins[i].enabled = FALSE]
<1>1. PICK u \in OnDisable(s, i) : (u.threw /\ t = u) \/ (~ u.threw /\ t \in OnSettingChange(Marked(u), i))
  BY DEF Disable, Then
<1>2. /\ Changes(s, u, i) /\ i \in DOMAIN u.plugins /\ u \in Host /\ ~ u.threw
      /\ u.plugins[i] = [s.plugins[i] EXCEPT !.isActive = FALSE]
  BY OnDisableFacts DEF Changes
<1>3. s.plugins[i] \in Record /\ u.plugins[i] \in Record
  BY <1>2, HostFacts
<1> DEFINE r == [u.plugins[i] EXCEPT !.enabled = FALSE]
           v == Marked(u)
<1>4. r \in Record /\ r.name = u.plugins[i].name /\ ~ r.isActive /\ ~ r.enabled
  BY <1>2, <1>3 DEF Record
<1>5. v = [u EXCEPT !.plugins[i] = r]
  BY <1>2, HostFacts DEF Host
<1>6. InfoOf(r) = WithEnabled(s.plugins[i], FALSE)
  <2>1. r.name = s.plugins[i].name /\ r.value = s.plugins[i].value /\ r.enabled = FALSE
    BY <1>2, <1>3 DEF Record
  <2> HIDE DEF r
  <2> QED
    BY <2>1 DEF InfoOf, WithEnabled
<1>7. t \in OnSettingChange(v, i)
  BY <1>1, <1>2
<1> HIDE DEF r, v
<1>8. Changes(u, v, i) /\ v.plugins[i] = r /\ v.threw = u.threw /\ i \in DOMAIN v.plugins
  <2>1. u \in Host /\ i \in DOMAIN u.plugins
    BY <1>2
  <2> QED
    BY <1>4, <1>5, <2>1, PutRecord
<1>9. v \in Host
  BY <1>8 DEF Changes
<1>10. /\ Changes(v, t, i) /\ i \in DOMAIN t.plugins
       /\ t.plugins[i] = [r EXCEPT !.heard = <<InfoOf(r)>>]
       /\ t.threw => r.name \in t.blamed
  BY <1>2, <1>7, <1>8, <1>9, OnSettingChangeFacts
<1>11. Changes(s, t, i)
  BY <1>2, <1>8, <1>10, ChangesTwice
<1>12. InfoOf(t.plugins[i]) = InfoOf(r) /\ RecordGood(t.plugins[i])
  BY <1>4, <1>10 DEF Record, InfoOf, RecordGood
<1>13. r.name = s.plugins[i].name
  BY <1>2, <1>4 DEF Changes
<1> QED
  BY <1>6, <1>10, <1>11, <1>12, <1>13

\* What touches one plugin and leaves it well keeps the vector well.
LEMMA ChangesInv ==
  ASSUME NEW s \in Host, NEW i \in DOMAIN s.plugins, NEW t, Changes(s, t, i),
         HostInv(s), RecordGood(t.plugins[i])
  PROVE  HostInv(t)
<1>1. t \in Host /\ s \in Host /\ DOMAIN t.plugins = DOMAIN s.plugins
  BY HostFacts DEF Changes
<1>2. ASSUME NEW j \in DOMAIN t.plugins
      PROVE  /\ t.plugins[j].name = s.plugins[j].name
             /\ j # i => t.plugins[j] = s.plugins[j]
  BY <1>1, HostFacts DEF Changes
<1>3. Apart(t)
  BY <1>1, <1>2 DEF HostInv, Apart
<1>4. CodeIsLoadedIn(t)
  BY <1>1, <1>2 DEF HostInv, CodeIsLoadedIn, Changes
<1>5. EnabledAreActiveIn(t)
  BY <1>1, <1>2 DEF HostInv, EnabledAreActiveIn, RecordGood
<1>6. EnabledHeardIn(t)
  BY <1>1, <1>2 DEF HostInv, EnabledHeardIn, RecordGood
<1> QED
  BY <1>1, <1>3, <1>4, <1>5, <1>6 DEF HostInv

LEMMA IndexFacts ==
  ASSUME NEW s, Apart(s), NEW i \in DOMAIN s.plugins
  PROVE  /\ IndexOf(s, s.plugins[i].name) = {i}
         /\ InfosOf(s, s.plugins[i].name) = {InfoOf(s.plugins[i])}
<1>1. IndexOf(s, s.plugins[i].name) = {i}
  BY DEF IndexOf, Apart
<1> QED
  BY <1>1 DEF InfosOf

\* Nothing changes for the other plugins.
LEMMA ChangesInfos ==
  ASSUME NEW s \in Host, NEW i \in DOMAIN s.plugins, NEW t, Changes(s, t, i),
         NEW p, p # s.plugins[i].name
  PROVE  InfosOf(t, p) = InfosOf(s, p) /\ IndexOf(t, p) = IndexOf(s, p)
<1>1. t \in Host /\ DOMAIN t.plugins = DOMAIN s.plugins
  BY HostFacts DEF Changes
<1>2. ASSUME NEW j \in DOMAIN t.plugins
      PROVE  /\ t.plugins[j].name = s.plugins[j].name
             /\ j # i => t.plugins[j] = s.plugins[j]
  BY <1>1, HostFacts DEF Changes
<1>3. IndexOf(t, p) = IndexOf(s, p) /\ i \notin IndexOf(s, p)
  BY <1>1, <1>2 DEF IndexOf
<1>4. \A j \in IndexOf(s, p) : t.plugins[j] = s.plugins[j]
  BY <1>1, <1>2, <1>3 DEF IndexOf
<1> QED
  BY <1>3, <1>4 DEF InfosOf

-----------------------------------------------------------------------------
(* Packets.                                                                *)

LEMMA PacketFacts ==
  /\ \A info \in Info :
       LET packet == [type |-> "PLUGIN", info |-> info] IN
       packet \in Packet /\ Subject(packet) = info.name /\ Announced(packet) = {info}
  /\ \A p \in Plugin :
       LET packet == [type |-> "PLUGIN_REMOVE", name |-> p] IN
       packet \in Packet /\ Subject(packet) = p /\ Announced(packet) = {}
BY DEF Packet, Subject, Announced

LEMMA LastIsAppended ==
  ASSUME NEW packets \in Seq(Packet), NEW packet \in Packet, NEW p, Subject(packet) = p,
         NEW before
  PROVE  Leads(Append(packets, packet), p, before, Announced(packet))
<1> DEFINE longer == Append(packets, packet)
           n == Len(packets) + 1
<1>1. DOMAIN longer = 1..n /\ n \in 1..n /\ longer[n] = packet
  OBVIOUS
<1> HIDE DEF longer, n
<1>2. LastSays(longer, p, Announced(packet))
  BY <1>1 DEF LastSays, n
<1> QED
  BY <1>2 DEF Leads, longer

LEMMA OtherIsAppended ==
  ASSUME NEW packets \in Seq(Packet), NEW packet \in Packet, NEW p, Subject(packet) # p,
         NEW before, NEW infos, Leads(packets, p, before, infos)
  PROVE  Leads(Append(packets, packet), p, before, infos)
<1> DEFINE longer == Append(packets, packet)
           n == Len(packets) + 1
<1>1. /\ DOMAIN longer = 1..n /\ longer[n] = packet /\ DOMAIN packets = 1..(n - 1) /\ n \in Nat
      /\ \A k \in 1..(n - 1) : longer[k] = packets[k]
  OBVIOUS
<1> HIDE DEF longer, n
<1>2. CASE LastSays(packets, p, infos)
  <2>1. PICK k \in DOMAIN packets :
           /\ Subject(packets[k]) = p /\ Announced(packets[k]) = infos
           /\ \A j \in DOMAIN packets : j > k => Subject(packets[j]) # p
    BY <1>2 DEF LastSays
  <2>2. k \in DOMAIN longer /\ longer[k] = packets[k]
    BY <1>1
  <2>3. ASSUME NEW j \in DOMAIN longer, j > k PROVE Subject(longer[j]) # p
    BY <1>1, <2>1, <2>3
  <2>4. LastSays(longer, p, infos)
    BY <2>1, <2>2, <2>3 DEF LastSays
  <2> QED
    BY <2>4 DEF Leads, longer
<1>3. CASE Silent(packets, p) /\ before = infos
  <2>1. Silent(longer, p)
    BY <1>1, <1>3 DEF Silent
  <2> QED
    BY <1>3, <2>1 DEF Leads, longer
<1> QED
  BY <1>2, <1>3 DEF Leads

\* One series of packets after another.
LEMMA LeadsOn ==
  ASSUME NEW first \in Seq(Packet), NEW second \in Seq(Packet), NEW p,
         NEW before, NEW between, NEW infos,
         Leads(first, p, before, between), Leads(second, p, between, infos)
  PROVE  Leads(first \o second, p, before, infos)
<1> DEFINE both == first \o second
           m == Len(first)
           n == Len(second)
<1>1. /\ m \in Nat /\ n \in Nat /\ DOMAIN first = 1..m /\ DOMAIN second = 1..n
      /\ DOMAIN both = 1..(m + n)
      /\ \A k \in 1..m : both[k] = first[k]
      /\ \A k \in 1..n : both[m + k] = second[k]
      /\ \A k \in 1..(m + n) : k <= m \/ (k - m \in 1..n /\ both[k] = second[k - m])
  OBVIOUS
<1> HIDE DEF both, m, n
<1>2. CASE LastSays(second, p, infos)
  <2>1. PICK k \in DOMAIN second :
           /\ Subject(second[k]) = p /\ Announced(second[k]) = infos
           /\ \A j \in DOMAIN second : j > k => Subject(second[j]) # p
    BY <1>2 DEF LastSays
  <2>2. m + k \in DOMAIN both /\ both[m + k] = second[k]
    BY <1>1
  <2>3. ASSUME NEW j \in DOMAIN both, j > m + k PROVE Subject(both[j]) # p
    <3>1. j - m \in 1..n /\ both[j] = second[j - m] /\ j - m > k
      BY <1>1, <2>3
    <3> QED
      BY <1>1, <2>1, <3>1
  <2>4. LastSays(both, p, infos)
    BY <2>1, <2>2, <2>3 DEF LastSays
  <2> QED
    BY <2>4 DEF Leads, both
<1>3. CASE Silent(second, p) /\ between = infos /\ LastSays(first, p, between)
  <2>1. PICK k \in DOMAIN first :
           /\ Subject(first[k]) = p /\ Announced(first[k]) = infos
           /\ \A j \in DOMAIN first : j > k => Subject(first[j]) # p
    BY <1>3 DEF LastSays
  <2>2. k \in DOMAIN both /\ both[k] = first[k]
    BY <1>1
  <2>3. ASSUME NEW j \in DOMAIN both, j > k PROVE Subject(both[j]) # p
    <3>1. CASE j <= m
      BY <1>1, <2>1, <2>3, <3>1
    <3>2. CASE ~ (j <= m)
      <4>1. j - m \in 1..n /\ both[j] = second[j - m]
        BY <1>1, <3>2
      <4> QED
        BY <1>1, <1>3, <4>1 DEF Silent
    <3> QED
      BY <3>1, <3>2
  <2>4. LastSays(both, p, infos)
    BY <2>1, <2>2, <2>3 DEF LastSays
  <2> QED
    BY <2>4 DEF Leads, both
<1>4. CASE Silent(second, p) /\ between = infos /\ Silent(first, p) /\ before = between
  <2>1. ASSUME NEW k \in DOMAIN both PROVE Subject(both[k]) # p
    <3>1. CASE k <= m
      BY <1>1, <1>4, <3>1 DEF Silent
    <3>2. CASE ~ (k <= m)
      BY <1>1, <1>4, <3>2 DEF Silent
    <3> QED
      BY <3>1, <3>2
  <2> QED
    BY <1>4, <2>1 DEF Leads, Silent, both
<1> QED
  BY <1>2, <1>3, <1>4 DEF Leads

\* The first packet is handled.
LEMMA LeadsAfterHead ==
  ASSUME NEW packets \in Seq(Packet), packets # <<>>, NEW p, NEW before, NEW infos,
         Leads(packets, p, before, infos), NEW now,
         IF Subject(Head(packets)) = p THEN now = Announced(Head(packets)) ELSE now = before
  PROVE  Leads(Tail(packets), p, now, infos)
<1> DEFINE rest == Tail(packets)
           n == Len(packets)
<1>1. /\ n \in Nat /\ n >= 1 /\ DOMAIN packets = 1..n /\ DOMAIN rest = 1..(n - 1)
      /\ Head(packets) = packets[1]
      /\ \A k \in 1..(n - 1) : rest[k] = packets[k + 1]
  OBVIOUS
<1> HIDE DEF rest, n
<1>2. CASE LastSays(packets, p, infos)
  <2>1. PICK k \in DOMAIN packets :
           /\ Subject(packets[k]) = p /\ Announced(packets[k]) = infos
           /\ \A j \in DOMAIN packets : j > k => Subject(packets[j]) # p
    BY <1>2 DEF LastSays
  <2>2. CASE k = 1
    <3>1. now = infos
      BY <1>1, <2>1, <2>2
    <3>2. ASSUME NEW j \in DOMAIN rest PROVE Subject(rest[j]) # p
      <4>1. j + 1 \in DOMAIN packets /\ j + 1 > k /\ rest[j] = packets[j + 1]
        BY <1>1, <2>2
      <4> QED
        BY <2>1, <4>1
    <3> QED
      BY <3>1, <3>2 DEF Leads, Silent, rest
  <2>3. CASE k # 1
    <3>1. k - 1 \in DOMAIN rest /\ rest[k - 1] = packets[k]
      BY <1>1, <2>3
    <3>2. ASSUME NEW j \in DOMAIN rest, j > k - 1 PROVE Subject(rest[j]) # p
      <4>1. j + 1 \in DOMAIN packets /\ j + 1 > k /\ rest[j] = packets[j + 1]
        BY <1>1, <3>2
      <4> QED
        BY <2>1, <4>1
    <3>3. LastSays(rest, p, infos)
      BY <2>1, <3>1, <3>2 DEF LastSays
    <3> QED
      BY <3>3 DEF Leads, rest
  <2> QED
    BY <2>2, <2>3
<1>3. CASE Silent(packets, p) /\ before = infos
  <2>1. 1 \in DOMAIN packets
    BY <1>1
  <2>2. now = infos
    BY <1>1, <1>3, <2>1 DEF Silent
  <2>3. ASSUME NEW j \in DOMAIN rest PROVE Subject(rest[j]) # p
    BY <1>1, <1>3 DEF Silent
  <2> QED
    BY <2>2, <2>3 DEF Leads, Silent, rest
<1> QED
  BY <1>2, <1>3 DEF Leads

-----------------------------------------------------------------------------
(* The calls of the manager.                                               *)

\* As Follows, but for the plugins of a set that are still to be told of.
FollowsBut(s, t, Q) ==
  /\ s.blamed \subseteq t.blamed
  /\ \A p \in Plugin \ (t.blamed \cup Q) : Leads(t.sent, p, InfosOf(s, p), InfosOf(t, p))

\* Where a call may have got to that began in s.
Kept(s) == {t \in Host : HostInv(t) /\ Follows(s, t)}

LEMMA NothingDone ==
  ASSUME NEW s, HostInv(s), s.sent = <<>>
  PROVE  s \in Kept(s)
<1>1. \A p : Silent(s.sent, p)
  BY DEF Silent
<1> QED
  BY <1>1 DEF Kept, Follows, Leads, HostInv

\* States that differ only in what has gone wrong.
LEMMA SameVector ==
  ASSUME NEW s, NEW t \in Host, HostInv(s), t.plugins = s.plugins, t.loaded = s.loaded,
         t.crashed = s.crashed
  PROVE  HostInv(t) /\ \A p : InfosOf(t, p) = InfosOf(s, p)
<1>1. Apart(t) /\ EnabledAreActiveIn(t) /\ EnabledHeardIn(t) /\ CodeIsLoadedIn(t)
  BY DEF HostInv, Apart, EnabledAreActiveIn, EnabledHeardIn, CodeIsLoadedIn
<1> QED
  BY <1>1 DEF HostInv, InfosOf, IndexOf

LEMMA KeptAnyway ==
  ASSUME NEW s, NEW t \in Kept(s), NEW u \in Host, u.plugins = t.plugins, u.loaded = t.loaded,
         u.crashed = t.crashed, u.sent = t.sent, t.blamed \subseteq u.blamed
  PROVE  u \in Kept(s)
<1>1. HostInv(u) /\ \A p : InfosOf(u, p) = InfosOf(t, p)
  BY SameVector DEF Kept
<1> QED
  BY <1>1 DEF Kept, Follows

LEMMA ThrowsFacts ==
  ASSUME NEW s \in Host, NEW t, t = Throws(s)
  PROVE  /\ t \in Host /\ t.plugins = s.plugins /\ t.loaded = s.loaded /\ t.crashed = s.crashed
         /\ t.sent = s.sent /\ t.blamed = s.blamed /\ t.threw
<1>1. DOMAIN s = {"plugins", "loaded", "crashed", "blamed", "faults", "threw", "sent"}
  BY DEF Host
<1>2. Throws(s) \in Host
  BY DEF Host, Throws
<1> QED
  BY <1>1, <1>2 DEF Throws

LEMMA SendFacts ==
  ASSUME NEW s \in Host, NEW packet \in Packet, NEW t \in Send(s, packet)
  PROVE  /\ t \in Host /\ t.plugins = s.plugins /\ t.loaded = s.loaded
         /\ t.crashed = s.crashed /\ t.blamed = s.blamed /\ t.threw = s.threw
         /\ t.sent = Append(s.sent, packet)
<1>1. t = [s EXCEPT !.sent = Append(s.sent, packet)]
  BY DEF Send
<1>2. Append(s.sent, packet) \in Seq(Packet)
  BY HostFacts
<1>3. t \in Host
  BY <1>1, <1>2 DEF Host
<1>4. DOMAIN s = {"plugins", "loaded", "crashed", "blamed", "faults", "threw", "sent"}
  BY DEF Host
<1> QED
  BY <1>1, <1>3, <1>4

\* A step at plugin i is followed by what is sent of it, or has it blamed, or
\* leaves its info.
LEMMA StepKeeps ==
  ASSUME NEW s, NEW r, HostInv(r), NEW i \in DOMAIN r.plugins,
         NEW Q \in SUBSET {r.plugins[i].name}, FollowsBut(s, r, Q),
         NEW t, Changes(r, t, i), RecordGood(t.plugins[i]), NEW u,
         \/ /\ u = t
            /\ \/ r.plugins[i].name \in t.blamed
               \/ Q = {} /\ InfoOf(t.plugins[i]) = InfoOf(r.plugins[i])
         \/ u \in UpdateCoresAbout(t, i)
  PROVE  u \in Kept(s) /\ DOMAIN u.plugins = DOMAIN r.plugins /\ u.plugins[i] = t.plugins[i]
<1> DEFINE name == r.plugins[i].name
           packet == [type |-> "PLUGIN", info |-> InfoOf(t.plugins[i])]
<1>1. r \in Host /\ t \in Host /\ HostInv(t) /\ Apart(r) /\ Apart(t)
  BY ChangesInv DEF Changes, HostInv
<1>2. DOMAIN t.plugins = DOMAIN r.plugins /\ i \in DOMAIN t.plugins /\ t.plugins[i].name = name
  BY <1>1, HostFacts DEF Changes
<1>3. InfosOf(t, name) = {InfoOf(t.plugins[i])} /\ InfosOf(r, name) = {InfoOf(r.plugins[i])}
  BY <1>1, <1>2, IndexFacts
<1>4. \A p : p # name => InfosOf(t, p) = InfosOf(r, p)
  BY <1>1, ChangesInfos
<1>5. r.blamed \subseteq t.blamed /\ t.sent = r.sent
  BY DEF Changes
<1>6. CASE /\ u = t
           /\ \/ name \in t.blamed
              \/ Q = {} /\ InfoOf(t.plugins[i]) = InfoOf(r.plugins[i])
  <2>1. ASSUME NEW p \in Plugin \ t.blamed
        PROVE  Leads(t.sent, p, InfosOf(s, p), InfosOf(t, p))
    <3>1. InfosOf(t, p) = InfosOf(r, p) /\ p \notin Q
      BY <1>3, <1>4, <1>6
    <3> QED
      BY <1>5, <3>1 DEF FollowsBut
  <2>2. s.blamed \subseteq t.blamed
    BY <1>5 DEF FollowsBut
  <2> QED
    BY <1>1, <1>2, <1>6, <2>1, <2>2 DEF Kept, Follows
<1>7. CASE u \in UpdateCoresAbout(t, i)
  <2>1. InfoOf(t.plugins[i]) \in Info /\ InfoOf(t.plugins[i]).name = name
    BY <1>1, <1>2, HostFacts DEF InfoOf
  <2> HIDE DEF name
  <2>2. packet \in Packet /\ Subject(packet) = name /\ Announced(packet) = InfosOf(t, name)
    BY <1>3, <2>1, PacketFacts
  <2>3. u \in Send(t, packet)
    BY <1>7 DEF UpdateCoresAbout
  <2> HIDE DEF packet
  <2>4. /\ u \in Host /\ u.plugins = t.plugins /\ u.loaded = t.loaded
        /\ u.crashed = t.crashed /\ u.blamed = t.blamed
        /\ u.sent = Append(t.sent, packet)
    BY <1>1, <2>2, <2>3, SendFacts
  <2>5. HostInv(u) /\ \A p : InfosOf(u, p) = InfosOf(t, p)
    BY <1>1, <2>4, SameVector
  <2>6. t.sent \in Seq(Packet)
    BY <1>1, HostFacts
  <2>7. ASSUME NEW p \in Plugin \ u.blamed
        PROVE  Leads(u.sent, p, InfosOf(s, p), InfosOf(u, p))
    <3>1. CASE p = name
      BY <2>2, <2>4, <2>5, <2>6, <3>1, LastIsAppended
    <3>2. CASE p # name
      <4>1. Leads(t.sent, p, InfosOf(s, p), InfosOf(t, p))
        BY <1>4, <1>5, <2>4, <3>2 DEF FollowsBut, name
      <4> QED
        BY <2>2, <2>4, <2>5, <2>6, <3>2, <4>1, OtherIsAppended
    <3> QED
      BY <3>1, <3>2
  <2>8. s.blamed \subseteq u.blamed
    BY <1>5, <2>4 DEF FollowsBut
  <2> QED
    BY <1>2, <2>4, <2>5, <2>7, <2>8 DEF Kept, Follows
<1> QED
  BY <1>6, <1>7

LEMMA GoodAt ==
  ASSUME NEW r, HostInv(r), NEW i \in DOMAIN r.plugins
  PROVE  RecordGood(r.plugins[i])
BY DEF HostInv, EnabledAreActiveIn, EnabledHeardIn, RecordGood

LEMMA SameChanges ==
  ASSUME NEW s \in Host, NEW i \in DOMAIN s.plugins
  PROVE  Changes(s, s, i)
BY HostFacts DEF Changes

LEMMA KeptFollows ==
  ASSUME NEW s, NEW r \in Kept(s)
  PROVE  FollowsBut(s, r, {}) /\ HostInv(r) /\ r \in Host
BY DEF Kept, Follows, FollowsBut

LEMMA UpdateKeeps ==
  ASSUME NEW s, NEW r \in Kept(s), NEW i \in DOMAIN r.plugins, NEW u \in UpdateCoresAbout(r, i)
  PROVE  u \in Kept(s) /\ DOMAIN u.plugins = DOMAIN r.plugins
<1>1. HostInv(r) /\ FollowsBut(s, r, {}) /\ Changes(r, r, i) /\ RecordGood(r.plugins[i])
  BY KeptFollows, GoodAt, SameChanges
<1>2. {} \in SUBSET {r.plugins[i].name}
  OBVIOUS
<1> QED
  BY <1>1, <1>2, StepKeeps

LEMMA SetExtraKeeps ==
  ASSUME NEW s, NEW r, HostInv(r), ~ r.threw, NEW i \in DOMAIN r.plugins,
         NEW Q \in SUBSET {r.plugins[i].name}, FollowsBut(s, r, Q),
         NEW value \in Value, NEW u \in SetExtra(r, i, value)
  PROVE  u \in Kept(s) /\ DOMAIN u.plugins = DOMAIN r.plugins
<1> DEFINE c == [r.plugins[i] EXCEPT !.value = value]
           changed == [r EXCEPT !.plugins[i].value = value]
<1>1. PICK t \in OnSettingChange(changed, i) : (t.threw /\ u = t) \/ (~ t.threw /\ u \in UpdateCoresAbout(t, i))
  BY DEF SetExtra, Then
<1>2. r \in Host /\ r.plugins[i] \in Record /\ RecordGood(r.plugins[i])
  BY HostFacts, GoodAt DEF HostInv
<1>3. c \in Record /\ c.name = r.plugins[i].name /\ (c.enabled <=> c.isActive)
  BY <1>2 DEF Record, RecordGood
<1>4. changed = [r EXCEPT !.plugins[i] = c]
  BY <1>2, HostFacts DEF Host
<1> HIDE DEF c, changed
<1>5. /\ Changes(r, changed, i) /\ changed.plugins[i] = c /\ changed.threw = r.threw
      /\ i \in DOMAIN changed.plugins
  BY <1>2, <1>3, <1>4, PutRecord
<1>6. changed \in Host
  BY <1>5 DEF Changes
<1>7. /\ Changes(changed, t, i) /\ i \in DOMAIN t.plugins
      /\ t.plugins[i] = [c EXCEPT !.heard = <<InfoOf(c)>>]
      /\ t.threw => c.name \in t.blamed
  BY <1>1, <1>5, <1>6, OnSettingChangeFacts
<1>8. Changes(r, t, i)
  BY <1>2, <1>5, <1>7, ChangesTwice
<1>9. RecordGood(t.plugins[i])
  BY <1>3, <1>7 DEF Record, RecordGood, InfoOf
<1> QED
  BY <1>1, <1>3, <1>7, <1>8, <1>9, StepKeeps

LEMMA EnableKeeps ==
  ASSUME NEW s, NEW r \in Kept(s), ~ r.threw, NEW i \in DOMAIN r.plugins,
         NEW u \in EnablePlugin(r, i)
  PROVE  u \in Kept(s) /\ DOMAIN u.plugins = DOMAIN r.plugins
<1>1. HostInv(r) /\ FollowsBut(s, r, {}) /\ r \in Host /\ RecordGood(r.plugins[i])
  BY KeptFollows, GoodAt
<1>2. CASE r.plugins[i].enabled
  BY <1>2 DEF EnablePlugin
<1>3. CASE ~ r.plugins[i].enabled
  <2>1. PICK t \in Enable(r, i) : (t.threw /\ u = t) \/ (~ t.threw /\ u \in UpdateCoresAbout(t, i))
    BY <1>3 DEF EnablePlugin, Then
  <2>2. /\ Changes(r, t, i) /\ RecordGood(t.plugins[i])
        /\ t.threw => r.plugins[i].name \in t.blamed
    BY <1>1, <1>3, <2>1, EnableFacts DEF RecordGood
  <2>3. {} \in SUBSET {r.plugins[i].name}
    OBVIOUS
  <2> QED
    BY <1>1, <2>1, <2>2, <2>3, StepKeeps
<1> QED
  BY <1>2, <1>3

LEMMA DisableKeeps ==
  ASSUME NEW s, NEW r \in Kept(s), ~ r.threw, NEW i \in DOMAIN r.plugins,
         NEW u \in DisablePlugin(r, i)
  PROVE  u \in Kept(s) /\ DOMAIN u.plugins = DOMAIN r.plugins
<1>1. HostInv(r) /\ FollowsBut(s, r, {}) /\ r \in Host
  BY KeptFollows
<1>2. CASE ~ r.plugins[i].enabled
  BY <1>2 DEF DisablePlugin
<1>3. CASE r.plugins[i].enabled
  <2>1. PICK t \in Disable(r, i) : (t.threw /\ u = t) \/ (~ t.threw /\ u \in UpdateCoresAbout(t, i))
    BY <1>3 DEF DisablePlugin, Then
  <2>2. /\ Changes(r, t, i) /\ RecordGood(t.plugins[i])
        /\ t.threw => r.plugins[i].name \in t.blamed
    BY <1>1, <1>3, <2>1, DisableFacts
  <2>3. {} \in SUBSET {r.plugins[i].name}
    OBVIOUS
  <2> QED
    BY <1>1, <2>1, <2>2, <2>3, StepKeeps
<1> QED
  BY <1>2, <1>3

\* A plugin that is new and heard of by nobody.
LEMMA NewFacts ==
  ASSUME NEW s, HostInv(s), NEW name \in Plugin, IndexOf(s, name) = {}, NEW value \in Value,
         NEW t, t = Listed(s, name, value)
  PROVE  /\ HostInv(t) /\ t.sent = s.sent /\ t.blamed = s.blamed /\ t.threw = s.threw
         /\ DOMAIN t.plugins = 1..Len(t.plugins) /\ Len(t.plugins) \in DOMAIN t.plugins
         /\ t.plugins[Len(t.plugins)] = NewPlugin(name, value)
         /\ \A p : p # name => InfosOf(t, p) = InfosOf(s, p)
<1> DEFINE new == NewPlugin(name, value)
           n == Len(s.plugins) + 1
<1>1. s \in Host /\ s.plugins \in Seq(Record) /\ DOMAIN s.plugins = 1..(n - 1) /\ n \in Nat
      /\ s.loaded \in [Plugin -> Nat]
  BY HostFacts DEF HostInv
<1>2. new \in Record /\ new.name = name /\ ~ new.enabled /\ ~ new.isActive
  BY DEF NewPlugin, Record
<1>3. [s.loaded EXCEPT ![name] = @ + 1] \in [Plugin -> Nat]
  BY <1>1
<1>4. DOMAIN s = {"plugins", "loaded", "crashed", "blamed", "faults", "threw", "sent"}
  BY <1>1 DEF Host
<1> HIDE DEF new
<1>5. /\ t.plugins = Append(s.plugins, new) /\ t.loaded = [s.loaded EXCEPT ![name] = @ + 1]
      /\ t.sent = s.sent /\ t.blamed = s.blamed /\ t.threw = s.threw
      /\ t.crashed = s.crashed
  BY <1>4 DEF new, Listed
<1>6. t \in Host
  <2>1. Append(s.plugins, new) \in Seq(Record)
    BY <1>1, <1>2
  <2>2. ASSUME NEW ps \in Seq(Record), NEW l \in [Plugin -> Nat]
        PROVE  [s EXCEPT !.plugins = ps, !.loaded = l] \in Host
    BY <1>1 DEF Host
  <2>3. t = [s EXCEPT !.plugins = Append(s.plugins, new),
                      !.loaded = [s.loaded EXCEPT ![name] = @ + 1]]
    BY <1>4 DEF new, Listed
  <2> QED
    BY <1>3, <2>1, <2>2, <2>3
<1>7. /\ DOMAIN t.plugins = 1..n /\ Len(t.plugins) = n /\ t.plugins[n] = new
      /\ \A i \in 1..(n - 1) : t.plugins[i] = s.plugins[i]
  BY <1>1, <1>5
<1>8. \A i \in 1..(n - 1) : s.plugins[i].name # name
  BY <1>1 DEF IndexOf
<1>9. Apart(t)
  <2>1. SUFFICES ASSUME NEW i \in 1..n, NEW j \in 1..n, t.plugins[i].name = t.plugins[j].name
                 PROVE  i = j
    BY <1>7 DEF Apart
  <2>2. CASE i = n \/ j = n
    <3>1. \A k \in 1..n : k # n => t.plugins[k].name # new.name
      <4>1. \A k \in 1..n : k # n => k \in 1..(n - 1)
        BY <1>1
      <4> QED
        BY <1>2, <1>7, <1>8, <4>1
    <3> QED
      BY <1>7, <2>1, <2>2, <3>1
  <2>3. CASE i # n /\ j # n
    <3>1. i \in 1..(n - 1) /\ j \in 1..(n - 1) /\ s.plugins[i].name = s.plugins[j].name
      BY <1>1, <1>7, <2>1, <2>3
    <3> QED
      BY <1>1, <3>1 DEF Apart, HostInv
  <2> QED
    BY <2>2, <2>3
<1>10. EnabledAreActiveIn(t)
  BY <1>1, <1>2, <1>7 DEF EnabledAreActiveIn, HostInv
<1>11. EnabledHeardIn(t)
  BY <1>1, <1>2, <1>7 DEF EnabledHeardIn, HostInv
<1>12. CodeIsLoadedIn(t)
  <2>1. ASSUME NEW i \in 1..n PROVE t.loaded[t.plugins[i].name] > 0
    <3>1. CASE i = n
      BY <1>1, <1>2, <1>5, <1>7, <3>1
    <3>2. CASE i # n
      <4>1. i \in 1..(n - 1) /\ t.plugins[i] = s.plugins[i] /\ s.plugins[i].name \in Plugin
        BY <1>1, <1>7, <3>2, HostFacts
      <4>2. s.loaded[s.plugins[i].name] > 0
        BY <1>1, <4>1 DEF HostInv, CodeIsLoadedIn
      <4> QED
        BY <1>1, <1>5, <1>8, <4>1, <4>2
    <3> QED
      BY <3>1, <3>2
  <2> QED
    BY <1>5, <1>7, <2>1 DEF CodeIsLoadedIn, HostInv
<1>13. ASSUME NEW p, p # name PROVE InfosOf(t, p) = InfosOf(s, p)
  <2>1. IndexOf(t, p) = IndexOf(s, p) /\ \A i \in IndexOf(s, p) : t.plugins[i] = s.plugins[i]
    BY <1>1, <1>2, <1>7, <1>13 DEF IndexOf
  <2> QED
    BY <2>1 DEF InfosOf
<1> QED
  BY <1>1, <1>5, <1>6, <1>7, <1>9, <1>10, <1>11, <1>12, <1>13 DEF HostInv, new

\* A vector without its member i.
LEMMA RemoveAtFacts ==
  ASSUME NEW S, NEW q \in Seq(S), NEW i \in DOMAIN q
  PROVE  /\ RemoveAt(q, i) \in Seq(S) /\ DOMAIN RemoveAt(q, i) = 1..(Len(q) - 1)
         /\ \A j \in 1..(Len(q) - 1) : RemoveAt(q, i)[j] = IF j < i THEN q[j] ELSE q[j + 1]
<1> DEFINE a == SubSeq(q, 1, i - 1)
           b == SubSeq(q, i + 1, Len(q))
<1>1. Len(q) \in Nat /\ i \in 1..Len(q) /\ \A k \in 1..Len(q) : q[k] \in S
  OBVIOUS
<1>2. a \in Seq(S) /\ Len(a) = i - 1 /\ \A j \in 1..(i - 1) : a[j] = q[j]
  <2>1. \A k \in 1..(i - 1) : q[k] \in S
    BY <1>1
  <2> QED
    BY <1>1, <2>1, SubSeqProperties
<1>3. b \in Seq(S) /\ Len(b) = Len(q) - i /\ \A j \in 1..(Len(q) - i) : b[j] = q[i + j]
  BY <1>1, SubSeqProperties
<1> HIDE DEF a, b
<1>4. RemoveAt(q, i) = a \o b
  BY DEF RemoveAt, a, b
<1>5. /\ a \o b \in Seq(S) /\ Len(a \o b) = Len(q) - 1
      /\ \A j \in 1..(Len(q) - 1) : (a \o b)[j] = IF j <= i - 1 THEN a[j] ELSE b[j - (i - 1)]
  <2>1. Len(a) + Len(b) = Len(q) - 1
    BY <1>1, <1>2, <1>3
  <2>2. /\ a \o b \in Seq(S) /\ Len(a \o b) = Len(a) + Len(b)
        /\ \A j \in 1..(Len(a) + Len(b)) :
             (a \o b)[j] = IF j <= Len(a) THEN a[j] ELSE b[j - Len(a)]
    BY <1>2, <1>3, ConcatProperties
  <2> QED
    BY <1>2, <2>1, <2>2
<1>6. DOMAIN (a \o b) = 1..(Len(q) - 1)
  BY <1>5
<1>7. ASSUME NEW j \in 1..(Len(q) - 1)
      PROVE  (a \o b)[j] = IF j < i THEN q[j] ELSE q[j + 1]
  <2>1. CASE j < i
    <3>1. j <= i - 1 /\ j \in 1..(i - 1)
      BY <1>1, <2>1
    <3> QED
      BY <1>2, <1>5, <2>1, <3>1
  <2>2. CASE ~ (j < i)
    <3>1. ~ (j <= i - 1) /\ j - (i - 1) \in 1..(Len(q) - i) /\ i + (j - (i - 1)) = j + 1
      BY <1>1, <2>2
    <3> QED
      BY <1>3, <1>5, <2>2, <3>1
  <2> QED
    BY <2>1, <2>2
<1> QED
  BY <1>4, <1>5, <1>6, <1>7

\* Which plugin of the vector before is the one at j.
LEMMA EraseFacts ==
  ASSUME NEW s, HostInv(s), NEW i \in DOMAIN s.plugins, NEW t, t = Erase(s, i)
  PROVE  /\ HostInv(t) /\ t.sent = s.sent /\ t.blamed = s.blamed /\ t.threw = s.threw
         /\ InfosOf(t, s.plugins[i].name) = {}
         /\ \A p : p # s.plugins[i].name => InfosOf(t, p) = InfosOf(s, p)
<1> DEFINE name == s.plugins[i].name
           n == Len(s.plugins)
           From(j) == IF j < i THEN j ELSE j + 1
<1>1. /\ s \in Host /\ s.plugins \in Seq(Record) /\ DOMAIN s.plugins = 1..n /\ n \in Nat
      /\ s.loaded \in [Plugin -> Nat] /\ name \in Plugin /\ i \in 1..n
  BY HostFacts DEF HostInv
<1>2. ~ s.crashed /\ s.loaded[name] > 0
  BY DEF HostInv, CodeIsLoadedIn
<1>3. DOMAIN s = {"plugins", "loaded", "crashed", "blamed", "faults", "threw", "sent"}
  BY <1>1 DEF Host
<1>4. t.loaded = IF i = n THEN [s.loaded EXCEPT ![name] = @ - 1] ELSE s.loaded
  BY <1>1, <1>3 DEF Erase, Unloaded, Overwritten
<1>5. /\ t.plugins = RemoveAt(s.plugins, i) /\ t.crashed = (s.crashed \/ s.loaded[name] = 0)
      /\ t.sent = s.sent /\ t.blamed = s.blamed /\ t.threw = s.threw
  BY <1>1, <1>3 DEF Erase, Unloaded, Overwritten
<1>6. /\ t.plugins \in Seq(Record) /\ DOMAIN t.plugins = 1..(n - 1)
      /\ \A j \in 1..(n - 1) : t.plugins[j] = s.plugins[From(j)]
  <2>1. /\ RemoveAt(s.plugins, i) \in Seq(Record)
        /\ DOMAIN RemoveAt(s.plugins, i) = 1..(n - 1)
        /\ \A j \in 1..(n - 1) : RemoveAt(s.plugins, i)[j]
             = IF j < i THEN s.plugins[j] ELSE s.plugins[j + 1]
    BY <1>1, RemoveAtFacts
  <2> QED
    BY <1>5, <2>1
<1>7. t.loaded \in [Plugin -> Nat] /\ ~ t.crashed
  <2> HIDE DEF name
  <2>1. s.loaded[name] \in Nat /\ s.loaded[name] # 0
    BY <1>1, <1>2
  <2>2. ~ t.crashed
    BY <1>2, <1>5, <2>1
  <2>3. t.loaded \in [Plugin -> Nat]
    BY <1>1, <1>4, <2>1
  <2> QED
    BY <2>2, <2>3
<1>8. t \in Host
  <2>1. ASSUME NEW ps \in Seq(Record), NEW l \in [Plugin -> Nat], NEW c \in BOOLEAN
        PROVE  [s EXCEPT !.plugins = ps, !.crashed = c, !.loaded = l] \in Host
    BY <1>1 DEF Host
  <2>2. t.crashed \in BOOLEAN
    BY <1>1, <1>5 DEF Host
  <2>3. t = [s EXCEPT !.plugins = t.plugins, !.crashed = t.crashed, !.loaded = t.loaded]
    BY <1>3 DEF Erase
  <2>4. [s EXCEPT !.plugins = t.plugins, !.crashed = t.crashed, !.loaded = t.loaded] \in Host
    BY <1>6, <1>7, <2>1, <2>2
  <2> QED
    BY <2>3, <2>4, Zenon
<1>9. /\ \A j \in 1..(n - 1) : From(j) \in 1..n /\ From(j) # i
      /\ \A j, k \in 1..(n - 1) : From(j) = From(k) => j = k
      /\ \A k \in 1..n : k # i => \E j \in 1..(n - 1) : From(j) = k
  <2>1. ASSUME NEW k \in 1..n, k # i PROVE \E j \in 1..(n - 1) : From(j) = k
    <3>1. CASE k < i
      <4>1. k \in 1..(n - 1) /\ From(k) = k
        BY <1>1, <3>1
      <4> QED
        BY <4>1
    <3>2. CASE ~ (k < i)
      <4>1. k - 1 \in 1..(n - 1) /\ From(k - 1) = k
        BY <1>1, <2>1, <3>2
      <4> QED
        BY <4>1
    <3> QED
      BY <3>1, <3>2
  <2> QED
    BY <1>1, <2>1
<1> HIDE DEF From, n
<1>10. Apart(t)
  <2>1. SUFFICES ASSUME NEW j \in 1..(n - 1), NEW k \in 1..(n - 1),
                        t.plugins[j].name = t.plugins[k].name
                 PROVE  j = k
    BY <1>6 DEF Apart
  <2>2. s.plugins[From(j)].name = s.plugins[From(k)].name /\ From(j) \in 1..n /\ From(k) \in 1..n
    BY <1>6, <1>9, <2>1
  <2>3. From(j) = From(k)
    BY <1>1, <2>2 DEF Apart, HostInv
  <2> QED
    BY <1>9, <2>3
<1>11. EnabledAreActiveIn(t) /\ EnabledHeardIn(t)
  <2>1. ASSUME NEW j \in 1..(n - 1)
        PROVE  RecordGood(t.plugins[j])
    <3>1. t.plugins[j] = s.plugins[From(j)] /\ From(j) \in DOMAIN s.plugins
      BY <1>1, <1>6, <1>9
    <3> QED
      BY <3>1, GoodAt
  <2> QED
    BY <1>6, <2>1 DEF EnabledAreActiveIn, EnabledHeardIn, RecordGood
<1>12. \A j \in 1..(n - 1) : t.plugins[j].name # name
  <2>1. SUFFICES ASSUME NEW j \in 1..(n - 1), s.plugins[From(j)].name = s.plugins[i].name
                 PROVE  FALSE
    BY <1>6
  <2>2. From(j) = i
    BY <1>1, <1>9, <2>1 DEF Apart, HostInv
  <2> QED
    BY <1>9, <2>2
<1>13. CodeIsLoadedIn(t)
  <2>1. ASSUME NEW j \in 1..(n - 1) PROVE t.loaded[t.plugins[j].name] > 0
    <3>1. t.plugins[j].name = s.plugins[From(j)].name /\ From(j) \in DOMAIN s.plugins
          /\ t.plugins[j].name # name /\ t.plugins[j].name \in Plugin
      BY <1>1, <1>6, <1>9, <1>12, HostFacts
    <3>2. s.loaded[t.plugins[j].name] > 0
      BY <3>1 DEF HostInv, CodeIsLoadedIn
    <3> QED
      BY <1>1, <1>4, <3>1, <3>2
  <2> QED
    BY <1>6, <1>7, <2>1 DEF CodeIsLoadedIn
<1>14. InfosOf(t, name) = {}
  BY <1>6, <1>12 DEF InfosOf, IndexOf
<1>15. ASSUME NEW p, p # name PROVE InfosOf(t, p) = InfosOf(s, p)
  <2>1. ASSUME NEW j \in IndexOf(t, p)
        PROVE  From(j) \in IndexOf(s, p) /\ s.plugins[From(j)] = t.plugins[j]
    BY <1>1, <1>6, <1>9 DEF IndexOf
  <2>2. ASSUME NEW k \in IndexOf(s, p)
        PROVE  \E j \in IndexOf(t, p) : t.plugins[j] = s.plugins[k]
    <3>1. k \in 1..n /\ s.plugins[k].name = p /\ k # i
      BY <1>1, <1>15 DEF IndexOf
    <3>2. PICK j \in 1..(n - 1) : From(j) = k
      BY <1>9, <3>1
    <3> QED
      BY <1>6, <3>1, <3>2 DEF IndexOf
  <2> QED
    BY <2>1, <2>2 DEF InfosOf
<1> QED
  BY <1>5, <1>8, <1>10, <1>11, <1>13, <1>14, <1>15 DEF HostInv

LEMMA RemoveKeeps ==
  ASSUME NEW s, NEW r \in Kept(s), ~ r.threw, NEW i \in DOMAIN r.plugins,
         NEW v \in RemovePlugin(r, i)
  PROVE  v \in Kept(s)
<1> DEFINE Sent(t) == Send(t, [type |-> "PLUGIN_REMOVE", name |-> t.plugins[i].name])
           Rest(t) == UNION {IF u.threw THEN {u} ELSE {Erase(u, i)} : u \in Sent(t)}
<1>1. PICK t \in DisablePlugin(r, i) : (t.threw /\ v = t) \/ (~ t.threw /\ v \in Rest(t))
  <2>1. RemovePlugin(r, i) = UNION {IF t.threw THEN {t} ELSE Rest(t) : t \in DisablePlugin(r, i)}
    BY DEF RemovePlugin, Then
  <2> HIDE DEF Rest
  <2> QED
    BY <2>1
<1>2. t \in Kept(s) /\ DOMAIN t.plugins = DOMAIN r.plugins
  BY DisableKeeps
<1>3. CASE t.threw
  BY <1>1, <1>2, <1>3
<1>4. CASE ~ t.threw
  <2> DEFINE name == t.plugins[i].name
             packet == [type |-> "PLUGIN_REMOVE", name |-> name]
  <2>1. PICK u \in Send(t, packet) : (u.threw /\ v = u) \/ (~ u.threw /\ v = Erase(u, i))
    BY <1>1, <1>4
  <2>2. t \in Host /\ HostInv(t) /\ name \in Plugin /\ t.sent \in Seq(Packet)
        /\ i \in DOMAIN t.plugins
    BY <1>2, HostFacts DEF Kept
  <2>3. packet \in Packet /\ Subject(packet) = name /\ Announced(packet) = {}
    BY <2>2, PacketFacts
  <2> HIDE DEF packet, Rest, Sent
  <2>4. /\ u \in Host /\ u.plugins = t.plugins /\ u.loaded = t.loaded
        /\ u.crashed = t.crashed /\ u.blamed = t.blamed /\ u.threw = t.threw
        /\ u.sent = Append(t.sent, packet)
    BY <2>2, <2>3, SendFacts
  <2>5. HostInv(u) /\ \A p : InfosOf(u, p) = InfosOf(t, p)
    BY <2>2, <2>4, SameVector
  <2>6. v = Erase(u, i) /\ i \in DOMAIN u.plugins /\ u.plugins[i].name = name
    BY <1>4, <2>1, <2>2, <2>4
  <2> HIDE DEF name
  <2>7. /\ HostInv(v) /\ v.sent = u.sent /\ v.blamed = u.blamed
        /\ InfosOf(v, name) = {}
        /\ \A p : p # name => InfosOf(v, p) = InfosOf(u, p)
    BY <2>5, <2>6, EraseFacts
  <2>8. ASSUME NEW p \in Plugin \ v.blamed
        PROVE  Leads(v.sent, p, InfosOf(s, p), InfosOf(v, p))
    <3>1. CASE p = name
      <4>1. Leads(Append(t.sent, packet), p, InfosOf(s, p), Announced(packet))
        BY <2>2, <2>3, <3>1, LastIsAppended
      <4>2. v.sent = Append(t.sent, packet) /\ InfosOf(v, p) = Announced(packet)
        BY <2>3, <2>4, <2>7, <3>1
      <4> QED
        BY <4>1, <4>2
    <3>2. CASE p # name
      <4>1. Leads(t.sent, p, InfosOf(s, p), InfosOf(t, p))
        BY <1>2, <2>4, <2>7 DEF Kept, Follows
      <4> QED
        BY <2>2, <2>3, <2>4, <2>5, <2>7, <3>2, <4>1, OtherIsAppended
    <3> QED
      BY <3>1, <3>2
  <2>9. s.blamed \subseteq v.blamed
    BY <1>2, <2>4, <2>7 DEF Kept, Follows
  <2> QED
    BY <2>7, <2>8, <2>9 DEF Kept, Follows, HostInv
<1> QED
  BY <1>3, <1>4

\* What follows push_back: it is told, it is enabled if it is to be, and the
\* cores are told.
LEMMA IntroduceKeeps ==
  ASSUME NEW s, NEW r, HostInv(r), ~ r.threw, NEW i \in DOMAIN r.plugins,
         FollowsBut(s, r, {r.plugins[i].name}), NEW v \in Introduce(r, i)
  PROVE  v \in Kept(s)
<1> DEFINE Second(t) == IF t.plugins[i].name \in DefaultEnabled THEN EnablePlugin(t, i) ELSE {t}
<1>1. PICK t \in SetExtra(r, i, DefaultOf) :
         (t.threw /\ v = t) \/ (~ t.threw /\ \E u \in Second(t) :
                                   (u.threw /\ v = u) \/ (~ u.threw /\ v \in UpdateCoresAbout(u, i)))
  BY DEF Introduce, Then
<1>2. t \in Kept(s) /\ DOMAIN t.plugins = DOMAIN r.plugins
  <2> DEFINE Q == {r.plugins[i].name}
  <2>1. Q \in SUBSET {r.plugins[i].name} /\ DefaultOf \in Value /\ FollowsBut(s, r, Q)
    BY PluginAssumption
  <2> HIDE DEF Q
  <2> QED
    BY <1>1, <2>1, SetExtraKeeps
<1>3. CASE t.threw
  BY <1>1, <1>2, <1>3
<1>4. CASE ~ t.threw
  <2>1. PICK u \in Second(t) : (u.threw /\ v = u) \/ (~ u.threw /\ v \in UpdateCoresAbout(u, i))
    BY <1>1, <1>4
  <2>2. u \in Kept(s) /\ DOMAIN u.plugins = DOMAIN r.plugins
    BY <1>2, <1>4, EnableKeeps
  <2> QED
    BY <2>1, <2>2, UpdateKeeps
<1> QED
  BY <1>3, <1>4

LEMMA AddKeeps ==
  ASSUME NEW s, HostInv(s), s.sent = <<>>, ~ s.threw, NEW name \in Plugin, NEW v \in Add(s, name)
  PROVE  v \in Kept(s)
<1> DEFINE added == Listed(s, name, DefaultOf)
<1>1. s \in Kept(s) /\ s \in Host
  BY NothingDone DEF HostInv
<1>5. \/ v \in Fails(s, name)
      \/ IndexOf(s, name) # {} /\ v = Throws(s)
      \/ IndexOf(s, name) = {} /\ v \in Introduce(added, Len(added.plugins))
  BY DEF Add
<1>6. added = Listed(s, name, DefaultOf)
  OBVIOUS
<1> HIDE DEF added
<1>2. CASE v \in Fails(s, name)
  <2>1. /\ v \in Host /\ v.plugins = s.plugins /\ v.loaded = s.loaded
        /\ v.crashed = s.crashed /\ v.sent = s.sent /\ v.blamed = s.blamed \cup {name}
    BY <1>1, <1>2, FailsFacts
  <2> QED
    BY <1>1, <2>1, KeptAnyway
<1>3. CASE IndexOf(s, name) # {} /\ v = Throws(s)
  <2>1. /\ v \in Host /\ v.plugins = s.plugins /\ v.loaded = s.loaded
        /\ v.crashed = s.crashed /\ v.sent = s.sent /\ s.blamed \subseteq v.blamed
    <3>1. v = Throws(s)
      BY <1>3
    <3> QED
      BY <1>1, <3>1, ThrowsFacts
  <2> QED
    BY <1>1, <2>1, KeptAnyway
<1>4. CASE IndexOf(s, name) = {} /\ v \in Introduce(added, Len(added.plugins))
  <2>1. DefaultOf \in Value
    BY PluginAssumption
  <2> DEFINE i == Len(added.plugins)
  <2>2. /\ HostInv(added) /\ added.sent = s.sent /\ added.blamed = s.blamed /\ added.threw = s.threw
        /\ i \in DOMAIN added.plugins /\ added.plugins[i] = NewPlugin(name, DefaultOf)
        /\ \A p : p # name => InfosOf(added, p) = InfosOf(s, p)
    <3>1. IndexOf(s, name) = {}
      BY <1>4
    <3>2. /\ HostInv(added) /\ added.sent = s.sent /\ added.blamed = s.blamed /\ added.threw = s.threw
          /\ DOMAIN added.plugins = 1..Len(added.plugins) /\ Len(added.plugins) \in DOMAIN added.plugins
          /\ added.plugins[Len(added.plugins)] = NewPlugin(name, DefaultOf)
          /\ \A p : p # name => InfosOf(added, p) = InfosOf(s, p)
      BY <1>6, <2>1, <3>1, NewFacts
    <3> QED
      BY <3>2
  <2> HIDE DEF i
  <2>3. added.plugins[i].name = name
    BY <2>2 DEF NewPlugin
  <2>4. FollowsBut(s, added, {name})
    BY <1>1, <2>2 DEF FollowsBut, Kept, Follows
  <2> QED
    BY <1>4, <2>2, <2>3, <2>4, IntroduceKeeps DEF i
<1> QED
  BY <1>2, <1>3, <1>4, <1>5

-----------------------------------------------------------------------------
(* The loops.                                                              *)

Enabling(t, i) == SetEnabled(t, i, TRUE)
Disabling(t, i) == SetEnabled(t, i, FALSE)
Restoring(t, i) == SetExtra(t, i, DefaultOf)
Removing(t, i) == IF t.plugins = <<>> THEN {t} ELSE RemovePlugin(t, 1)

EnableLoop == INSTANCE LoopProofs WITH Body <- Enabling
DisableLoop == INSTANCE LoopProofs WITH Body <- Disabling
RestoreLoop == INSTANCE LoopProofs WITH Body <- Restoring
UpdateLoop == INSTANCE LoopProofs WITH Body <- UpdateCoresAbout
RemoveLoop == INSTANCE LoopProofs WITH Body <- Removing

\* The indices that a loop goes through.
LEMMA IndicesFacts ==
  ASSUME NEW n \in Nat
  PROVE  LET xs == [i \in 1..n |-> i] IN
         xs \in Seq(Nat) /\ Len(xs) = n /\ DOMAIN xs = 1..n /\ \A i \in 1..n : xs[i] = i
OBVIOUS

LEMMA EnableAllKeeps ==
  ASSUME NEW s, HostInv(s), s.sent = <<>>, NEW enabled \in BOOLEAN, NEW u \in EnableAll(s, enabled)
  PROVE  u \in Kept(s)
<1> DEFINE n == Len(s.plugins)
           xs == [i \in DOMAIN s.plugins |-> i]
           Like == {t \in Kept(s) : DOMAIN t.plugins = DOMAIN s.plugins}
           Good == [k \in 0..Len(xs) |-> Like]
<1>1. n \in Nat /\ DOMAIN s.plugins = 1..n /\ s \in Like
  BY NothingDone, HostFacts DEF HostInv
<1>2. Len(xs) = n /\ \A i \in 1..n : xs[i] = i
  BY <1>1, IndicesFacts
<1> HIDE DEF n, xs, Like
<1>3. Len(xs) \in Nat /\ s \in Good[0]
  BY <1>1, <1>2
<1>4. ASSUME NEW t \in Like, NEW i \in 1..n, ~ t.threw
      PROVE  EnablePlugin(t, i) \subseteq Like /\ DisablePlugin(t, i) \subseteq Like
  BY <1>1, <1>4, EnableKeeps, DisableKeeps DEF Like
<1>5. CASE enabled
  <2>1. ASSUME NEW i \in 1..Len(xs), NEW t \in Good[i - 1]
        PROVE  EnableLoop!Pass(t, xs[i]) \subseteq Good[i]
    <3>1. t \in Like /\ xs[i] \in 1..n /\ Good[i] = Like
      BY <1>2, <1>3
    <3> HIDE DEF Good
    <3> QED
      BY <1>4, <3>1 DEF EnableLoop!Pass, Enabling, SetEnabled
  <2> HIDE DEF Good
  <2>2. \E after : after = EnableLoop!After(s, xs, after)
    BY <1>3, EnableLoop!LoopDefined
  <2>3. \A after : after = EnableLoop!After(s, xs, after) => after[Len(xs)] \subseteq Good[Len(xs)]
    BY <1>3, <2>1, EnableLoop!LoopKeeps
  <2>4. EnableAll(s, enabled) \subseteq Good[Len(xs)]
    BY <1>5, <2>2, <2>3 DEF EnableAll, ForEachPlugin, ForEach, Then, EnableLoop!After, Enabling, xs
  <2> QED
    BY <1>3, <2>4 DEF Good, Like
<1>6. CASE ~ enabled
  <2>1. ASSUME NEW i \in 1..Len(xs), NEW t \in Good[i - 1]
        PROVE  DisableLoop!Pass(t, xs[i]) \subseteq Good[i]
    <3>1. t \in Like /\ xs[i] \in 1..n /\ Good[i] = Like
      BY <1>2, <1>3
    <3> HIDE DEF Good
    <3> QED
      BY <1>4, <3>1 DEF DisableLoop!Pass, Disabling, SetEnabled
  <2> HIDE DEF Good
  <2>2. \E after : after = DisableLoop!After(s, xs, after)
    BY <1>3, DisableLoop!LoopDefined
  <2>3. \A after : after = DisableLoop!After(s, xs, after) => after[Len(xs)] \subseteq Good[Len(xs)]
    BY <1>3, <2>1, DisableLoop!LoopKeeps
  <2>4. EnableAll(s, enabled) \subseteq Good[Len(xs)]
    <3>1. enabled = FALSE
      BY <1>6
    <3>2. EnableAll(s, FALSE) \subseteq Good[Len(xs)]
      BY <2>2, <2>3 DEF EnableAll, ForEachPlugin, ForEach, Then, DisableLoop!After, Disabling, xs
    <3> QED
      BY <3>1, <3>2
  <2> QED
    BY <1>3, <2>4 DEF Good, Like
<1> QED
  BY <1>5, <1>6

LEMMA RestoreAllKeeps ==
  ASSUME NEW s, HostInv(s), s.sent = <<>>, NEW u \in RestoreAllExtraSettingDefaults(s)
  PROVE  u \in Kept(s)
<1> DEFINE n == Len(s.plugins)
           xs == [i \in DOMAIN s.plugins |-> i]
           Like == {t \in Kept(s) : DOMAIN t.plugins = DOMAIN s.plugins}
           Good == [k \in 0..Len(xs) |-> Like]
<1>1. n \in Nat /\ DOMAIN s.plugins = 1..n /\ s \in Like
  BY NothingDone, HostFacts DEF HostInv
<1>2. Len(xs) = n /\ \A i \in 1..n : xs[i] = i
  BY <1>1, IndicesFacts
<1> HIDE DEF n, xs, Like
<1>3. Len(xs) \in Nat /\ s \in Good[0]
  BY <1>1, <1>2
<1>4. ASSUME NEW t \in Like, NEW i \in 1..n, ~ t.threw
      PROVE  SetExtra(t, i, DefaultOf) \subseteq Like
  <2>1. /\ HostInv(t) /\ i \in DOMAIN t.plugins /\ FollowsBut(s, t, {}) /\ DefaultOf \in Value
        /\ {} \in SUBSET {t.plugins[i].name}
    BY <1>1, KeptFollows, PluginAssumption DEF Like
  <2> QED
    BY <1>1, <1>4, <2>1, SetExtraKeeps DEF Like
<1>5. ASSUME NEW i \in 1..Len(xs), NEW t \in Good[i - 1]
      PROVE  RestoreLoop!Pass(t, xs[i]) \subseteq Good[i]
  <2>1. t \in Like /\ xs[i] \in 1..n /\ Good[i] = Like
    BY <1>2, <1>3
  <2> HIDE DEF Good
  <2> QED
    BY <1>4, <2>1 DEF RestoreLoop!Pass, Restoring
<1> HIDE DEF Good
<1>6. \E after : after = RestoreLoop!After(s, xs, after)
  BY <1>3, RestoreLoop!LoopDefined
<1>7. \A after : after = RestoreLoop!After(s, xs, after) => after[Len(xs)] \subseteq Good[Len(xs)]
  BY <1>3, <1>5, RestoreLoop!LoopKeeps
<1>8. RestoreAllExtraSettingDefaults(s) \subseteq Good[Len(xs)]
  BY <1>6, <1>7 DEF RestoreAllExtraSettingDefaults, ForEachPlugin, ForEach, Then,
                    RestoreLoop!After, Restoring, xs
<1> QED
  BY <1>3, <1>8 DEF Good, Like

\* The cores are told of each plugin, in order.
LEMMA UpdateAllFacts ==
  ASSUME NEW s, HostInv(s), s.sent = <<>>, ~ s.threw, NEW u \in UpdateCoreAboutAll(s)
  PROVE  /\ u \in Host /\ u.plugins = s.plugins /\ u.loaded = s.loaded
         /\ u.crashed = s.crashed /\ u.blamed = s.blamed
         /\ DOMAIN u.sent = DOMAIN s.plugins
         /\ \A i \in DOMAIN s.plugins : u.sent[i] = [type |-> "PLUGIN", info |-> InfoOf(s.plugins[i])]
<1> DEFINE n == Len(s.plugins)
           xs == [i \in DOMAIN s.plugins |-> i]
           About(i) == [type |-> "PLUGIN", info |-> InfoOf(s.plugins[i])]
           Told(k) == {t \in Host : /\ t.plugins = s.plugins /\ t.loaded = s.loaded
                                    /\ t.crashed = s.crashed /\ t.blamed = s.blamed
                                    /\ ~ t.threw /\ t.sent = [i \in 1..k |-> About(i)]}
           Good == [k \in 0..Len(xs) |-> Told(k)]
<1>1. n \in Nat /\ DOMAIN s.plugins = 1..n /\ s \in Host
  BY HostFacts DEF HostInv
<1>2. Len(xs) = n /\ \A i \in 1..n : xs[i] = i
  BY <1>1, IndicesFacts
<1>3. ASSUME NEW i \in 1..n PROVE About(i) \in Packet
  BY <1>1, <1>3, HostFacts, PacketFacts
<1> HIDE DEF n, xs, About
<1>4. s \in Told(0)
  <2>1. [i \in 1..0 |-> About(i)] = <<>>
    OBVIOUS
  <2> QED
    BY <1>1, <2>1
<1>5. ASSUME NEW k \in 1..n, NEW t \in Told(k - 1), NEW v \in UpdateCoresAbout(t, k)
      PROVE  v \in Told(k)
  <2>1. v \in Send(t, About(k)) /\ t \in Host
    BY <1>5 DEF UpdateCoresAbout, About
  <2>2. /\ v \in Host /\ v.plugins = t.plugins /\ v.loaded = t.loaded
        /\ v.crashed = t.crashed /\ v.blamed = t.blamed /\ v.threw = t.threw
        /\ v.sent = Append(t.sent, About(k))
    BY <1>3, <2>1, SendFacts
  <2>3. Append([i \in 1..(k - 1) |-> About(i)], About(k)) = [i \in 1..k |-> About(i)]
    <3> DEFINE a == [i \in 1..(k - 1) |-> About(i)]
    <3>1. a \in Seq(Packet) /\ Len(a) = k - 1
      BY <1>1, <1>3
    <3>2. \A i \in 1..(k - 1) : a[i] = About(i)
      OBVIOUS
    <3> HIDE DEF a
    <3>3. /\ Append(a, About(k)) \in Seq(Packet) /\ Len(Append(a, About(k))) = k
          /\ \A i \in 1..(k - 1) : Append(a, About(k))[i] = a[i]
          /\ Append(a, About(k))[k] = About(k)
      BY <1>1, <1>3, <3>1
    <3>4. Append(a, About(k)) = [i \in 1..k |-> About(i)]
      <4> DEFINE b == Append(a, About(k))
      <4>1. b \in Seq(Packet) /\ Len(b) = k
        BY <3>3
      <4>2. \A i \in 1..k : b[i] = About(i)
        BY <1>1, <3>2, <3>3
      <4> HIDE DEF b
      <4>3. b = [i \in 1..k |-> About(i)]
        BY <4>1, <4>2
      <4> QED
        BY <4>3 DEF b
    <3> QED
      BY <3>4 DEF a
  <2> QED
    BY <2>2, <2>3
<1> HIDE DEF Told
<1>6. Len(xs) \in Nat /\ s \in Good[0]
  BY <1>1, <1>2, <1>4
<1>7. ASSUME NEW i \in 1..Len(xs), NEW t \in Good[i - 1]
      PROVE  UpdateLoop!Pass(t, xs[i]) \subseteq Good[i]
  <2>1. t \in Told(i - 1) /\ xs[i] = i /\ i \in 1..n /\ Good[i] = Told(i)
    BY <1>1, <1>2
  <2>2. ~ t.threw
    BY <2>1 DEF Told
  <2> HIDE DEF Good
  <2> QED
    BY <1>5, <2>1, <2>2 DEF UpdateLoop!Pass
<1> HIDE DEF Good
<1>8. \E after : after = UpdateLoop!After(s, xs, after)
  BY <1>6, UpdateLoop!LoopDefined
<1>9. \A after : after = UpdateLoop!After(s, xs, after) => after[Len(xs)] \subseteq Good[Len(xs)]
  BY <1>6, <1>7, UpdateLoop!LoopKeeps
<1>10. UpdateCoreAboutAll(s) \subseteq Good[Len(xs)]
  BY <1>8, <1>9 DEF UpdateCoreAboutAll, ForEachPlugin, ForEach, Then, UpdateLoop!After, xs
<1>11. u \in Told(n)
  <2>1. Good[Len(xs)] = Told(Len(xs))
    BY <1>6 DEF Good
  <2> QED
    BY <1>2, <1>10, <2>1
<1> QED
  BY <1>1, <1>11 DEF Told, About

LEMMA RemoveAllKeeps ==
  ASSUME NEW s, HostInv(s), s.sent = <<>>, NEW u \in RemoveAll(s)
  PROVE  u \in Kept(s)
<1> DEFINE n == Len(s.plugins)
           xs == [i \in 1..n |-> i]
           Good == [k \in 0..Len(xs) |-> Kept(s)]
<1>1. n \in Nat /\ s \in Kept(s)
  BY NothingDone, HostFacts DEF HostInv
<1>2. Len(xs) = n
  BY <1>1
<1> HIDE DEF n, xs
<1>3. Len(xs) \in Nat /\ s \in Good[0]
  BY <1>1, <1>2
<1>4. ASSUME NEW t \in Kept(s), ~ t.threw, t.plugins # <<>>
      PROVE  RemovePlugin(t, 1) \subseteq Kept(s)
  <2>1. 1 \in DOMAIN t.plugins
    BY <1>4, HostFacts, KeptFollows
  <2> QED
    BY <1>4, <2>1, RemoveKeeps
<1>5. ASSUME NEW i \in 1..Len(xs), NEW t \in Good[i - 1]
      PROVE  RemoveLoop!Pass(t, xs[i]) \subseteq Good[i]
  <2>1. t \in Kept(s) /\ Good[i] = Kept(s)
    BY <1>3
  <2> HIDE DEF Good
  <2> QED
    BY <1>4, <2>1 DEF RemoveLoop!Pass, Removing
<1> HIDE DEF Good
<1>6. \E after : after = RemoveLoop!After(s, xs, after)
  BY <1>3, RemoveLoop!LoopDefined
<1>7. \A after : after = RemoveLoop!After(s, xs, after) => after[Len(xs)] \subseteq Good[Len(xs)]
  BY <1>3, <1>5, RemoveLoop!LoopKeeps
<1>8. RemoveAll(s) \subseteq Good[Len(xs)]
  BY <1>6, <1>7 DEF RemoveAll, Repeat, ForEach, Then, RemoveLoop!After, Removing, xs, n
<1> QED
  BY <1>3, <1>8 DEF Good

\* Whoever knows of no plugin that is not listed gets to what is.
LEMMA ToldOfAll ==
  ASSUME NEW s, HostInv(s), s.sent = <<>>, ~ s.threw, NEW u \in UpdateCoreAboutAll(s),
         NEW p, NEW before, IndexOf(s, p) = {} => before = {}
  PROVE  Leads(u.sent, p, before, InfosOf(s, p))
<1>1. /\ DOMAIN u.sent = DOMAIN s.plugins
      /\ \A i \in DOMAIN s.plugins : u.sent[i] = [type |-> "PLUGIN", info |-> InfoOf(s.plugins[i])]
  BY UpdateAllFacts
<1>2. ASSUME NEW i \in DOMAIN s.plugins
      PROVE  Subject(u.sent[i]) = s.plugins[i].name /\ Announced(u.sent[i]) = {InfoOf(s.plugins[i])}
  <2>1. InfoOf(s.plugins[i]) \in Info /\ InfoOf(s.plugins[i]).name = s.plugins[i].name
    BY HostFacts DEF HostInv, InfoOf
  <2> QED
    BY <1>1, <2>1, PacketFacts
<1>3. CASE IndexOf(s, p) = {}
  <2>1. Silent(u.sent, p)
    BY <1>1, <1>2, <1>3 DEF Silent, IndexOf
  <2>2. InfosOf(s, p) = {}
    BY <1>3 DEF InfosOf
  <2> QED
    BY <1>3, <2>1, <2>2 DEF Leads
<1>4. ASSUME NEW i \in IndexOf(s, p) PROVE Leads(u.sent, p, before, InfosOf(s, p))
  <2>1. i \in DOMAIN s.plugins /\ s.plugins[i].name = p /\ InfosOf(s, p) = {InfoOf(s.plugins[i])}
    BY <1>4, IndexFacts DEF IndexOf, HostInv
  <2>2. ASSUME NEW j \in DOMAIN u.sent, j > i PROVE Subject(u.sent[j]) # p
    <3>1. j # i /\ j \in DOMAIN s.plugins
      BY <1>1, <2>1, <2>2, HostFacts DEF HostInv
    <3> QED
      BY <1>2, <2>1, <3>1 DEF HostInv, Apart
  <2>3. LastSays(u.sent, p, InfosOf(s, p))
    BY <1>1, <1>2, <2>1, <2>2 DEF LastSays
  <2> QED
    BY <2>3 DEF Leads
<1> QED
  BY <1>3, <1>4

LEMMA UpdateAllKeeps ==
  ASSUME NEW s, HostInv(s), s.sent = <<>>, ~ s.threw, NEW u \in UpdateCoreAboutAll(s)
  PROVE  u \in Kept(s)
<1>1. /\ u \in Host /\ u.plugins = s.plugins /\ u.loaded = s.loaded
      /\ u.crashed = s.crashed /\ u.blamed = s.blamed
  BY UpdateAllFacts
<1>2. HostInv(u) /\ \A p : InfosOf(u, p) = InfosOf(s, p)
  BY <1>1, SameVector
<1>3. \A p : Leads(u.sent, p, InfosOf(s, p), InfosOf(s, p))
  <2>1. \A p : IndexOf(s, p) = {} => InfosOf(s, p) = {}
    BY DEF InfosOf
  <2> QED
    BY <2>1, ToldOfAll
<1> QED
  BY <1>1, <1>2, <1>3 DEF Kept, Follows

-----------------------------------------------------------------------------
(* The calls that name a plugin.                                           *)

LEMMA AtFacts ==
  ASSUME NEW s, NEW name, IndexOf(s, name) # {}
  PROVE  At(s, name) \in DOMAIN s.plugins /\ s.plugins[At(s, name)].name = name
<1>1. At(s, name) \in IndexOf(s, name)
  BY DEF At
<1> QED
  BY <1>1 DEF IndexOf

LEMMA ThrowKeeps ==
  ASSUME NEW s, HostInv(s), s.sent = <<>>
  PROVE  Throws(s) \in Kept(s)
<1> DEFINE t == Throws(s)
<1>1. s \in Kept(s) /\ s \in Host
  BY NothingDone DEF HostInv
<1>2. t = Throws(s)
  OBVIOUS
<1> HIDE DEF t
<1>3. /\ t \in Host /\ t.plugins = s.plugins /\ t.loaded = s.loaded /\ t.crashed = s.crashed
      /\ t.sent = s.sent /\ t.blamed = s.blamed
  BY <1>1, <1>2, ThrowsFacts
<1> QED
  BY <1>1, <1>2, <1>3, KeptAnyway

\* Each call on one plugin or on all of them.
LEMMA CallsKeep ==
  ASSUME NEW s, HostInv(s), s.sent = <<>>, ~ s.threw
  PROVE  /\ \A p \in Plugin : Add(s, p) \subseteq Kept(s)
         /\ \A p \in Plugin : RemoveOne(s, p) \subseteq Kept(s)
         /\ RemoveAll(s) \subseteq Kept(s)
         /\ \A p \in Plugin, enabled \in BOOLEAN : EnableOne(s, p, enabled) \subseteq Kept(s)
         /\ \A enabled \in BOOLEAN : EnableAll(s, enabled) \subseteq Kept(s)
         /\ \A p \in Plugin, value \in Value : SetExtraSettingValue(s, p, value) \subseteq Kept(s)
         /\ RestoreAllExtraSettingDefaults(s) \subseteq Kept(s)
         /\ \A p \in Plugin : UpdateCoresAboutOne(s, p) \subseteq Kept(s)
         /\ UpdateCoreAboutAll(s) \subseteq Kept(s)
<1>1. s \in Kept(s) /\ {Throws(s)} \subseteq Kept(s)
  BY NothingDone, ThrowKeeps
<1>2. ASSUME NEW p \in Plugin PROVE Add(s, p) \subseteq Kept(s)
  BY AddKeeps
<1>3. ASSUME NEW p \in Plugin PROVE RemoveOne(s, p) \subseteq Kept(s)
  BY <1>1, AtFacts, RemoveKeeps DEF RemoveOne, WithPlugin
<1>4. ASSUME NEW p \in Plugin, NEW enabled \in BOOLEAN PROVE EnableOne(s, p, enabled) \subseteq Kept(s)
  <2>1. CASE IndexOf(s, p) = {}
    BY <1>1, <2>1 DEF EnableOne, WithPlugin
  <2>2. CASE IndexOf(s, p) # {}
    <3>1. /\ EnablePlugin(s, At(s, p)) \subseteq Kept(s)
          /\ DisablePlugin(s, At(s, p)) \subseteq Kept(s)
      BY <1>1, <2>2, AtFacts, EnableKeeps, DisableKeeps
    <3> QED
      BY <2>2, <3>1 DEF EnableOne, WithPlugin, SetEnabled
  <2> QED
    BY <2>1, <2>2
<1>5. ASSUME NEW p \in Plugin, NEW value \in Value
      PROVE  SetExtraSettingValue(s, p, value) \subseteq Kept(s)
  <2>1. CASE IndexOf(s, p) = {}
    BY <1>1, <2>1 DEF SetExtraSettingValue, WithPlugin
  <2>2. CASE IndexOf(s, p) # {}
    <3>1. /\ FollowsBut(s, s, {}) /\ {} \in SUBSET {s.plugins[At(s, p)].name}
          /\ At(s, p) \in DOMAIN s.plugins
      BY <1>1, <2>2, AtFacts, KeptFollows
    <3>2. SetExtra(s, At(s, p), value) \subseteq Kept(s)
      BY <3>1, SetExtraKeeps
    <3> QED
      BY <2>2, <3>2 DEF SetExtraSettingValue, WithPlugin
  <2> QED
    BY <2>1, <2>2
<1>6. ASSUME NEW p \in Plugin PROVE UpdateCoresAboutOne(s, p) \subseteq Kept(s)
  BY <1>1, AtFacts, UpdateKeeps DEF UpdateCoresAboutOne, WithPlugin
<1>7. /\ RemoveAll(s) \subseteq Kept(s) /\ RestoreAllExtraSettingDefaults(s) \subseteq Kept(s)
      /\ UpdateCoreAboutAll(s) \subseteq Kept(s)
      /\ \A enabled \in BOOLEAN : EnableAll(s, enabled) \subseteq Kept(s)
  BY RemoveAllKeeps, RestoreAllKeeps, UpdateAllKeeps, EnableAllKeeps
<1> QED
  BY <1>2, <1>3, <1>4, <1>5, <1>6, <1>7

-----------------------------------------------------------------------------
(* The core.                                                               *)

\* What a packet about name, which leaves these infos, may make of c.
Handled(c, name, infos) ==
  {d \in Host :
     /\ HostInv(d) /\ d.sent = c.sent /\ c.blamed \subseteq d.blamed
     /\ \A p : p # name => InfosOf(d, p) = InfosOf(c, p)
     /\ name \in HasCore \ d.blamed => InfosOf(d, name) = infos}

\* A plugin that changes is as it is to be, or is blamed.
LEMMA ChangesHandled ==
  ASSUME NEW c, HostInv(c), NEW i \in DOMAIN c.plugins, NEW d, Changes(c, d, i),
         RecordGood(d.plugins[i]), NEW infos,
         c.plugins[i].name \in d.blamed \/ infos = {InfoOf(d.plugins[i])}
  PROVE  d \in Handled(c, c.plugins[i].name, infos)
<1> DEFINE name == c.plugins[i].name
<1>1. HostInv(d) /\ d \in Host /\ c \in Host /\ d.sent = c.sent /\ c.blamed \subseteq d.blamed
  BY ChangesInv DEF HostInv, Changes
<1>2. i \in DOMAIN d.plugins /\ d.plugins[i].name = name /\ Apart(d)
  BY <1>1, HostFacts DEF Changes, HostInv
<1>3. InfosOf(d, name) = {InfoOf(d.plugins[i])}
  BY <1>2, IndexFacts
<1>4. \A p : p # name => InfosOf(d, p) = InfosOf(c, p)
  BY <1>1, ChangesInfos
<1> QED
  BY <1>1, <1>3, <1>4 DEF Handled

LEMMA UpdateHandled ==
  ASSUME NEW c, HostInv(c), ~ c.threw, NEW i \in DOMAIN c.plugins, NEW info \in Info,
         info.name = c.plugins[i].name, NEW d \in Update(c, i, info)
  PROVE  d \in Handled(c, info.name, {info})
<1> DEFINE was == c.plugins[i].enabled
           r == [c.plugins[i] EXCEPT !.value = info.value]
           put == WithInfo(c, i, info, was)
<1>1. c \in Host /\ c.plugins[i] \in Record /\ RecordGood(c.plugins[i])
  BY HostFacts, GoodAt DEF HostInv
<1>2. /\ info.value \in Value /\ info.enabled \in BOOLEAN
      /\ info = [name |-> info.name, enabled |-> info.enabled, value |-> info.value]
  BY DEF Info
<1>3. /\ r \in Record /\ r.name = info.name /\ r.value = info.value
      /\ r.enabled = was /\ r.isActive = was
  BY <1>1, <1>2 DEF Record, RecordGood
<1>4. put = [c EXCEPT !.plugins[i] = r]
  <2>1. c.plugins[i].enabled = was /\ c.plugins[i] \in Record
    BY <1>1
  <2>2. [c.plugins[i] EXCEPT !.value = info.value, !.enabled = was] = r
    BY <2>1 DEF Record
  <2>3. put = [c EXCEPT !.plugins[i] = [c.plugins[i] EXCEPT !.value = info.value, !.enabled = was]]
    BY <1>1, HostFacts DEF WithInfo, Host
  <2> QED
    BY <2>2, <2>3
<1>5. \/ info.enabled = was /\ d \in OnSettingChange(put, i)
      \/ info.enabled # was /\ info.enabled /\ d \in Enable(put, i)
      \/ info.enabled # was /\ ~ info.enabled /\ d \in Disable(put, i)
  BY DEF Update
<1> HIDE DEF put, r
<1>6. /\ Changes(c, put, i) /\ put.plugins[i] = r /\ put.threw = c.threw
      /\ i \in DOMAIN put.plugins
  BY <1>1, <1>3, <1>4, PutRecord
<1>7. put \in Host
  BY <1>6 DEF Changes
<1>8. /\ Changes(put, d, i) /\ RecordGood(d.plugins[i])
      /\ info.name \in d.blamed \/ InfoOf(d.plugins[i]) = info
  <2>1. CASE info.enabled = was /\ d \in OnSettingChange(put, i)
    <3>1. /\ Changes(put, d, i) /\ d.plugins[i] = [r EXCEPT !.heard = <<InfoOf(r)>>]
      BY <1>6, <1>7, <2>1, OnSettingChangeFacts
    <3>2. InfoOf(r) = info
      BY <1>2, <1>3, <2>1 DEF InfoOf
    <3>3. InfoOf(d.plugins[i]) = info
      BY <1>3, <3>1, <3>2 DEF Record, InfoOf
    <3>4. RecordGood(d.plugins[i])
      BY <1>3, <3>1 DEF Record, RecordGood, InfoOf
    <3> QED
      BY <3>1, <3>3, <3>4
  <2>2. CASE info.enabled # was /\ info.enabled /\ d \in Enable(put, i)
    <3>1. ~ r.enabled /\ ~ r.isActive
      BY <1>1, <1>2, <1>3, <2>2 DEF Record
    <3>2. /\ Changes(put, d, i) /\ RecordGood(d.plugins[i])
          /\ d.threw => r.name \in d.blamed
          /\ d.threw \/ InfoOf(d.plugins[i]) = WithEnabled(r, TRUE)
      BY <1>6, <1>7, <2>2, <3>1, EnableFacts
    <3>3. WithEnabled(r, TRUE) = info
      BY <1>2, <1>3, <2>2 DEF WithEnabled
    <3> QED
      BY <1>3, <3>2, <3>3
  <2>3. CASE info.enabled # was /\ ~ info.enabled /\ d \in Disable(put, i)
    <3>1. r.enabled
      BY <1>1, <1>2, <1>3, <2>3 DEF Record
    <3>2. /\ Changes(put, d, i) /\ RecordGood(d.plugins[i])
          /\ InfoOf(d.plugins[i]) = WithEnabled(r, FALSE)
      BY <1>6, <1>7, <2>3, <3>1, DisableFacts
    <3>3. WithEnabled(r, FALSE) = info
      BY <1>2, <1>3, <2>3 DEF WithEnabled
    <3> QED
      BY <3>2, <3>3
  <2> QED
    BY <1>5, <2>1, <2>2, <2>3
<1>9. Changes(c, d, i)
  BY <1>1, <1>6, <1>8, ChangesTwice
<1> QED
  BY <1>8, <1>9, ChangesHandled

\* A fault has the plugin blamed.
LEMMA BlamesHandled ==
  ASSUME NEW c, HostInv(c), NEW name \in Plugin, NEW d \in Blames(c, name) \cup Fails(c, name),
         NEW infos
  PROVE  d \in Handled(c, name, infos)
<1>1. /\ d \in Host /\ d.plugins = c.plugins /\ d.loaded = c.loaded /\ d.crashed = c.crashed
      /\ d.sent = c.sent /\ d.blamed = c.blamed \cup {name}
  BY BlamesFacts, FailsFacts DEF HostInv
<1>2. HostInv(d) /\ \A p : InfosOf(d, p) = InfosOf(c, p)
  BY <1>1, SameVector
<1> QED
  BY <1>1, <1>2 DEF Handled

LEMMA AddHandled ==
  ASSUME NEW c, HostInv(c), ~ c.threw, NEW info \in Info, IndexOf(c, info.name) = {},
         NEW d \in AddPlugin(c, info)
  PROVE  d \in Handled(c, info.name, {info})
<1> DEFINE name == info.name
           added == Listed(c, name, info.value)
           i == Len(added.plugins)
<1>1. /\ name \in Plugin /\ info.value \in Value /\ info.enabled \in BOOLEAN
      /\ info = [name |-> name, enabled |-> info.enabled, value |-> info.value]
  BY DEF Info
<1>2. \/ name \notin HasCore /\ d = c
      \/ d \in Blames(c, name) \cup Fails(c, name)
      \/ info.enabled /\ d \in Enable(added, i)
      \/ ~ info.enabled /\ d = added
  BY DEF AddPlugin, AddLoaded
<1>3. added = Listed(c, name, info.value)
  OBVIOUS
<1> HIDE DEF added, name
<1>4. /\ HostInv(added) /\ added.sent = c.sent /\ added.blamed = c.blamed /\ added.threw = c.threw
      /\ i \in DOMAIN added.plugins /\ added.plugins[i] = NewPlugin(name, info.value)
      /\ \A p : p # name => InfosOf(added, p) = InfosOf(c, p)
  BY <1>1, <1>3, NewFacts DEF name
<1>5. /\ added.plugins[i].name = name /\ ~ added.plugins[i].enabled /\ ~ added.plugins[i].isActive
      /\ InfoOf(added.plugins[i]) = [name |-> name, enabled |-> FALSE, value |-> info.value]
      /\ WithEnabled(added.plugins[i], TRUE) = [name |-> name, enabled |-> TRUE, value |-> info.value]
  BY <1>4 DEF NewPlugin, InfoOf, WithEnabled
<1> HIDE DEF i
<1>6. /\ added \in Host /\ Changes(added, added, i) /\ RecordGood(added.plugins[i])
  BY <1>4, SameChanges, GoodAt DEF HostInv
<1>7. CASE name \notin HasCore /\ d = c
  BY <1>7 DEF Handled, HostInv, name
<1>8. CASE d \in Blames(c, name) \cup Fails(c, name)
  BY <1>1, <1>8, BlamesHandled DEF name
<1>9. ASSUME d \in Handled(added, name, {info}) PROVE d \in Handled(c, name, {info})
  BY <1>4, <1>9 DEF Handled
<1>10. CASE info.enabled /\ d \in Enable(added, i)
  <2>1. /\ Changes(added, d, i) /\ RecordGood(d.plugins[i])
        /\ d.threw => name \in d.blamed
        /\ d.threw \/ InfoOf(d.plugins[i]) = WithEnabled(added.plugins[i], TRUE)
    BY <1>4, <1>5, <1>6, <1>10, EnableFacts
  <2>2. name \in d.blamed \/ InfoOf(d.plugins[i]) = info
    BY <1>1, <1>5, <1>10, <2>1
  <2> QED
    BY <1>4, <1>5, <1>9, <2>1, <2>2, ChangesHandled DEF name
<1>11. CASE ~ info.enabled /\ d = added
  <2>1. InfoOf(added.plugins[i]) = info
    BY <1>1, <1>5, <1>11
  <2> QED
    BY <1>4, <1>5, <1>6, <1>9, <1>11, <2>1, ChangesHandled DEF name
<1> QED
  BY <1>2, <1>7, <1>8, <1>10, <1>11

LEMMA RemoveHandled ==
  ASSUME NEW c, HostInv(c), ~ c.threw, NEW i \in DOMAIN c.plugins, NEW d \in RemoveCorePlugin(c, i)
  PROVE  d \in Handled(c, c.plugins[i].name, {})
<1> DEFINE name == c.plugins[i].name
<1>1. PICK u \in Disable(c, i) : (u.threw /\ d = u) \/ (~ u.threw /\ d = Erase(u, i))
  BY DEF RemoveCorePlugin, Then
<1>2. c \in Host /\ RecordGood(c.plugins[i])
  BY GoodAt DEF HostInv
<1>3. Changes(c, u, i) /\ RecordGood(u.plugins[i]) /\ (u.threw => name \in u.blamed)
  <2>1. CASE c.plugins[i].enabled
    BY <1>1, <1>2, <2>1, DisableFacts
  <2>2. CASE ~ c.plugins[i].enabled
    <3>1. u = c
      BY <1>1, <2>2 DEF Disable
    <3> QED
      BY <1>2, <3>1, SameChanges
  <2> QED
    BY <2>1, <2>2
<1>4. CASE u.threw
  BY <1>1, <1>3, <1>4, ChangesHandled
<1>5. CASE ~ u.threw
  <2>1. /\ HostInv(u) /\ u.sent = c.sent /\ c.blamed \subseteq u.blamed
        /\ i \in DOMAIN u.plugins /\ u.plugins[i].name = name
        /\ \A p : p # name => InfosOf(u, p) = InfosOf(c, p)
    <3>1. HostInv(u)
      BY <1>2, <1>3, ChangesInv
    <3>2. \A p : p # name => InfosOf(u, p) = InfosOf(c, p)
      BY <1>2, <1>3, ChangesInfos
    <3>3. u.sent = c.sent /\ c.blamed \subseteq u.blamed /\ u.plugins[i].name = name
      BY <1>3 DEF Changes
    <3>4. i \in DOMAIN u.plugins
      BY <1>2, <1>3, HostFacts DEF Changes
    <3> QED
      BY <3>1, <3>2, <3>3, <3>4
  <2>2. d = Erase(u, i)
    BY <1>1, <1>5
  <2> HIDE DEF name
  <2>3. /\ HostInv(d) /\ d.sent = u.sent /\ d.blamed = u.blamed
        /\ InfosOf(d, name) = {}
        /\ \A p : p # name => InfosOf(d, p) = InfosOf(u, p)
    BY <2>1, <2>2, EraseFacts
  <2> QED
    BY <2>1, <2>3 DEF Handled, HostInv, name
<1> QED
  BY <1>4, <1>5

LEMMA HandleFacts ==
  ASSUME NEW c, HostInv(c), ~ c.threw, NEW packet \in Packet, NEW d \in Handle(c, packet)
  PROVE  d \in Handled(c, Subject(packet), Announced(packet))
<1> DEFINE name == Subject(packet)
<1>1. \/ packet.type = "PLUGIN" /\ packet.info \in Info
      \/ packet.type = "PLUGIN_REMOVE" /\ packet.name \in Plugin
  BY DEF Packet
<1>2. CASE packet.type = "PLUGIN" /\ packet.info \in Info
  <2>1. name = packet.info.name /\ Announced(packet) = {packet.info}
    BY <1>2 DEF Subject, Announced
  <2>2. CASE IndexOf(c, packet.info.name) = {}
    <3>1. d \in AddPlugin(c, packet.info)
      BY <1>2, <2>2 DEF Handle
    <3> QED
      BY <1>2, <2>1, <2>2, <3>1, AddHandled
  <2>3. CASE IndexOf(c, packet.info.name) # {}
    <3>1. d \in Update(c, At(c, packet.info.name), packet.info)
      BY <1>2, <2>3 DEF Handle
    <3>2. /\ At(c, packet.info.name) \in DOMAIN c.plugins
          /\ c.plugins[At(c, packet.info.name)].name = packet.info.name
      BY <2>3, AtFacts
    <3> QED
      BY <1>2, <2>1, <3>1, <3>2, UpdateHandled
  <2> QED
    BY <2>2, <2>3
<1>3. CASE packet.type = "PLUGIN_REMOVE" /\ packet.name \in Plugin
  <2>1. name = packet.name /\ Announced(packet) = {}
    BY <1>3 DEF Subject, Announced
  <2>2. CASE IndexOf(c, packet.name) = {}
    <3>1. d = c
      BY <1>3, <2>2 DEF Handle
    <3>2. InfosOf(c, packet.name) = {}
      BY <2>2 DEF InfosOf
    <3> QED
      BY <2>1, <3>1, <3>2 DEF Handled, HostInv
  <2>3. CASE IndexOf(c, packet.name) # {}
    <3>1. d \in RemoveCorePlugin(c, At(c, packet.name))
      BY <1>3, <2>3 DEF Handle
    <3>2. /\ At(c, packet.name) \in DOMAIN c.plugins
          /\ c.plugins[At(c, packet.name)].name = packet.name
      BY <2>3, AtFacts
    <3> QED
      BY <2>1, <3>1, <3>2, RemoveHandled
  <2> QED
    BY <2>2, <2>3
<1> QED
  BY <1>1, <1>2, <1>3

\* The destructors of both: what is sent stays as it was.
Closing(t, i) == IF t.plugins = <<>> THEN {t} ELSE RemoveCorePlugin(t, 1)

CloseLoop == INSTANCE LoopProofs WITH Body <- Closing

LEMMA CloseFacts ==
  ASSUME NEW s, HostInv(s), NEW t \in RemoveAllCorePlugins(s)
  PROVE  HostInv(t) /\ t.sent = s.sent
<1> DEFINE n == Len(s.plugins)
           xs == [i \in 1..n |-> i]
           Like == {u \in Host : HostInv(u) /\ u.sent = s.sent}
           Good == [k \in 0..Len(xs) |-> Like]
<1>1. n \in Nat /\ s \in Like
  BY HostFacts DEF HostInv
<1>2. Len(xs) = n
  BY <1>1
<1> HIDE DEF n, xs
<1>3. Len(xs) \in Nat /\ s \in Good[0]
  BY <1>1, <1>2
<1>4. ASSUME NEW u \in Like, ~ u.threw, u.plugins # <<>>
      PROVE  RemoveCorePlugin(u, 1) \subseteq Like
  <2>1. 1 \in DOMAIN u.plugins
    BY <1>4, HostFacts
  <2> QED
    BY <1>4, <2>1, RemoveHandled DEF Handled
<1> HIDE DEF Like
<1>5. ASSUME NEW i \in 1..Len(xs), NEW u \in Good[i - 1]
      PROVE  CloseLoop!Pass(u, xs[i]) \subseteq Good[i]
  <2>1. u \in Like /\ Good[i] = Like
    BY <1>3
  <2> HIDE DEF Good
  <2> QED
    BY <1>4, <2>1 DEF CloseLoop!Pass, Closing
<1> HIDE DEF Good
<1>6. \E after : after = CloseLoop!After(s, xs, after)
  BY <1>3, CloseLoop!LoopDefined
<1>7. \A after : after = CloseLoop!After(s, xs, after) => after[Len(xs)] \subseteq Good[Len(xs)]
  BY <1>3, <1>5, CloseLoop!LoopKeeps
<1>8. RemoveAllCorePlugins(s) \subseteq Good[Len(xs)]
  BY <1>6, <1>7 DEF RemoveAllCorePlugins, Repeat, ForEach, Then, CloseLoop!After, Closing, xs, n
<1> QED
  BY <1>3, <1>8 DEF Good, Like

\* ~PluginManager runs the same loop.
LEMMA DestroyFacts ==
  ASSUME NEW s, HostInv(s), NEW t \in Destroy(s)
  PROVE  HostInv(t) /\ t.sent = s.sent
BY CloseFacts DEF Destroy, RemoveAllCorePlugins, RemoveCorePlugin

-----------------------------------------------------------------------------
(* The steps.                                                              *)

LEMMA CaughtFacts ==
  ASSUME NEW s, HostInv(s), NEW t, t = Caught(s) \/ t = [Caught(s) EXCEPT !.sent = <<>>]
  PROVE  /\ HostInv(t) /\ ~ t.threw /\ t.blamed = s.blamed
         /\ \A p : InfosOf(t, p) = InfosOf(s, p)
         /\ t.sent = s.sent \/ t.sent = <<>>
         /\ t = [Caught(s) EXCEPT !.sent = <<>>] => t.sent = <<>>
<1>1. s \in Host /\ DOMAIN s = {"plugins", "loaded", "crashed", "blamed", "faults", "threw", "sent"}
  BY DEF HostInv, Host
<1>2. ASSUME NEW b \in BOOLEAN, NEW ps \in Seq(Packet)
      PROVE  [s EXCEPT !.threw = b] \in Host /\ [s EXCEPT !.threw = b, !.sent = ps] \in Host
  BY <1>1 DEF Host
<1>3. t \in Host
  <2>1. <<>> \in Seq(Packet) /\ FALSE \in BOOLEAN
    OBVIOUS
  <2>2. [Caught(s) EXCEPT !.sent = <<>>] = [s EXCEPT !.threw = FALSE, !.sent = <<>>]
    BY DEF Caught
  <2> QED
    BY <1>2, <2>1, <2>2 DEF Caught
<1>4. /\ t.plugins = s.plugins /\ t.loaded = s.loaded /\ t.crashed = s.crashed
      /\ ~ t.threw /\ t.blamed = s.blamed /\ (t.sent = s.sent \/ t.sent = <<>>)
      /\ t = [Caught(s) EXCEPT !.sent = <<>>] => t.sent = <<>>
  BY <1>1 DEF Caught
<1> QED
  BY <1>3, <1>4, SameVector

LEMMA NewHostFacts ==
  /\ HostInv(NewHost) /\ NewHost.sent = <<>> /\ ~ NewHost.threw /\ NewHost.blamed = {}
  /\ \A p : InfosOf(NewHost, p) = {}
<1>1. NewHost \in Host
  <2>1. 0 \in 0..MaxFaults /\ [p \in Plugin |-> 0] \in [Plugin -> Nat]
    BY PluginAssumption
  <2>2. <<>> \in Seq(Record) /\ <<>> \in Seq(Packet)
    OBVIOUS
  <2> QED
    BY <2>1, <2>2 DEF NewHost, Host
<1>2. DOMAIN NewHost.plugins = {} /\ ~ NewHost.crashed
  BY DEF NewHost
<1> QED
  BY <1>1, <1>2 DEF HostInv, Apart, EnabledAreActiveIn, EnabledHeardIn, CodeIsLoadedIn, InfosOf,
                    IndexOf, NewHost

\* What any call of the API leaves.
LEMMA CallingInv ==
  ASSUME IInv, NEW outcomes, outcomes \subseteq Kept(manager), Calling(outcomes)
  PROVE  IInv'
<1>1. PICK s \in outcomes :
         /\ manager' = [Caught(s) EXCEPT !.sent = <<>>]
         /\ toCore' = IF connected THEN toCore \o s.sent ELSE toCore
  BY DEF Calling, Runs
<1>2. calls < MaxCalls /\ calls' = calls + 1 /\ core' = core /\ connected' = connected
  BY DEF Calling, Runs
<1>3. s \in Host /\ HostInv(s) /\ Follows(manager, s)
  BY DEF Kept
<1>4. /\ HostInv(manager') /\ ~ manager'.threw /\ manager'.sent = <<>> /\ manager'.blamed = s.blamed
      /\ \A p : InfosOf(manager', p) = InfosOf(s, p)
  BY <1>1, <1>3, CaughtFacts
<1>5. s.sent \in Seq(Packet) /\ toCore \in Seq(Packet) /\ toCore' \in Seq(Packet)
  BY <1>1, <1>3, HostFacts DEF IInv
<1>6. calls' \in 0..MaxCalls
  BY <1>2, PluginAssumption DEF IInv
<1>7. ~ connected' => toCore' = <<>>
  BY <1>1, <1>2, PluginAssumption DEF IInv
<1>8. Mirrors'
  <2>1. SUFFICES ASSUME connected, NEW p \in HasCore \ (s.blamed \cup core.blamed)
                 PROVE  Leads(toCore \o s.sent, p, InfosOf(core, p), InfosOf(s, p))
    <3>1. connected => toCore' = toCore \o s.sent
      BY <1>1
    <3> QED
      BY <1>2, <1>4, <3>1 DEF Mirrors
  <2>2. Leads(s.sent, p, InfosOf(manager, p), InfosOf(s, p))
    BY <1>3, PluginAssumption DEF Follows
  <2>3. Leads(toCore, p, InfosOf(core, p), InfosOf(manager, p))
    BY <1>3, <2>1 DEF Follows, IInv, Mirrors
  <2> QED
    BY <1>5, <2>2, <2>3, LeadsOn
<1> QED
  BY <1>2, <1>4, <1>5, <1>6, <1>7, <1>8 DEF IInv

LEMMA ConnectInv ==
  ASSUME IInv, Connect
  PROVE  IInv'
<1>1. PICK s \in UpdateCoreAboutAll(manager) :
         /\ manager' = [Caught(s) EXCEPT !.sent = <<>>]
         /\ toCore' = toCore \o s.sent
  BY DEF Connect, Runs
<1>2. ~ connected /\ connected' = TRUE /\ core' = NewHost /\ calls < MaxCalls /\ calls' = calls + 1
  BY DEF Connect, Runs
<1>3. HostInv(manager) /\ manager.sent = <<>> /\ ~ manager.threw /\ toCore \in Seq(Packet)
  BY DEF IInv
<1>4. s \in Host /\ HostInv(s) /\ s.plugins = manager.plugins
  BY <1>3, UpdateAllFacts, UpdateAllKeeps DEF Kept
<1>5. /\ HostInv(manager') /\ ~ manager'.threw /\ manager'.sent = <<>> /\ manager'.blamed = s.blamed
      /\ \A p : InfosOf(manager', p) = InfosOf(s, p)
  BY <1>1, <1>4, CaughtFacts
<1>6. toCore = <<>>
  BY <1>2, PluginAssumption DEF IInv
<1>7. toCore' = s.sent /\ toCore' \in Seq(Packet)
  <2>1. s.sent \in Seq(Packet)
    BY <1>4, HostFacts
  <2> QED
    BY <1>1, <1>6, <2>1
<1>8. calls' \in 0..MaxCalls
  BY <1>2, PluginAssumption DEF IInv
<1>9. HostInv(core') /\ core'.sent = <<>> /\ ~ core'.threw /\ \A p : InfosOf(core', p) = {}
  BY <1>2, NewHostFacts
<1>10. Mirrors'
  <2>1. ASSUME NEW p PROVE Leads(s.sent, p, {}, InfosOf(manager, p))
    BY <1>3, ToldOfAll
  <2>2. \A p : InfosOf(s, p) = InfosOf(manager, p)
    BY <1>4 DEF InfosOf, IndexOf
  <2> QED
    BY <1>5, <1>7, <1>9, <2>1, <2>2 DEF Mirrors
<1> QED
  BY <1>2, <1>5, <1>7, <1>8, <1>9, <1>10 DEF IInv

LEMMA HandlePacketInv ==
  ASSUME IInv, HandlePacket
  PROVE  IInv'
<1> DEFINE packet == Head(toCore)
<1>1. PICK c \in Handle(core, packet) : core' = Caught(c)
  BY DEF HandlePacket
<1>2. /\ toCore # <<>> /\ toCore' = Tail(toCore) /\ toCore \in Seq(Packet)
      /\ manager' = manager /\ connected' = connected /\ calls' = calls
  BY DEF HandlePacket, IInv
<1>3. packet \in Packet /\ toCore' \in Seq(Packet)
  BY <1>2
<1>4. c \in Handled(core, Subject(packet), Announced(packet))
  BY <1>1, <1>3, HandleFacts DEF IInv
<1>5. HostInv(c) /\ c.sent = <<>>
  BY <1>4 DEF Handled, IInv
<1>6. /\ HostInv(core') /\ ~ core'.threw /\ core'.sent = <<>> /\ core'.blamed = c.blamed
      /\ \A p : InfosOf(core', p) = InfosOf(c, p)
  BY <1>1, <1>5, CaughtFacts
<1>7. ~ connected => calls = MaxCalls
  BY <1>2 DEF IInv
<1>8. Mirrors'
  <2>1. SUFFICES ASSUME connected, NEW p \in HasCore \ (manager.blamed \cup c.blamed)
                 PROVE  Leads(Tail(toCore), p, InfosOf(c, p), InfosOf(manager, p))
    BY <1>2, <1>6 DEF Mirrors, InfosOf, IndexOf
  <2>2. Leads(toCore, p, InfosOf(core, p), InfosOf(manager, p))
    BY <1>4, <2>1 DEF Handled, IInv, Mirrors
  <2>3. IF Subject(packet) = p THEN InfosOf(c, p) = Announced(packet) ELSE InfosOf(c, p) = InfosOf(core, p)
    BY <1>4, <2>1 DEF Handled
  <2> QED
    BY <1>2, <2>2, <2>3, LeadsAfterHead
<1> QED
  BY <1>2, <1>3, <1>6, <1>7, <1>8 DEF IInv

LEMMA LeaveInv ==
  ASSUME IInv, Leave
  PROVE  IInv'
<1>1. PICK c \in RemoveAllCorePlugins(core) : core' = Caught(c)
  BY DEF Leave
<1>2. HostInv(c) /\ c.sent = <<>>
  BY CloseFacts DEF IInv
<1>3. HostInv(core') /\ ~ core'.threw /\ core'.sent = <<>>
  BY <1>1, <1>2, CaughtFacts
<1>4. /\ connected' = FALSE /\ toCore' = <<>> /\ manager' = manager /\ calls' = calls
      /\ toCore' \in Seq(Packet)
  BY DEF Leave
<1> QED
  BY <1>3, <1>4 DEF IInv, Mirrors

LEMMA ExitInv ==
  ASSUME IInv, Exit
  PROVE  IInv'
<1>1. PICK s \in Destroy(manager) : manager' = Caught(s)
  BY DEF Exit
<1>2. HostInv(s) /\ s.sent = <<>>
  BY DestroyFacts DEF IInv
<1>3. HostInv(manager') /\ ~ manager'.threw /\ manager'.sent = <<>>
  BY <1>1, <1>2, CaughtFacts
<1>4. /\ connected' = FALSE /\ calls' = MaxCalls /\ toCore' = toCore /\ core' = core
      /\ calls' \in 0..MaxCalls
  BY PluginAssumption DEF Exit
<1> QED
  BY <1>3, <1>4 DEF IInv, Mirrors

LEMMA InitInv == Init => IInv
<1> SUFFICES ASSUME Init PROVE IInv
  OBVIOUS
<1>1. HostInv(manager) /\ manager.sent = <<>> /\ ~ manager.threw
  BY NewHostFacts DEF Init
<1>2. HostInv(core) /\ core.sent = <<>> /\ ~ core.threw
  BY NewHostFacts DEF Init
<1>3. connected = FALSE /\ toCore = <<>> /\ calls \in 0..MaxCalls /\ toCore \in Seq(Packet)
  BY PluginAssumption DEF Init
<1> QED
  BY <1>1, <1>2, <1>3 DEF IInv, Mirrors

LEMMA NextInv == IInv /\ [Next]_vars => IInv'
<1> SUFFICES ASSUME IInv, [Next]_vars PROVE IInv'
  OBVIOUS
<1>1. HostInv(manager) /\ manager.sent = <<>> /\ ~ manager.threw
  BY DEF IInv
<1>2. /\ \A p \in Plugin : Add(manager, p) \subseteq Kept(manager)
      /\ \A p \in Plugin : RemoveOne(manager, p) \subseteq Kept(manager)
      /\ RemoveAll(manager) \subseteq Kept(manager)
      /\ \A p \in Plugin, enabled \in BOOLEAN : EnableOne(manager, p, enabled) \subseteq Kept(manager)
      /\ \A enabled \in BOOLEAN : EnableAll(manager, enabled) \subseteq Kept(manager)
      /\ \A p \in Plugin, value \in Value :
           SetExtraSettingValue(manager, p, value) \subseteq Kept(manager)
      /\ RestoreAllExtraSettingDefaults(manager) \subseteq Kept(manager)
      /\ \A p \in Plugin : UpdateCoresAboutOne(manager, p) \subseteq Kept(manager)
      /\ UpdateCoreAboutAll(manager) \subseteq Kept(manager)
  BY <1>1, CallsKeep
<1>3. CASE CallAdd
  BY <1>2, <1>3, CallingInv DEF CallAdd
<1>4. CASE CallRemove
  BY <1>2, <1>4, CallingInv DEF CallRemove
<1>5. CASE CallRemoveAll
  BY <1>2, <1>5, CallingInv DEF CallRemoveAll
<1>6. CASE CallEnable
  BY <1>2, <1>6, CallingInv DEF CallEnable
<1>7. CASE CallEnableAll
  BY <1>2, <1>7, CallingInv DEF CallEnableAll
<1>8. CASE CallSetExtraSettingValue
  BY <1>2, <1>8, CallingInv DEF CallSetExtraSettingValue
<1>9. CASE CallRestoreAllExtraSettingDefaults
  BY <1>2, <1>9, CallingInv DEF CallRestoreAllExtraSettingDefaults
<1>10. CASE CallUpdateCoresAbout
  BY <1>2, <1>10, CallingInv DEF CallUpdateCoresAbout
<1>11. CASE CallUpdateCoresAboutAll
  BY <1>2, <1>11, CallingInv DEF CallUpdateCoresAboutAll
<1>12. CASE UNCHANGED vars
  BY <1>12 DEF vars, IInv, Mirrors
<1> QED
  BY <1>3, <1>4, <1>5, <1>6, <1>7, <1>8, <1>9, <1>10, <1>11, <1>12,
     ConnectInv, HandlePacketInv, LeaveInv, ExitInv DEF Next

-----------------------------------------------------------------------------
(* The properties.                                                         *)

LEMMA IInvSound == IInv => TypeOK /\ EnabledAreActive /\ EnabledHeard /\ CodeIsLoaded /\ Mirrored
<1> SUFFICES ASSUME IInv PROVE TypeOK /\ EnabledAreActive /\ EnabledHeard /\ CodeIsLoaded /\ Mirrored
  OBVIOUS
<1>1. ASSUME NEW s, HostInv(s), ~ s.threw PROVE HostOK(s)
  <2>1. s \in Host
    BY <1>1 DEF HostInv
  <2>2. ASSUME NEW i \in DOMAIN s.plugins
        PROVE  /\ InfoOf(s.plugins[i]) \in Info
               /\ IndexOf(s, s.plugins[i].name) = {i}
    BY <1>1, <2>1, HostFacts, IndexFacts DEF HostInv
  <2> QED
    BY <1>1, <2>1, <2>2, HostFacts DEF HostOK, Info
<1>2. TypeOK
  <2>1. ASSUME NEW i \in DOMAIN toCore PROVE toCore[i].type \in {"PLUGIN", "PLUGIN_REMOVE"}
    <3>1. toCore[i] \in Packet
      BY DEF IInv
    <3> QED
      BY <3>1 DEF Packet
  <2> QED
    BY <1>1, <2>1 DEF IInv, TypeOK
<1>3. EnabledAreActive /\ EnabledHeard /\ CodeIsLoaded
  BY DEF IInv, HostInv, EnabledAreActive, EnabledHeard, CodeIsLoaded
<1>4. Mirrored
  <2>1. SUFFICES ASSUME connected, toCore = <<>>, NEW p \in HasCore \ (manager.blamed \cup core.blamed)
                 PROVE  InfosOf(core, p) = InfosOf(manager, p)
    BY DEF Mirrored, InfosOf
  <2>2. Leads(<<>>, p, InfosOf(core, p), InfosOf(manager, p))
    BY <2>1 DEF IInv, Mirrors
  <2> QED
    BY <2>2 DEF Leads, LastSays
<1> QED
  BY <1>2, <1>3, <1>4

\* IInv is an invariant.
LEMMA Inductive == Spec => []IInv
BY InitInv, NextInv, PTL DEF Spec

\* The states of PluginManager and of PluginLoader are what their types say,
\* and neither vector lists a name twice.
THEOREM PluginTypeOK == Spec => []TypeOK
BY Inductive, IInvSound, PTL

\* Whatever the callbacks throw, in the manager and in the core: what is
\* counted as enabled is what was enabled last and not disabled since.
THEOREM PluginEnabledAreActive == Spec => []EnabledAreActive
BY Inductive, IInvSound, PTL

\* An enabled plugin was last told of the info that it has now.
THEOREM PluginEnabledHeard == Spec => []EnabledHeard
BY Inductive, IInvSound, PTL

\* The library of a listed plugin is loaded, wherever the vector is erased
\* from, and no plugin is destroyed without its code.
THEOREM PluginCodeIsLoaded == Spec => []CodeIsLoaded
BY Inductive, IInvSound, PTL

\* Once it has handled every packet, a core has each plugin as the manager has
\* it, but for those that threw or could not be loaded.
THEOREM PluginMirrored == Spec => []Mirrored
BY Inductive, IInvSound, PTL
=============================================================================
