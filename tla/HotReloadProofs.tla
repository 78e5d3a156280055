---------------------------- MODULE HotReloadProofs ----------------------------
(***************************************************************************)
(* Proofs about HotReload, for any directory, names, contents and number   *)
(* of edits: when the directory looks as it did to the last poll, the      *)
(* roster is what it says, and nobody was dropped on the way without cause.*)
(***************************************************************************)
EXTENDS HotReload, SequenceTheorems, NaturalsInduction, WellFoundedInduction, TLAPS

\* The directory looks as it did to the last poll that found a change.  An edit
\* ends this, and only the next such poll can bring it back.
Good == fingerprint = Snapshot /\ ~phantom

\* Stamps are those of edits made.
Stamps ==
    /\ \A f \in File : stamp[f] <= edits
    /\ \A x \in fingerprint \cup seen : x[2] <= edits

\* A live agent was built from a manifest with its name, and one that can be.
Built ==
    \A n \in Name : agents[n] # Absent => agents[n].name = n /\ agents[n].needs # Unknown

\* Between statements of _drop and _add, the tool follows its agent.
ToolsFollow ==
    CASE pc = "unregister" -> tools \ {target} = Live /\ target \in Name
      [] pc = "register"   -> tools \cup {target} = Live /\ target \in Name
      [] OTHER             -> tools = Live

Distinct == \A i, j \in DOMAIN loaded : loaded[i].name = loaded[j].name => i = j

\* m is what the last of the files in S says.
LastSays(S, m) == \E f \in S : content[f] = m /\ \A g \in S : g <= f

\* load, so far: the files not in todo have been read, in order.
Reading ==
    /\ \A f \in File \ todo, g \in todo : content[f] \in Manifest => f < g
    /\ Distinct
    /\ \A i \in DOMAIN loaded : LastSays(Defining(loaded[i].name) \ todo, loaded[i])
    /\ \A n \in Name : Defining(n) \ todo # {} => \E i \in DOMAIN loaded : loaded[i].name = n

\* The roster is right about n.
Settled(n) ==
    \/ agents[n] = Want(n)
    \/ agents[n] = Absent /\ Want(n) # Absent /\ Want(n).needs # Nothing

\* sync, so far: what is not to be applied any more is settled.
Syncing ==
    /\ \A n \in Name : n \in wanted <=> Want(n) # Absent
    /\ Distinct
    /\ \A i \in DOMAIN loaded : Want(loaded[i].name) = loaded[i]
    /\ \A n \in wanted : (\A i \in DOMAIN loaded : loaded[i].name # n) => Settled(n)

Phases ==
    /\ pc = "start" => fingerprint = NoPrint
    /\ Good =>
          /\ pc = "load" => Reading
          /\ pc \in {"sync", "unregister", "register"} => Syncing
          /\ pc \in {"idle", "stat"} => InSync

HotIInv == TypeOK /\ Stamps /\ Built /\ ToolsFollow /\ Phases
-----------------------------------------------------------------------------
(* Types. *)

\* The contents that are no manifests.
LEMMA Contents ==
    /\ NFiles \in Nat /\ MaxEdits \in Nat /\ Writable \subseteq Content \ {Absent}
    /\ Absent \in Content /\ Absent \notin Manifest /\ Unreadable \notin Manifest
    /\ Inactive \notin Manifest /\ Nameless \notin Manifest
    /\ Nothing \notin Name /\ Unknown \notin Name /\ Nothing # Unknown
BY HotReloadAssumption DEF Content

\* A manifest put into the dictionary takes the place of one of its name.
LEMMA Puts ==
    ASSUME NEW ms \in Seq(Manifest), NEW m \in Manifest
    PROVE  /\ Put(ms, m) \in Seq(Manifest)
           /\ \A i \in DOMAIN ms : i \in DOMAIN Put(ms, m) /\ Put(ms, m)[i].name = ms[i].name
           /\ \E i \in DOMAIN Put(ms, m) : Put(ms, m)[i] = m
           /\ \A i \in DOMAIN Put(ms, m) :
                 \/ Put(ms, m)[i] = m
                 \/ i \in DOMAIN ms /\ Put(ms, m)[i] = ms[i] /\ ms[i].name # m.name
           /\ (\A i, j \in DOMAIN ms : ms[i].name = ms[j].name => i = j)
                 => \A i, j \in DOMAIN Put(ms, m) : Put(ms, m)[i].name = Put(ms, m)[j].name => i = j
<1>1. Len(ms) \in Nat /\ DOMAIN ms = 1 .. Len(ms) /\ \A i \in 1 .. Len(ms) : ms[i] \in Manifest
  BY LenProperties
<1>2. CASE \E i \in DOMAIN ms : ms[i].name = m.name
  <2>1. PICK p : p = [i \in DOMAIN ms |-> IF ms[i].name = m.name THEN m ELSE ms[i]]
    OBVIOUS
  <2>2. Put(ms, m) = p
    BY <1>2, <2>1 DEF Put
  <2>3. DOMAIN p = DOMAIN ms /\ \A i \in DOMAIN ms : p[i] = IF ms[i].name = m.name THEN m ELSE ms[i]
    BY <2>1
  <2>4. p \in [1 .. Len(ms) -> Manifest]
    BY <1>1, <2>1, <2>3
  <2>5. p \in Seq(Manifest)
    BY <1>1, <2>4, SeqDef
  <2>6. \A i \in DOMAIN ms : p[i].name = ms[i].name
    BY <2>3
  <2>7. \E i \in DOMAIN p : p[i] = m
    BY <1>2, <2>3
  <2> QED
    BY <2>2, <2>3, <2>5, <2>6, <2>7
<1>3. CASE ~\E i \in DOMAIN ms : ms[i].name = m.name
  <2>1. PICK p : p = Append(ms, m)
    OBVIOUS
  <2>2. Put(ms, m) = p
    BY <1>3, <2>1 DEF Put
  <2>3. /\ p \in Seq(Manifest) /\ Len(p) = Len(ms) + 1 /\ p[Len(ms) + 1] = m
        /\ \A i \in 1 .. Len(ms) : p[i] = ms[i]
    BY <2>1, AppendProperties
  <2>4. DOMAIN p = 1 .. Len(ms) + 1
    BY <2>3, LenProperties
  <2>5. \A i \in DOMAIN p : i \in DOMAIN ms \/ i = Len(ms) + 1
    BY <1>1, <2>4
  <2>6. Len(ms) + 1 \in DOMAIN p /\ \A i \in DOMAIN ms : i \in DOMAIN p /\ p[i] = ms[i]
    BY <1>1, <2>3, <2>4
  <2>7. (\A i, j \in DOMAIN ms : ms[i].name = ms[j].name => i = j)
          => \A i, j \in DOMAIN p : p[i].name = p[j].name => i = j
    BY <1>3, <2>3, <2>5, <2>6
  <2> QED
    BY <1>3, <2>2, <2>3, <2>5, <2>6, <2>7
<1> QED
  BY <1>2, <1>3

\* The editors keep the types.
LEMMA EditTypes ==
    ASSUME TypeOK, NEW f \in File, Remove(f) \/ \E c \in Writable : Write(f, c)
    PROVE  TypeOK'
<1>1. PICK c \in Content : Edit(f, c) /\ phantom' \in BOOLEAN
  BY Contents DEF Remove, Write, TypeOK
<1>2. edits' \in Stamp /\ edits + 1 \in Stamp /\ edits' = edits + 1
  BY <1>1, Contents DEF Edit, TypeOK, Stamp
<1>3. content' \in [File -> Content] /\ stamp' \in [File -> Stamp]
  BY <1>1, <1>2 DEF Edit, TypeOK
<1>4. event' \in BOOLEAN /\ unheard' \in BOOLEAN
  BY <1>1, Zenon DEF Edit, TypeOK
<1>5. UNCHANGED <<pc, todo, seen, fingerprint, loaded, wanted, target, driver, observing, agents, tools>>
  BY <1>1 DEF Edit, watcher, roster
<1> QED
  BY <1>1, <1>2, <1>3, <1>4, <1>5 DEF TypeOK

\* The driver and the fingerprint keep the types.
LEMMA PollTypes ==
    ASSUME TypeOK, StartPoll \/ StartObserver \/ Stat
    PROVE  TypeOK'
<1>1. UNCHANGED <<content, stamp, edits, wanted, target, driver, agents, tools, unheard>>
  BY DEF StartPoll, StartObserver, Stat, StatFile, StatGone, Unchanged, Changed,
         store, watcher, roster, history
<1>2. /\ pc' \in {"start", "idle", "dead", "stat", "load", "sync", "unregister", "register"}
      /\ todo' \subseteq File
  BY DEF StartPoll, StartObserver, Stat, StatFile, StatGone, Unchanged, Changed, TypeOK, Present, watcher
<1>3. seen' \subseteq File \X Stamp
  BY DEF StartPoll, StartObserver, Stat, StatFile, StatGone, Unchanged, Changed, TypeOK, watcher
<1>4. fingerprint' \in (SUBSET (File \X Stamp)) \cup {NoPrint} /\ loaded' \in Seq(Manifest)
  <2>1. fingerprint' \in {fingerprint, seen} /\ loaded' \in {loaded, <<>>}
    BY DEF StartPoll, StartObserver, Stat, StatFile, StatGone, Unchanged, Changed, watcher
  <2>2. <<>> \in Seq(Manifest)
    OBVIOUS
  <2> QED
    BY <2>1, <2>2 DEF TypeOK
<1>5. observing' \in BOOLEAN /\ event' \in BOOLEAN /\ phantom' \in BOOLEAN
  BY DEF StartPoll, StartObserver, Stat, StatFile, StatGone, Unchanged, Changed, TypeOK, history
<1> QED
  BY <1>1, <1>2, <1>3, <1>4, <1>5 DEF TypeOK

\* Reading keeps the types.
LEMMA LoadTypes ==
    ASSUME TypeOK, Load
    PROVE  TypeOK'
<1>1. UNCHANGED <<content, stamp, edits, seen, fingerprint, target, driver, observing, event, agents, tools,
                  phantom, unheard>>
  BY DEF Load, ReadManifest, SkipFile, ReadNameless, EndLoad, store, roster, history
<1>2. pc' \in {"load", "dead", "sync"} /\ todo' \subseteq File
  BY DEF Load, ReadManifest, SkipFile, ReadNameless, EndLoad, TypeOK
<1>3. loaded' \in Seq(Manifest)
  BY Puts DEF Load, ReadManifest, SkipFile, ReadNameless, EndLoad, TypeOK
<1>4. wanted' \subseteq Name
  <2>1. \A i \in DOMAIN loaded : loaded[i].name \in Name
    <3>1. loaded \in Seq(Manifest) /\ \A m \in Manifest : m.name \in Name
      BY DEF TypeOK, Manifest
    <3>2. \A i \in DOMAIN loaded : loaded[i] \in Manifest
      BY <3>1, LenProperties
    <3> QED
      BY <3>1, <3>2
  <2> QED
    BY <2>1 DEF Load, ReadManifest, SkipFile, ReadNameless, EndLoad, TypeOK
<1> QED
  BY <1>1, <1>2, <1>3, <1>4 DEF TypeOK

\* The first manifest to apply, and those after it.
LEMMA HeadTail ==
    ASSUME TypeOK, loaded # <<>>
    PROVE  /\ Head(loaded) \in Manifest /\ Head(loaded).name \in Name /\ Tail(loaded) \in Seq(Manifest)
           /\ 1 \in DOMAIN loaded /\ loaded[1] = Head(loaded)
           /\ \A i \in DOMAIN Tail(loaded) : i \in Nat /\ i + 1 \in DOMAIN loaded /\ Tail(loaded)[i] = loaded[i + 1]
           /\ \A i \in DOMAIN loaded : i = 1 \/ \E j \in DOMAIN Tail(loaded) : i = j + 1
<1>1. loaded \in Seq(Manifest)
  BY DEF TypeOK
<1>2. Len(loaded) \in Nat /\ Len(loaded) # 0 /\ DOMAIN loaded = 1 .. Len(loaded)
      /\ \A i \in 1 .. Len(loaded) : loaded[i] \in Manifest
  BY <1>1, LenProperties, EmptySeq
<1>3. Head(loaded) = loaded[1] /\ Head(loaded) \in Manifest
  BY <1>1, <1>2, HeadTailProperties
<1>4. /\ Tail(loaded) \in Seq(Manifest) /\ Len(Tail(loaded)) = Len(loaded) - 1
      /\ \A i \in 1 .. Len(Tail(loaded)) : Tail(loaded)[i] = loaded[i + 1]
  BY <1>1, HeadTailProperties
<1>5. DOMAIN Tail(loaded) = 1 .. Len(loaded) - 1
  BY <1>4, LenProperties
<1>6. \A i \in DOMAIN Tail(loaded) : i \in Nat /\ i + 1 \in DOMAIN loaded /\ Tail(loaded)[i] = loaded[i + 1]
  BY <1>2, <1>4, <1>5
<1>7. \A i \in DOMAIN loaded : i = 1 \/ \E j \in DOMAIN Tail(loaded) : i = j + 1
  <2> SUFFICES ASSUME NEW i \in DOMAIN loaded, i # 1 PROVE \E j \in DOMAIN Tail(loaded) : i = j + 1
    OBVIOUS
  <2>1. i - 1 \in DOMAIN Tail(loaded) /\ i = (i - 1) + 1
    BY <1>2, <1>5
  <2> QED
    BY <2>1
<1>8. 1 \in DOMAIN loaded
  BY <1>2
<1> QED
  BY <1>3, <1>4, <1>6, <1>7, <1>8 DEF Manifest

\* Applying keeps the types.
LEMMA SyncTypes ==
    ASSUME TypeOK, ToolsFollow, Sync
    PROVE  TypeOK'
<1>1. UNCHANGED <<content, stamp, edits, todo, seen, fingerprint, wanted, driver, observing, event,
                  phantom, unheard>>
  BY DEF Sync, Retire, Drop, Unregister, Keep, Replace, Add, Register, Reject, EndSync, store, history
<1>2. pc' \in {"idle", "sync", "unregister", "register"}
  BY DEF Sync, Retire, Drop, Unregister, Keep, Replace, Add, Register, Reject, EndSync, Applying
<1>3. loaded' \in Seq(Manifest)
  BY HeadTail DEF Sync, Retire, Drop, Unregister, Keep, Replace, Add, Register, Reject, EndSync, TypeOK, Applying
<1>4. ASSUME NEW n \in Name, Drop(n) PROVE agents' \in [Name -> Manifest \cup {Absent}] /\ target' \in Name \cup {Nothing}
  BY <1>4 DEF Drop, TypeOK
<1>5. agents' \in [Name -> Manifest \cup {Absent}] /\ target' \in Name \cup {Nothing}
  <2>1. ASSUME Replace PROVE Head(loaded).name \in Name
    BY <2>1, HeadTail DEF Replace, Applying
  <2>2. CASE Add
    <3>1. Head(loaded).name \in Name /\ Head(loaded) \in Manifest
      BY <2>2, HeadTail DEF Add, Applying
    <3> QED
      BY <2>2, <3>1 DEF Add, TypeOK
  <2> QED
    BY <1>4, <2>1, <2>2 DEF Sync, Retire, Unregister, Keep, Replace, Register, Reject, EndSync, TypeOK, roster
<1>6. tools' \subseteq Name
  <2>1. CASE Register
    <3>1. target \in Name
      BY <2>1 DEF Register, ToolsFollow
    <3> QED
      BY <2>1, <3>1 DEF Register, TypeOK
  <2> QED
    BY <2>1 DEF Sync, Retire, Drop, Unregister, Keep, Replace, Add, Reject, EndSync, TypeOK, roster
<1> QED
  BY <1>1, <1>2, <1>3, <1>5, <1>6 DEF TypeOK
-----------------------------------------------------------------------------
(* What holds at every moment of a poll. *)

\* An edit has a stamp of its own; stat only copies stamps.
LEMMA StampsStep ==
    ASSUME TypeOK, Stamps, Next
    PROVE  Stamps'
<1>1. /\ edits \in Nat /\ MaxEdits \in Nat /\ stamp \in [File -> Nat]
      /\ \A x \in seen : x[2] \in Nat
      /\ \A x \in fingerprint : x[2] \in Nat
  <2>1. MaxEdits \in Nat /\ Stamp \subseteq Nat
    BY Contents DEF Stamp
  <2>2. \A x \in File \X Stamp : x[2] \in Nat
    BY <2>1
  <2>3. \A x \in NoPrint : x[2] \in Nat
    BY DEF NoPrint
  <2>4. \A x \in seen : x[2] \in Nat
    BY <2>2 DEF TypeOK
  <2>5. \A x \in fingerprint : x[2] \in Nat
    <3>1. fingerprint \subseteq File \X Stamp \/ fingerprint = NoPrint
      BY DEF TypeOK
    <3> QED
      BY <2>2, <2>3, <3>1
  <2>6. stamp \in [File -> Nat] /\ edits \in Nat
    BY <2>1 DEF TypeOK
  <2> QED
    BY <2>1, <2>4, <2>5, <2>6
<1>2. ASSUME NEW f \in File, Remove(f) \/ \E c \in Writable : Write(f, c) PROVE Stamps'
  <2>1. /\ edits' = edits + 1 /\ stamp' = [stamp EXCEPT ![f] = edits + 1]
        /\ seen' = seen /\ fingerprint' = fingerprint
    BY <1>2 DEF Remove, Write, Edit, watcher
  <2>2. \A g \in File : stamp'[g] <= edits + 1
    BY <1>1, <2>1 DEF Stamps
  <2>3. \A x \in fingerprint \cup seen : x[2] <= edits + 1
    BY <1>1 DEF Stamps
  <2> QED
    BY <2>1, <2>2, <2>3 DEF Stamps
<1>3. ASSUME NEW f \in File, StatFile(f) PROVE Stamps'
  BY <1>3 DEF StatFile, Stamps, store
<1>4. CASE StartPoll \/ StartObserver \/ (\E f \in File : StatGone(f)) \/ Unchanged \/ Changed \/ Load \/ Sync
  <2>1. seen' \subseteq seen /\ fingerprint' \subseteq fingerprint \cup seen /\ edits' = edits /\ stamp' = stamp
    <3>1. CASE StartPoll \/ StartObserver
      BY <3>1 DEF StartPoll, StartObserver, store, watcher
    <3>2. CASE (\E f \in File : StatGone(f)) \/ Unchanged \/ Changed
      BY <3>2 DEF StatGone, Unchanged, Changed, store
    <3>3. CASE Load
      BY <3>3 DEF Load, ReadManifest, SkipFile, ReadNameless, EndLoad, store
    <3>4. CASE Sync
      BY <3>4 DEF store, Sync, Retire, Drop, Unregister, Keep, Replace, Add, Register, Reject, EndSync
    <3> QED
      BY <1>4, <3>1, <3>2, <3>3, <3>4
  <2> QED
    BY <2>1 DEF Stamps
<1> QED
  BY <1>2, <1>3, <1>4 DEF Next, Watch, Stat

\* An allowlist with a tool that no one registers is not resolved.
LEMMA BuiltStep ==
    ASSUME TypeOK, Built, Next
    PROVE  Built'
<1>1. CASE Add
  <2>1. PICK m \in Manifest : m = Head(loaded) /\ m.name \in Name
    BY <1>1, HeadTail DEF Add, Applying
  <2>2. m.needs # Unknown
    BY <1>1, <2>1, Contents DEF Add, Valid, TypeOK
  <2>3. agents' = [agents EXCEPT ![m.name] = m]
    BY <1>1, <2>1 DEF Add
  <2> QED
    BY <2>1, <2>2, <2>3 DEF Built, TypeOK
<1>2. ASSUME NEW n \in Name, Drop(n) PROVE Built'
  BY <1>2 DEF Drop, Built, TypeOK
<1>3. ASSUME Replace PROVE \E n \in Name : Drop(n)
  BY <1>3, HeadTail DEF Replace, Applying
<1>4. CASE agents' = agents
  BY <1>4 DEF Built
<1>5. Next => agents' = agents \/ Add \/ Replace \/ \E n \in Name : Retire(n)
  BY DEF Next, Remove, Write, Edit, Watch, StartPoll, StartObserver, Stat, StatFile, StatGone, Unchanged, Changed,
     Load, ReadManifest, SkipFile, ReadNameless, EndLoad,
     Sync, Unregister, Keep, Register, Reject, EndSync, roster
<1> QED
  BY <1>1, <1>2, <1>3, <1>4, <1>5 DEF Retire

\* A tool goes after its agent, and comes after it.
LEMMA ToolsStep ==
    ASSUME TypeOK, ToolsFollow, Next
    PROVE  ToolsFollow'
<1>1. ASSUME NEW n \in Name, Drop(n), pc = "sync" PROVE ToolsFollow'
  <2>1. /\ agents' = [agents EXCEPT ![n] = Absent] /\ target' = n /\ pc' = "unregister" /\ tools' = tools
        /\ tools = Live
    BY <1>1 DEF Drop, ToolsFollow
  <2>2. Live' = Live \ {n}
    BY <2>1 DEF Live, TypeOK
  <2> QED
    BY <2>1, <2>2 DEF ToolsFollow
<1>2. CASE Add
  <2>1. PICK m \in Manifest : m = Head(loaded) /\ m.name \in Name
    BY <1>2, HeadTail DEF Add, Applying
  <2>2. /\ agents' = [agents EXCEPT ![m.name] = m] /\ target' = m.name /\ pc' = "register" /\ tools' = tools
        /\ tools = Live
    BY <1>2, <2>1 DEF Add, Applying, ToolsFollow
  <2>3. Live' = Live \cup {m.name}
    BY <2>1, <2>2, Contents DEF Live, TypeOK
  <2> QED
    BY <2>1, <2>2, <2>3 DEF ToolsFollow
<1>3. CASE Register
  <2>1. pc = "register" /\ tools' = tools \cup {target} /\ pc' = "sync" /\ agents' = agents
    BY <1>3 DEF Register
  <2>2. Live' = Live
    BY <2>1 DEF Live
  <2> QED
    BY <2>1, <2>2 DEF ToolsFollow
<1>4. CASE Unregister
  <2>1. pc = "unregister" /\ tools' = tools \ {target} /\ pc' = "sync" /\ agents' = agents
    BY <1>4 DEF Unregister
  <2>2. Live' = Live
    BY <2>1 DEF Live
  <2> QED
    BY <2>1, <2>2 DEF ToolsFollow
<1>5. CASE Replace \/ \E n \in Name : Retire(n)
  BY <1>1, <1>5, HeadTail DEF Replace, Retire, Applying
<1> DEFINE Elsewhere ==
             /\ agents' = agents /\ tools' = tools
             /\ \/ pc' = pc /\ target' = target
                \/ pc' \notin {"unregister", "register"} /\ pc \notin {"unregister", "register"}
<1>6. CASE Elsewhere
  <2>1. Live' = Live
    BY <1>6 DEF Live
  <2> QED
    BY <1>6, <2>1 DEF ToolsFollow
<1>7. (\E f \in File : Remove(f) \/ \E c \in Writable : Write(f, c)) => Elsewhere
  BY DEF Remove, Write, Edit, roster, watcher
<1>8. StartPoll \/ StartObserver \/ Keep \/ Reject \/ EndSync => Elsewhere
  BY DEF StartPoll, StartObserver, Keep, Reject, EndSync, Applying, roster, watcher
<1>9. Stat \/ Load => Elsewhere
  BY DEF Stat, StatFile, StatGone, Unchanged, Changed, Load, ReadManifest, SkipFile, ReadNameless, EndLoad, roster
<1> HIDE DEF Elsewhere
<1> QED
  BY <1>2, <1>3, <1>4, <1>5, <1>6, <1>7, <1>8, <1>9 DEF Next, Watch, Sync
-----------------------------------------------------------------------------
(* While the directory looks as it did. *)

\* After an edit the directory does not look as it did to the last poll: the file
\* has a stamp the poll has not seen, or is missing, or was never listed.
LEMMA EditEndsGood ==
    ASSUME TypeOK, Stamps, NEW f \in File, Remove(f) \/ \E c \in Writable : Write(f, c)
    PROVE  ~Good'
<1>1. CASE Remove(f)
  <2>1. /\ content' = [content EXCEPT ![f] = Absent] /\ fingerprint' = fingerprint
        /\ phantom' = (phantom \/ <<f, stamp[f]>> \notin fingerprint)
    BY <1>1 DEF Remove, Edit, watcher
  <2>2. f \notin Present'
    BY <2>1 DEF Present, TypeOK
  <2>3. <<f, stamp[f]>> \notin Snapshot'
    BY <2>2 DEF Snapshot
  <2> QED
    BY <2>1, <2>3 DEF Good
<1>2. ASSUME NEW c \in Writable, Write(f, c) PROVE ~Good'
  <2>1. /\ content' = [content EXCEPT ![f] = c] /\ c # Absent /\ fingerprint' = fingerprint
        /\ stamp' = [stamp EXCEPT ![f] = edits + 1]
    BY <1>2 DEF Write, Edit, watcher
  <2>2. f \in Present' /\ stamp'[f] = edits + 1
    BY <2>1 DEF Present, TypeOK
  <2>3. <<f, edits + 1>> \in Snapshot'
    BY <2>2 DEF Snapshot
  <2>4. edits \in Nat
    BY Contents DEF TypeOK, Stamp
  <2>5. <<f, edits + 1>> \notin fingerprint
    <3>1. SUFFICES ASSUME <<f, edits + 1>> \in fingerprint PROVE FALSE
      OBVIOUS
    <3>2. edits + 1 <= edits
      BY <3>1 DEF Stamps
    <3> QED
      BY <2>4, <3>2
  <2> QED
    BY <2>1, <2>3, <2>5 DEF Good
<1> QED
  BY <1>1, <1>2

\* Stuttering and the steps that leave the directory, the fingerprint and the
\* roster alone.
LEMMA PhasesQuiet ==
    ASSUME Phases, UNCHANGED <<content, stamp, fingerprint, phantom, agents, tools>>,
           \/ UNCHANGED <<pc, todo, loaded, wanted>>
           \/ pc' = "dead"
           \/ pc \in {"idle", "stat"} /\ pc' \in {"idle", "stat"}
           \/ pc = "start" /\ pc' = "stat"
    PROVE  Phases'
<1>1. Good' = Good /\ Present' = Present /\ Snapshot' = Snapshot /\ Live' = Live
  BY DEF Good, Present, Snapshot, Live
<1>2. \A n \in Name : Defining(n)' = Defining(n) /\ Want(n)' = Want(n) /\ Settled(n)' = Settled(n)
  BY DEF Defining, Want, Settled
<1>3. InSync' = InSync
  BY <1>1, <1>2 DEF InSync
<1>4. NoPrint # Snapshot
  <2>1. 0 \notin File
    BY Contents DEF File
  <2>2. <<0, 0>> \notin Snapshot /\ <<0, 0>> \in NoPrint
    BY <2>1 DEF Snapshot, Present, NoPrint
  <2> QED
    BY <2>2
<1>5. CASE UNCHANGED <<pc, todo, loaded, wanted>>
  <2>1. Reading' = Reading
    BY <1>5 DEF Reading, Distinct, LastSays, Defining
  <2>2. Syncing' = Syncing
    BY <1>5 DEF Syncing, Distinct, Want, Defining, Settled
  <2> QED
    BY <1>1, <1>3, <1>5, <2>1, <2>2 DEF Phases
<1>6. CASE pc' = "dead"
  BY <1>6 DEF Phases
<1>7. CASE pc \in {"idle", "stat"} /\ pc' \in {"idle", "stat"}
  BY <1>1, <1>3, <1>7 DEF Phases
<1>8. CASE pc = "start" /\ pc' = "stat"
  BY <1>1, <1>4, <1>8 DEF Phases, Good
<1> QED
  BY <1>5, <1>6, <1>7, <1>8

\* What is read is the file with the least number left.
LEMMA NextIsLeast ==
    ASSUME TypeOK, todo # {}
    PROVE  NextFile \in todo /\ NextFile \in File /\ \A g \in todo : NextFile <= g
<1> DEFINE Below == {ss \in Nat \X Nat : ss[1] < ss[2]}
<1>0. todo \subseteq Nat /\ todo \subseteq File
  BY Contents DEF TypeOK, File
<1>1. IsWellFoundedOn(Below, Nat)
  BY NatLessThanWellFounded DEF OpToRel
<1>2. PICK y \in todo : \A z \in todo : ~ (<<z, y>> \in Below)
  BY <1>0, <1>1, WFMin
<1>3. \A z \in todo : ~(z < y) /\ z \in Nat /\ y \in Nat
  BY <1>0, <1>2
<1>4. \A z \in todo : y <= z
  BY <1>3
<1>5. NextFile \in todo /\ \A g \in todo : NextFile <= g
  BY <1>4, Zenon DEF NextFile
<1> QED
  BY <1>0, <1>5

\* The last file that defines an agent is what the directory says of it.
LEMMA LastIsWanted ==
    ASSUME NEW n \in Name, NEW m, LastSays(Defining(n), m)
    PROVE  Want(n) = m
<1>1. PICK f \in Defining(n) : content[f] = m /\ \A g \in Defining(n) : g <= f
  BY DEF LastSays
<1>2. \A g \in Defining(n) : g \in Nat
  BY Contents DEF Defining, File
<1>3. \A h \in Defining(n) : (\A g \in Defining(n) : g <= h) => h = f
  <2> SUFFICES ASSUME NEW h \in Defining(n), \A g \in Defining(n) : g <= h PROVE h = f
    OBVIOUS
  <2>1. h <= f /\ f <= h /\ h \in Nat /\ f \in Nat
    BY <1>1, <1>2
  <2> QED
    BY <2>1
<1>4. PICK x : x = CHOOSE h \in Defining(n) : \A g \in Defining(n) : g <= h
  OBVIOUS
<1>5. x \in Defining(n) /\ \A g \in Defining(n) : g <= x
  BY <1>1, <1>4, Zenon
<1>6. x = f
  BY <1>3, <1>5
<1> QED
  BY <1>1, <1>4, <1>6 DEF Want
\* load begins with nothing read.
LEMMA ChangedPhases ==
    ASSUME TypeOK, Changed
    PROVE  Phases'
<1>1. pc' = "load" /\ todo' = Present /\ loaded' = <<>> /\ content' = content
  BY DEF Changed, store
<1>2. \A f \in File \ todo' : content'[f] \notin Manifest
  BY <1>1, Contents DEF Present
<1>3. \A n \in Name : Defining(n)' \ todo' = {}
  BY <1>2 DEF Defining
<1>4. Reading'
  BY <1>1, <1>2, <1>3 DEF Reading, Distinct
<1> QED
  BY <1>1, <1>4 DEF Phases

\* A manifest that is read is the last, so far, of those with its name.
LEMMA ReadPhases ==
    ASSUME TypeOK, Reading, ReadManifest
    PROVE  Reading'
<1>1. PICK f \in File : f = NextFile /\ f \in todo /\ \A g \in todo : f <= g
  BY NextIsLeast DEF ReadManifest
<1>2. PICK m \in Manifest : m = content[f] /\ m.name \in Name
  BY <1>1 DEF ReadManifest, Manifest
<1>3. loaded' = Put(loaded, m) /\ todo' = todo \ {f} /\ content' = content
  BY <1>1, <1>2 DEF ReadManifest, store
<1>4. /\ \A i \in DOMAIN loaded : i \in DOMAIN loaded' /\ loaded'[i].name = loaded[i].name
      /\ \E i \in DOMAIN loaded' : loaded'[i] = m
      /\ \A i \in DOMAIN loaded' :
            \/ loaded'[i] = m
            \/ i \in DOMAIN loaded /\ loaded'[i] = loaded[i] /\ loaded[i].name # m.name
      /\ (\A i, j \in DOMAIN loaded : loaded[i].name = loaded[j].name => i = j)
           => \A i, j \in DOMAIN loaded' : loaded'[i].name = loaded'[j].name => i = j
  <2>1. PICK ms \in Seq(Manifest) : ms = loaded
    BY DEF TypeOK
  <2>2. /\ \A i \in DOMAIN ms : i \in DOMAIN Put(ms, m) /\ Put(ms, m)[i].name = ms[i].name
        /\ \E i \in DOMAIN Put(ms, m) : Put(ms, m)[i] = m
        /\ \A i \in DOMAIN Put(ms, m) :
              \/ Put(ms, m)[i] = m
              \/ i \in DOMAIN ms /\ Put(ms, m)[i] = ms[i] /\ ms[i].name # m.name
        /\ (\A i, j \in DOMAIN ms : ms[i].name = ms[j].name => i = j)
             => \A i, j \in DOMAIN Put(ms, m) : Put(ms, m)[i].name = Put(ms, m)[j].name => i = j
    BY Puts
  <2>3. loaded' = Put(ms, m)
    BY <1>3, <2>1
  <2> QED
    BY <2>1, <2>2, <2>3
<1>5. File \subseteq Nat
  BY Contents DEF File
<1>6. \A g \in File \ todo', h \in todo' : content'[g] \in Manifest => g < h
  <2> SUFFICES ASSUME NEW g \in File \ todo', NEW h \in todo', content[g] \in Manifest PROVE g < h
    BY <1>3
  <2>1. CASE g = f
    <3>1. f <= h /\ h # f /\ h \in Nat /\ f \in Nat
      BY <1>1, <1>3, <1>5 DEF TypeOK
    <3> QED
      BY <2>1, <3>1
  <2>2. CASE g # f
    BY <1>3, <2>2 DEF Reading
  <2> QED
    BY <2>1, <2>2
<1>7. Distinct'
  BY <1>4 DEF Reading, Distinct
<1>8. \A n \in Name : Defining(n)' = Defining(n)
  BY <1>3 DEF Defining
<1>9. \A n \in Name : n # m.name => Defining(n) \ todo' = Defining(n) \ todo
  BY <1>2, <1>3 DEF Defining
<1>10. f \in Defining(m.name) \ todo' /\ \A g \in Defining(m.name) \ todo' : g <= f
  <2>1. f \in Defining(m.name) /\ f \notin todo'
    BY <1>2, <1>3 DEF Defining
  <2>2. ASSUME NEW g \in Defining(m.name) \ todo' PROVE g <= f
    <3>1. g \in File /\ content[g] \in Manifest /\ g \in Nat /\ f \in Nat
      BY <1>5, <2>2 DEF Defining
    <3>2. CASE g = f
      BY <3>1, <3>2
    <3>3. CASE g # f
      <4>1. g < f
        BY <1>1, <1>3, <2>2, <3>1, <3>3 DEF Reading
      <4> QED
        BY <3>1, <4>1
    <3> QED
      BY <3>2, <3>3
  <2> QED
    BY <2>1, <2>2
<1>11. loaded \in Seq(Manifest) /\ \A i \in DOMAIN loaded : loaded[i].name \in Name
  <2>1. loaded \in Seq(Manifest) /\ \A x \in Manifest : x.name \in Name
    BY DEF TypeOK, Manifest
  <2>2. \A i \in DOMAIN loaded : loaded[i] \in Manifest
    BY <2>1, LenProperties
  <2> QED
    BY <2>1, <2>2
<1>12. \A i \in DOMAIN loaded' : LastSays(Defining(loaded[i].name) \ todo, loaded[i])'
  <2> SUFFICES ASSUME NEW i \in DOMAIN loaded'
               PROVE  LastSays(Defining(loaded[i].name) \ todo, loaded[i])'
    OBVIOUS
  <2>1. CASE loaded'[i] = m
    <3>1. Defining(m.name)' = Defining(m.name)
      BY <1>2, <1>8
    <3> QED
      BY <1>2, <1>3, <1>10, <2>1, <3>1 DEF LastSays
  <2>2. CASE i \in DOMAIN loaded /\ loaded'[i] = loaded[i] /\ loaded[i].name # m.name
    <3>1. PICK n \in Name : n = loaded[i].name
      BY <1>11, <2>2
    <3>2. LastSays(Defining(n) \ todo, loaded[i])
      BY <2>2, <3>1 DEF Reading
    <3>3. Defining(n)' = Defining(n) /\ Defining(n) \ todo' = Defining(n) \ todo
      BY <1>8, <1>9, <2>2, <3>1
    <3> QED
      BY <1>3, <2>2, <3>1, <3>2, <3>3 DEF LastSays
  <2> QED
    BY <1>4, <2>1, <2>2
<1>13. \A n \in Name : Defining(n)' \ todo' # {} => \E i \in DOMAIN loaded' : loaded'[i].name = n
  <2> SUFFICES ASSUME NEW n \in Name, Defining(n)' \ todo' # {}
               PROVE  \E i \in DOMAIN loaded' : loaded'[i].name = n
    OBVIOUS
  <2>1. CASE n = m.name
    BY <1>4, <2>1
  <2>2. CASE n # m.name
    <3>1. Defining(n) \ todo # {}
      BY <1>8, <1>9, <2>2
    <3>2. PICK i \in DOMAIN loaded : loaded[i].name = n
      BY <3>1 DEF Reading
    <3> QED
      BY <1>4, <3>2
  <2> QED
    BY <2>1, <2>2
<1> QED
  BY <1>6, <1>7, <1>12, <1>13 DEF Reading
\* A file that is skipped defines nothing.
LEMMA SkipPhases ==
    ASSUME TypeOK, Reading, SkipFile
    PROVE  Reading'
<1>1. PICK f \in File : f = NextFile /\ f \in todo /\ \A g \in todo : f <= g
  BY NextIsLeast DEF SkipFile
<1>2. content[f] \notin Manifest /\ todo' = todo \ {f} /\ loaded' = loaded /\ content' = content
  BY <1>1, Contents DEF SkipFile, store
<1>3. \A n \in Name : Defining(n)' = Defining(n) /\ Defining(n) \ todo' = Defining(n) \ todo
  BY <1>2 DEF Defining
<1>4. \A g \in File \ todo', h \in todo' : content'[g] \in Manifest => g < h
  BY <1>2 DEF Reading
<1>5. \A i \in DOMAIN loaded : loaded[i].name \in Name
  <2>1. loaded \in Seq(Manifest) /\ \A x \in Manifest : x.name \in Name
    BY DEF TypeOK, Manifest
  <2>2. \A i \in DOMAIN loaded : loaded[i] \in Manifest
    BY <2>1, LenProperties
  <2> QED
    BY <2>1, <2>2
<1>6. \A i \in DOMAIN loaded' : LastSays(Defining(loaded[i].name) \ todo, loaded[i])'
  <2> SUFFICES ASSUME NEW i \in DOMAIN loaded PROVE LastSays(Defining(loaded[i].name) \ todo, loaded[i])'
    BY <1>2
  <2>1. PICK n \in Name : n = loaded[i].name
    BY <1>5
  <2>2. LastSays(Defining(n) \ todo, loaded[i])
    BY <2>1 DEF Reading
  <2> QED
    BY <1>2, <1>3, <2>1, <2>2 DEF LastSays
<1>7. Distinct'
  BY <1>2 DEF Reading, Distinct
<1>8. \A n \in Name : Defining(n)' \ todo' # {} => \E i \in DOMAIN loaded' : loaded'[i].name = n
  BY <1>2, <1>3 DEF Reading
<1> QED
  BY <1>4, <1>6, <1>7, <1>8 DEF Reading

\* When everything is read, the manifests are those of the directory.
LEMMA EndLoadPhases ==
    ASSUME TypeOK, Reading, EndLoad
    PROVE  Syncing'
<1>1. todo = {} /\ wanted' = {loaded[i].name : i \in DOMAIN loaded} /\ loaded' = loaded
      /\ content' = content /\ agents' = agents
  BY DEF EndLoad, store, roster
<1>2. \A n \in Name : Want(n)' = Want(n)
  BY <1>1 DEF Want, Defining
<1>3. \A i \in DOMAIN loaded : loaded[i] \in Manifest /\ loaded[i].name \in Name
  <2>1. loaded \in Seq(Manifest) /\ \A x \in Manifest : x.name \in Name
    BY DEF TypeOK, Manifest
  <2>2. \A i \in DOMAIN loaded : loaded[i] \in Manifest
    BY <2>1, LenProperties
  <2> QED
    BY <2>1, <2>2
<1>4. \A i \in DOMAIN loaded : Want(loaded[i].name) = loaded[i]
  <2> SUFFICES ASSUME NEW i \in DOMAIN loaded PROVE Want(loaded[i].name) = loaded[i]
    OBVIOUS
  <2>1. PICK n \in Name : n = loaded[i].name
    BY <1>3
  <2>2. PICK m : m = loaded[i]
    OBVIOUS
  <2>3. Defining(n) \ todo = Defining(n)
    BY <1>1
  <2>4. LastSays(Defining(n), m)
    BY <2>1, <2>2, <2>3 DEF Reading
  <2>5. Want(n) = m
    BY <2>4, LastIsWanted
  <2> QED
    BY <2>1, <2>2, <2>5
<1>5. \A n \in Name : n \in wanted' <=> Want(n) # Absent
  <2> SUFFICES ASSUME NEW n \in Name PROVE n \in wanted' <=> Want(n) # Absent
    OBVIOUS
  <2>1. n \in wanted' => Want(n) # Absent
    BY <1>1, <1>3, <1>4, Contents
  <2>2. n \notin wanted' => Want(n) = Absent
    <3>1. SUFFICES ASSUME n \notin wanted' PROVE Defining(n) = {}
      BY DEF Want
    <3>2. Defining(n) \ todo = {}
      BY <1>1, <3>1 DEF Reading
    <3> QED
      BY <1>1, <3>2
  <2> QED
    BY <2>1, <2>2
<1>6. Distinct'
  BY <1>1 DEF Reading, Distinct
<1>7. \A n \in wanted' : \E i \in DOMAIN loaded' : loaded'[i].name = n
  BY <1>1
<1>8. \A i \in DOMAIN loaded' : Want(loaded[i].name)' = loaded'[i]
  <2> SUFFICES ASSUME NEW i \in DOMAIN loaded PROVE Want(loaded[i].name)' = loaded[i]
    BY <1>1
  <2>1. PICK n \in Name : n = loaded[i].name
    BY <1>3
  <2> QED
    BY <1>1, <1>2, <1>4, <2>1
<1>9. \A n \in wanted' : (\A i \in DOMAIN loaded' : loaded'[i].name # n) => Settled(n)'
  BY <1>7
<1>10. \A n \in Name : n \in wanted' <=> Want(n)' # Absent
  BY <1>2, <1>5
<1> QED
  BY <1>6, <1>8, <1>9, <1>10 DEF Syncing

\* Between the steps of sync the roster comes to be what the directory says.
LEMMA SyncPhases ==
    ASSUME TypeOK, Built, ToolsFollow, Phases, Sync
    PROVE  Phases'
<1>1. UNCHANGED <<content, stamp, fingerprint, phantom, wanted>>
  BY DEF Sync, Retire, Drop, Unregister, Keep, Replace, Add, Register, Reject, EndSync, store, history
<1>2. Good' = Good /\ \A n \in Name : Want(n)' = Want(n)
  BY <1>1 DEF Good, Snapshot, Present, Want, Defining
<1>3. pc \in {"sync", "unregister", "register"} /\ pc' \in {"idle", "sync", "unregister", "register"}
  BY DEF Sync, Retire, Drop, Unregister, Keep, Replace, Add, Register, Reject, EndSync, Applying
<1>4. SUFFICES ASSUME Good PROVE (pc' = "idle" => InSync') /\ (pc' # "idle" => Syncing')
  BY <1>2, <1>3, Zenon DEF Phases
<1>5. Syncing
  BY <1>3, <1>4 DEF Phases
<1>6. \A i \in DOMAIN loaded : loaded[i] \in Manifest /\ loaded[i].name \in Name
  <2>1. loaded \in Seq(Manifest) /\ \A x \in Manifest : x.name \in Name
    BY DEF TypeOK, Manifest
  <2>2. \A i \in DOMAIN loaded : loaded[i] \in Manifest
    BY <2>1, LenProperties
  <2> QED
    BY <2>1, <2>2
<1>7. ASSUME loaded' = loaded, \A n \in wanted : agents'[n] = agents[n] \/ \E i \in DOMAIN loaded : loaded[i].name = n
      PROVE  Syncing'
  <2>1. \A i \in DOMAIN loaded' : Want(loaded[i].name)' = loaded'[i]
    <3> SUFFICES ASSUME NEW i \in DOMAIN loaded PROVE Want(loaded[i].name)' = loaded[i]
      BY <1>7
    <3>1. PICK n \in Name : n = loaded[i].name
      BY <1>6
    <3> QED
      BY <1>2, <1>5, <1>7, <3>1 DEF Syncing
  <2>2. Distinct'
    BY <1>5, <1>7 DEF Syncing, Distinct
  <2>3. \A n \in wanted' : (\A i \in DOMAIN loaded' : loaded'[i].name # n) => Settled(n)'
    <3> SUFFICES ASSUME NEW n \in wanted, \A i \in DOMAIN loaded : loaded[i].name # n PROVE Settled(n)'
      BY <1>1, <1>7
    <3>1. Settled(n) /\ agents'[n] = agents[n] /\ n \in Name
      BY <1>5, <1>7 DEF Syncing, TypeOK
    <3> QED
      BY <1>2, <3>1 DEF Settled
  <2>4. \A n \in Name : n \in wanted' <=> Want(n)' # Absent
    BY <1>1, <1>2, <1>5 DEF Syncing
  <2> QED
    BY <2>1, <2>2, <2>3, <2>4 DEF Syncing
<1>8. ASSUME NEW h \in Name, Applying, h = Head(loaded).name, loaded' = Tail(loaded),
             \A n \in Name : n # h => agents'[n] = agents[n], Settled(h)'
      PROVE  Syncing'
  <2>1. loaded # <<>>
    BY <1>8 DEF Applying
  <2>2. /\ Head(loaded).name \in Name /\ 1 \in DOMAIN loaded /\ loaded[1] = Head(loaded)
        /\ \A i \in DOMAIN loaded' : i \in Nat /\ i + 1 \in DOMAIN loaded /\ loaded'[i] = loaded[i + 1]
        /\ \A i \in DOMAIN loaded : i = 1 \/ \E j \in DOMAIN loaded' : i = j + 1
    BY <1>8, <2>1, HeadTail
  <2>3. \A i \in DOMAIN loaded' : Want(loaded[i].name)' = loaded'[i]
    <3> SUFFICES ASSUME NEW i \in DOMAIN loaded' PROVE Want(loaded[i].name)' = loaded'[i]
      OBVIOUS
    <3>1. PICK n \in Name : n = loaded'[i].name
      BY <1>6, <2>2
    <3>2. Want(n) = loaded'[i]
      BY <1>5, <2>2, <3>1 DEF Syncing
    <3>3. Want(n)' = loaded'[i]
      BY <1>2, <3>2
    <3> QED
      BY <3>1, <3>3
  <2>4. Distinct'
    <3>1. \A i, j \in DOMAIN loaded' : loaded'[i].name = loaded'[j].name => i + 1 = j + 1
      BY <1>5, <2>2 DEF Syncing, Distinct
    <3>2. \A i, j \in DOMAIN loaded' : i + 1 = j + 1 => i = j
      BY <2>2
    <3> QED
      BY <3>1, <3>2 DEF Distinct
  <2>5. \A n \in wanted' : (\A i \in DOMAIN loaded' : loaded'[i].name # n) => Settled(n)'
    <3> SUFFICES ASSUME NEW n \in wanted, \A i \in DOMAIN loaded' : loaded'[i].name # n PROVE Settled(n)'
      BY <1>1
    <3>0. n \in Name
      BY DEF TypeOK
    <3>1. CASE n = h
      BY <1>8, <3>1
    <3>2. CASE n # h
      <4>1. \A i \in DOMAIN loaded : loaded[i].name # n
        BY <1>8, <2>2, <3>2
      <4>2. Settled(n) /\ agents'[n] = agents[n]
        BY <1>5, <1>8, <3>0, <3>2, <4>1 DEF Syncing
      <4> QED
        BY <1>2, <3>0, <4>2 DEF Settled
    <3> QED
      BY <3>1, <3>2
  <2>6. \A n \in Name : n \in wanted' <=> Want(n)' # Absent
    BY <1>1, <1>2, <1>5 DEF Syncing
  <2> QED
    BY <2>3, <2>4, <2>5, <2>6 DEF Syncing
<1>9. ASSUME NEW n \in Name, Drop(n), n \notin wanted \/ \E i \in DOMAIN loaded : loaded[i].name = n
      PROVE  Syncing' /\ pc' = "unregister"
  <2>1. loaded' = loaded /\ pc' = "unregister" /\ \A k \in Name : k # n => agents'[k] = agents[k]
    BY <1>9 DEF Drop, TypeOK
  <2>2. \A k \in wanted : agents'[k] = agents[k] \/ \E i \in DOMAIN loaded : loaded[i].name = k
    BY <1>9, <2>1 DEF TypeOK
  <2> QED
    BY <1>7, <2>1, <2>2
<1>10. CASE \E n \in Name : Retire(n)
  BY <1>9, <1>10 DEF Retire
<1>11. CASE Replace
  <2>1. PICK h : h = Head(loaded).name
    OBVIOUS
  <2>2. h \in Name /\ Drop(h) /\ \E i \in DOMAIN loaded : loaded[i].name = h
    BY <1>11, <2>1, HeadTail DEF Replace, Applying
  <2> QED
    BY <1>9, <2>2
<1>12. CASE Unregister \/ Register
  BY <1>7, <1>12 DEF Unregister, Register
<1>13. ASSUME Applying
       PROVE  \E h \in Name : /\ h = Head(loaded).name /\ Head(loaded) \in Manifest /\ Want(h) = Head(loaded)
                              /\ Head(loaded) # Absent
  <2>1. /\ Head(loaded) \in Manifest /\ Head(loaded).name \in Name
        /\ 1 \in DOMAIN loaded /\ loaded[1] = Head(loaded)
    BY <1>13, HeadTail DEF Applying
  <2>2. Want(loaded[1].name) = loaded[1]
    BY <1>5, <2>1 DEF Syncing
  <2>3. PICK m \in Manifest : m = Head(loaded) /\ m.name \in Name
    BY <2>1
  <2>4. Want(m.name) = m
    BY <2>1, <2>2, <2>3
  <2> QED
    BY <2>3, <2>4, Contents
<1>14. CASE Keep
  <2>1. PICK h \in Name : h = Head(loaded).name /\ Want(h) = Head(loaded)
    BY <1>13, <1>14 DEF Keep
  <2>2. agents' = agents /\ loaded' = Tail(loaded) /\ pc' = pc /\ agents[h] = Want(h) /\ Applying
    BY <1>14, <2>1 DEF Keep, roster
  <2>3. Settled(h)'
    BY <1>2, <2>2 DEF Settled
  <2> QED
    BY <1>8, <2>1, <2>2, <2>3 DEF Applying
<1>15. CASE Add
  <2>1. PICK h \in Name : h = Head(loaded).name /\ Want(h) = Head(loaded)
    BY <1>13, <1>15 DEF Add
  <2>2. PICK m : m = Head(loaded)
    OBVIOUS
  <2>3. agents' = [agents EXCEPT ![h] = m] /\ loaded' = Tail(loaded) /\ pc' = "register" /\ Applying
    BY <1>15, <2>1, <2>2 DEF Add
  <2>4. agents'[h] = m /\ \A n \in Name : n # h => agents'[n] = agents[n]
    BY <2>3 DEF TypeOK
  <2>5. Settled(h)'
    BY <1>2, <2>1, <2>2, <2>4 DEF Settled
  <2> QED
    BY <1>8, <2>1, <2>3, <2>4, <2>5
<1>16. CASE Reject
  <2>1. PICK h \in Name : h = Head(loaded).name /\ Want(h) = Head(loaded) /\ Head(loaded) # Absent
    BY <1>13, <1>16 DEF Reject
  <2>2. agents' = agents /\ loaded' = Tail(loaded) /\ pc' = pc /\ agents[h] = Absent /\ Applying
        /\ Head(loaded).needs # Nothing
    BY <1>16, <2>1 DEF Reject, Valid, roster
  <2>3. Settled(h)'
    BY <1>2, <2>1, <2>2 DEF Settled
  <2> QED
    BY <1>8, <2>1, <2>2, <2>3 DEF Applying
<1>17. CASE EndSync
  <2>1. pc = "sync" /\ pc' = "idle" /\ Live \subseteq wanted /\ loaded = <<>> /\ agents' = agents /\ tools' = tools
    BY <1>17 DEF EndSync, roster
  <2>2. tools = Live
    BY <2>1 DEF ToolsFollow
  <2>3. \A i \in DOMAIN loaded : FALSE
    BY <2>1
  <2>4. ASSUME NEW n \in Name PROVE Settled(n)
    <3>1. CASE n \in wanted
      BY <1>5, <2>3, <3>1 DEF Syncing
    <3>2. CASE n \notin wanted
      <4>1. agents[n] = Absent /\ Want(n) = Absent
        BY <1>5, <2>1, <3>2 DEF Syncing, Live
      <4> QED
        BY <4>1 DEF Settled
    <3> QED
      BY <3>1, <3>2
  <2>5. \A n \in Name : agents[n] # Absent => agents[n].needs # Unknown
    BY DEF Built
  <2>6. tools' = Live'
    BY <2>1, <2>2 DEF Live
  <2>7. \A n \in Name : \/ agents'[n] = Want(n)' /\ (agents'[n] # Absent => agents'[n].needs # Unknown)
                        \/ agents'[n] = Absent /\ Want(n)' # Absent /\ Want(n)'.needs # Nothing
    BY <1>2, <2>1, <2>4, <2>5 DEF Settled
  <2>8. InSync'
    BY <2>6, <2>7 DEF InSync
  <2> QED
    BY <2>1, <2>8
<1> QED
  BY <1>10, <1>11, <1>12, <1>14, <1>15, <1>16, <1>17 DEF Sync, Unregister, Register, EndSync

-----------------------------------------------------------------------------
(* The invariant. *)

LEMMA HotStart ==
    ASSUME Init
    PROVE  HotIInv
<1>1. TypeOK
  <2>1. content \in [File -> Content] /\ 0 \in Stamp
    BY Contents DEF Init, Stamp
  <2>2. <<>> \in Seq(Manifest)
    OBVIOUS
  <2> QED
    BY <2>1, <2>2 DEF Init, TypeOK
<1>2. Stamps
  <2>1. \A x \in fingerprint \cup seen : x[2] = 0
    BY DEF Init, NoPrint
  <2>2. edits = 0 /\ \A f \in File : stamp[f] = 0
    BY DEF Init
  <2> QED
    BY <2>1, <2>2 DEF Stamps
<1>3. Built /\ ToolsFollow
  BY DEF Init, Built, ToolsFollow, Live
<1>4. Phases
  <2>1. fingerprint = NoPrint /\ pc = "start"
    BY DEF Init
  <2> QED
    BY <2>1 DEF Phases
<1> QED
  BY <1>1, <1>2, <1>3, <1>4 DEF HotIInv

\* Every step keeps what is promised of the phases of a poll.
LEMMA PhasesStep ==
    ASSUME HotIInv, Next
    PROVE  Phases'
<1>0. TypeOK /\ Stamps /\ Built /\ ToolsFollow /\ Phases
  BY DEF HotIInv
<1>1. ASSUME NEW f \in File, Remove(f) \/ \E c \in Writable : Write(f, c) PROVE Phases'
  <2>1. ~Good'
    BY <1>0, <1>1, EditEndsGood
  <2>2. pc' = pc /\ fingerprint' = fingerprint
    BY <1>1 DEF Remove, Write, Edit, watcher
  <2> QED
    BY <1>0, <2>1, <2>2 DEF Phases
<1>2. CASE StartPoll \/ StartObserver \/ Unchanged \/ \E f \in File : StatFile(f) \/ StatGone(f)
  <2>1. UNCHANGED <<content, stamp, fingerprint, phantom, agents, tools>>
    BY <1>2 DEF StartPoll, StartObserver, Unchanged, StatFile, StatGone, store, watcher, roster, history
  <2>2. \/ UNCHANGED <<pc, todo, loaded, wanted>>
        \/ pc' = "dead"
        \/ pc \in {"idle", "stat"} /\ pc' \in {"idle", "stat"}
        \/ pc = "start" /\ pc' = "stat"
    BY <1>2 DEF StartPoll, StartObserver, Unchanged, StatFile, StatGone, watcher
  <2> QED
    BY <1>0, <2>1, <2>2, PhasesQuiet
<1>3. CASE Changed
  BY <1>0, <1>3, ChangedPhases
<1>4. CASE ReadNameless
  <2>1. UNCHANGED <<content, stamp, fingerprint, phantom, agents, tools>> /\ pc' = "dead"
    BY <1>4 DEF ReadNameless, store, roster, history
  <2> QED
    BY <1>0, <2>1, PhasesQuiet
<1>5. CASE ReadManifest \/ SkipFile \/ EndLoad
  <2>1. UNCHANGED <<content, stamp, fingerprint, phantom>> /\ pc = "load" /\ pc' \in {"load", "sync"}
    BY <1>5 DEF ReadManifest, SkipFile, EndLoad, store, history
  <2>2. Good' = Good
    BY <2>1 DEF Good, Snapshot, Present
  <2>3. ASSUME Good PROVE (pc' = "load" => Reading') /\ (pc' = "sync" => Syncing')
    <3>1. Reading
      BY <1>0, <2>1, <2>3 DEF Phases
    <3>2. ReadManifest \/ SkipFile => Reading' /\ pc' = "load"
      BY <1>0, <2>1, <3>1, ReadPhases, SkipPhases DEF ReadManifest, SkipFile
    <3>3. EndLoad => Syncing' /\ pc' = "sync"
      BY <1>0, <3>1, EndLoadPhases DEF EndLoad
    <3> QED
      BY <1>5, <3>2, <3>3
  <2> QED
    BY <2>1, <2>2, <2>3 DEF Phases
<1>6. CASE Sync
  BY <1>0, <1>6, SyncPhases
<1> QED
  BY <1>1, <1>2, <1>3, <1>4, <1>5, <1>6 DEF Next, Watch, Stat, Load

LEMMA HotStep ==
    ASSUME HotIInv, [Next]_vars
    PROVE  HotIInv'
<1>1. CASE Next
  <2>1. TypeOK'
    BY <1>1, EditTypes, PollTypes, LoadTypes, SyncTypes DEF HotIInv, Next, Watch
  <2>2. Stamps' /\ Built' /\ ToolsFollow'
    BY <1>1, StampsStep, BuiltStep, ToolsStep DEF HotIInv
  <2>3. Phases'
    BY <1>1, PhasesStep
  <2> QED
    BY <2>1, <2>2, <2>3 DEF HotIInv
<1>2. CASE UNCHANGED vars
  <2>1. /\ UNCHANGED <<content, stamp, edits, driver, pc, todo, seen, fingerprint, loaded, wanted, target>>
        /\ UNCHANGED <<observing, event, agents, tools, phantom, unheard>>
    BY <1>2 DEF vars, store, watcher, roster, history
  <2>2. TypeOK'
    BY <2>1 DEF HotIInv, TypeOK
  <2>3. Stamps' /\ Built'
    BY <2>1 DEF HotIInv, Stamps, Built
  <2>4. ToolsFollow'
    BY <2>1 DEF HotIInv, ToolsFollow, Live
  <2>5. Phases'
    BY <2>1, PhasesQuiet DEF HotIInv
  <2> QED
    BY <2>2, <2>3, <2>4, <2>5 DEF HotIInv
<1> QED
  BY <1>1, <1>2

\* The invariant that carries the rest: between two edits each phase of a poll
\* (fingerprint, load, sync) has done its part for the files it is through with.
THEOREM HotIInvThm == Spec => []HotIInv
<1>1. Init => HotIInv
  BY HotStart
<1>2. HotIInv /\ [Next]_vars => HotIInv'
  BY HotStep
<1> QED
  BY <1>1, <1>2, PTL DEF Spec

\* The types of the watcher and the runtime; an agent is never one whose dispatch
\* tool could not be named.
THEOREM TypesThm == Spec => []TypeOK
<1>1. HotIInv => TypeOK
  BY DEF HotIInv
<1> QED
  BY <1>1, HotIInvThm, PTL

\* poll leaves the roster as the directory has it, whatever edits came between
\* its statements, once the directory looks again as it did to its fingerprint.
THEOREM UpToDateThm == Spec => []UpToDate
<1>1. HotIInv => UpToDate
  BY DEF HotIInv, Phases, Good, UpToDate
<1> QED
  BY <1>1, HotIInvThm, PTL

\* sync drops an agent only for a manifest that is gone or changed.
THEOREM NoSpuriousDropThm == Spec => NoSpuriousDrop
<1> DEFINE A == \A n \in Name :
                   agents[n] # Absent /\ agents'[n] = Absent /\ fingerprint = Snapshot /\ ~phantom
                       => Want(n) # agents[n]
<1>1. HotIInv /\ [Next]_vars => [A]_vars
  <2> SUFFICES ASSUME HotIInv, Next, NEW n \in Name, agents[n] # Absent, agents'[n] = Absent, Good
               PROVE  Want(n) # agents[n]
    BY DEF Good
  <2>1. TypeOK /\ Phases
    BY DEF HotIInv
  <2>2. CASE Sync
    <3>1. pc \in {"sync", "unregister", "register"}
      BY <2>2 DEF Sync, Retire, Unregister, Keep, Replace, Add, Register, Reject, EndSync, Applying
    <3>2. Syncing
      BY <2>1, <3>1 DEF Phases
    <3>3. ASSUME Retire(n) PROVE Want(n) # agents[n]
      BY <3>2, <3>3 DEF Syncing, Retire
    <3>4. ASSUME NEW k \in Name, k # n, Drop(k) PROVE FALSE
      BY <2>1, <3>4 DEF Drop, TypeOK
    <3>5. CASE Replace
      <4>1. PICK m : m = Head(loaded)
        OBVIOUS
      <4>2. /\ m \in Manifest /\ m.name \in Name /\ Drop(m.name) /\ agents[m.name] # m
            /\ 1 \in DOMAIN loaded /\ loaded[1] = m
        BY <2>1, <3>5, <4>1, HeadTail DEF Replace, Applying
      <4>3. Want(loaded[1].name) = loaded[1]
        BY <3>2, <4>2 DEF Syncing
      <4>4. n = m.name
        BY <3>4, <4>2
      <4> QED
        BY <4>2, <4>3, <4>4
    <3>6. CASE Add
      <4>1. PICK m \in Manifest : m = Head(loaded) /\ m.name \in Name
        BY <2>1, <3>6, HeadTail DEF Add, Applying
      <4>2. agents' = [agents EXCEPT ![m.name] = m]
        BY <3>6, <4>1 DEF Add
      <4> QED
        BY <2>1, <4>1, <4>2, Contents DEF TypeOK
    <3>7. CASE Unregister \/ Keep \/ Register \/ Reject \/ EndSync
      BY <3>7 DEF Unregister, Keep, Register, Reject, EndSync, roster
    <3> QED
      BY <2>2, <3>3, <3>4, <3>5, <3>6, <3>7 DEF Sync, Retire
  <2>3. CASE ~Sync
    <3>1. agents' = agents
      BY <2>3 DEF Next, Remove, Write, Edit, Watch, StartPoll, StartObserver, Stat, StatFile, StatGone, Unchanged,
         Changed, Load, ReadManifest, SkipFile, ReadNameless, EndLoad, roster
    <3> QED
      BY <3>1
  <2> QED
    BY <2>2, <2>3
<1>2. [][A]_vars => NoSpuriousDrop
  BY PTL DEF NoSpuriousDrop
<1> QED
  BY <1>1, <1>2, HotIInvThm, PTL DEF Spec
=============================================================================
