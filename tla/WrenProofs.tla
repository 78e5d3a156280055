------------------------------ MODULE WrenProofs ------------------------------
(***************************************************************************)
(* Proofs about Wren, for any reminders, chats, sessions and number of     *)
(* crashes: what is left in the files when processes save over each other  *)
(* and the heartbeat ends anywhere (WrenHeartbeat), and what a kill holds  *)
(* against in config.yaml (WrenConfig).                                    *)
(***************************************************************************)
EXTENDS WrenHeartbeat, WrenConfig, FiniteSetTheorems, WellFoundedInduction, TLAPS

-----------------------------------------------------------------------------
(* Ids. *)

\* A bounded set of numbers has a greatest.
LEMMA MaxBounded ==
    ASSUME NEW b \in Nat, NEW S \in SUBSET (0 .. b), S # {}
    PROVE  Max(S) \in S /\ \A x \in S : x <= Max(S)
<1> DEFINE T == {b - x : x \in S}
<1>1. T \subseteq Nat /\ T # {}
  <2>1. \A x \in S : b - x \in Nat
    OBVIOUS
  <2>2. PICK x \in S : TRUE
    OBVIOUS
  <2>3. b - x \in T
    OBVIOUS
  <2> QED
    BY <2>1, <2>3
<1> DEFINE Below == {ss \in Nat \X Nat : ss[1] < ss[2]}
<1>2. IsWellFoundedOn(Below, Nat)
  BY NatLessThanWellFounded DEF OpToRel
<1>a. PICK y \in T : \A z \in T : ~ (<<z, y>> \in Below)
  BY <1>1, <1>2, WFMin
<1>3. \A z \in T : ~(z < y)
  BY <1>1, <1>a
<1>4. PICK m \in S : y = b - m
  OBVIOUS
<1>5. \A x \in S : m >= x
  <2> TAKE x \in S
  <2>1. b - x \in T /\ x \in 0 .. b /\ m \in 0 .. b
    OBVIOUS
  <2> QED
    BY <1>3, <1>4, <2>1
<1>6. Max(S) \in S /\ \A x \in S : Max(S) >= x
  BY <1>4, <1>5, Zenon DEF Max
<1> QED
  BY <1>6

\* NextId is a number no item has, and one more than the greatest at most.
LEMMA NextIdFree ==
    ASSUME NEW items, NEW b \in Nat, \A i \in items : i.id \in 1 .. b
    PROVE  NextId(items) \in 1 .. (b + 1) /\ \A i \in items : i.id < NextId(items)
<1> DEFINE S == {i.id : i \in items}
<1>1. CASE items = {}
  BY <1>1 DEF NextId
<1>2. CASE items # {}
  <2>1. S \in SUBSET (0 .. b) /\ S # {} /\ S \subseteq 1 .. b
    BY <1>2
  <2>2. Max(S) \in S /\ \A x \in S : x <= Max(S)
    BY <2>1, MaxBounded
  <2>3. NextId(items) = Max(S) + 1
    BY <1>2 DEF NextId
  <2>4. Max(S) \in 1 .. b
    BY <2>1, <2>2
  <2>5. \A i \in items : i.id \in S
    OBVIOUS
  <2> HIDE DEF S
  <2>6. \A i \in items : i.id <= Max(S)
    BY <2>2, <2>5
  <2> QED
    BY <2>3, <2>4, <2>6
<1> QED
  BY <1>1, <1>2

-----------------------------------------------------------------------------
(* The inductive invariant. *)

Reminder == [id : Id, text : Text, due : DueKind, done : BOOLEAN]
Slip     == [id : Nat \ {0}, text : Text, dismissed : BOOLEAN]

OneEach(items) == \A r, s \in items : r.id = s.id => r = s

\* The reminders on file and in the copies of the chats.
Filed == reminders \cup UNION {copy[p] : p \in Chat}

\* Every id was given by NextId, so there are no more of them than texts.
RemindersOK ==
    /\ added \subseteq Text /\ used \subseteq 1 .. Cardinality(added)
    /\ copy \in [Process -> SUBSET (Reminder \cup Slip)]
    /\ Filed \subseteq Reminder /\ \A r \in Filed : r.id \in used
    /\ OneEach(reminders) /\ \A p \in Chat : OneEach(copy[p])

\* A copy of the inbox that is not stale is the inbox.
Slips == inbox \cup copy[HB] \cup copy[CLI]
InboxOK ==
    /\ Slips \subseteq Slip
    /\ OneEach(inbox) /\ OneEach(copy[HB]) /\ OneEach(copy[CLI])
    /\ \E b \in Nat : \A n \in Slips : n.id <= b
    /\ holds \subseteq Process /\ stale \subseteq holds
    /\ \A p \in {HB, CLI} : p \in holds \ stale => copy[p] = inbox

\* What the heartbeat has in memory and on file: what it found is told, or its
\* notice is pending, and then it is not on record.
Pending(i) == \E n \in notices : n.id = i
Untold(i)  == Pending(i) \/ i \notin surfaced \cup saved
MemoryOK ==
    /\ surfaced \subseteq used /\ saved \subseteq used
    /\ notices \subseteq [id : surfaced \ saved, text : Text] /\ OneEach(notices)
    /\ hb \in {"down", "asleep", "notify"} /\ (hb # "notify" => notices = {})
    /\ IF hb = "down" THEN surfaced = {} ELSE saved \subseteq surfaced
    /\ crashes \in 0 .. MaxCrashes /\ sent \in [Id -> Nat]
    /\ \A i \in Id : sent[i] <= crashes + (IF Untold(i) THEN 0 ELSE 1)
    /\ \A i \in surfaced \cup saved : sent[i] > 0 \/ Pending(i)

\* An id that was given once stands for one text.
TextsOK ==
    /\ \A r, s \in Filed : r.id = s.id /\ r.id \notin twice => r.text = s.text
    /\ \A r \in Filed, n \in notices : r.id = n.id /\ r.id \notin twice => r.text = n.text
    /\ \A r \in Filed : r.id \in (saved \cup surfaced) \ twice => r.text \in told \/ Pending(r.id)

FlagsOK == due \in BOOLEAN /\ savedDue \in BOOLEAN /\ paused \in BOOLEAN

NoticesIInv == RemindersOK /\ InboxOK /\ MemoryOK /\ TextsOK /\ FlagsOK

\* The heartbeat and the inbox command are no chats.
LEMMA Processes ==
    /\ HB \in Process /\ CLI \in Process /\ HB # CLI /\ HB \notin Chat /\ CLI \notin Chat
    /\ Chat \subseteq Process
BY HeartbeatAssumption DEF Process, HB, CLI

\* There are ids for all the texts.
LEMMA IdsSuffice ==
    ASSUME NEW S \in SUBSET Text
    PROVE  /\ IsFiniteSet(S) /\ Cardinality(S) \in Nat /\ 1 .. Cardinality(S) \subseteq Id
           /\ Cardinality(Text) \in Nat
<1>1. IsFiniteSet(S) /\ Cardinality(S) <= Cardinality(Text)
  BY HeartbeatAssumption, FS_Subset
<1>2. Cardinality(S) \in Nat /\ Cardinality(Text) \in Nat
  BY <1>1, HeartbeatAssumption, FS_CardinalityType
<1> QED
  BY <1>1, <1>2 DEF Id

\* Steps that leave a group of variables alone keep what is said of it.
LEMMA RemindersQuiet ==
    ASSUME RemindersOK, UNCHANGED <<reminders, added, used>>, copy' \in [Process -> SUBSET (Reminder \cup Slip)],
           \A p \in Chat : copy'[p] = copy[p]
    PROVE  RemindersOK' /\ Filed' = Filed
<1>1. Filed' = Filed
  BY DEF Filed
<1> QED
  BY <1>1 DEF RemindersOK, OneEach

\* Who rewrites the inbox stays who it was.
LEMMA InboxQuiet ==
    ASSUME InboxOK, inbox' = inbox, copy'[HB] = copy[HB], copy'[CLI] = copy[CLI],
           holds' \subseteq Process, stale' \subseteq holds',
           \A p \in {HB, CLI} : (p \in holds' <=> p \in holds) /\ (p \in stale' <=> p \in stale)
    PROVE  InboxOK'
<1>1. Slips' = Slips
  BY DEF Slips
<1> QED
  BY <1>1 DEF InboxOK, OneEach

\* The heartbeat's file and its copy stay.
LEMMA MemoryQuiet ==
    ASSUME MemoryOK, UNCHANGED <<surfaced, saved, notices, hb, crashes, sent>>, used \subseteq used'
    PROVE  MemoryOK'
<1>1. \A i \in Id : (Untold(i)' <=> Untold(i)) /\ (Pending(i)' <=> Pending(i))
  BY DEF Untold, Pending
<1>2. \A i \in Id : sent'[i] <= crashes' + (IF Untold(i)' THEN 0 ELSE 1)
  BY <1>1 DEF MemoryOK
<1> QED
  BY <1>2 DEF MemoryOK, OneEach, Pending

\* The rows that are filed have the texts they had.
LEMMA TextsQuiet ==
    ASSUME TextsOK, UNCHANGED <<surfaced, saved, notices, told>>, twice \subseteq twice',
           \A r \in Filed' : \E s \in Filed : s.id = r.id /\ s.text = r.text
    PROVE  TextsOK'
<1>1. \A r, s \in Filed' : r.id = s.id /\ r.id \notin twice' => r.text = s.text
  BY DEF TextsOK
<1>2. \A r \in Filed', n \in notices' : r.id = n.id /\ r.id \notin twice' => r.text = n.text
  BY DEF TextsOK
<1>3. \A r \in Filed' : r.id \in (saved' \cup surfaced') \ twice' => r.text \in told' \/ Pending(r.id)'
  BY DEF TextsOK, Pending
<1> QED
  BY <1>1, <1>2, <1>3 DEF TextsOK

-----------------------------------------------------------------------------
(* The chats. *)

\* A chat that loads, saves or lets go: the inbox is not its business.
LEMMA ChatFile ==
    ASSUME RemindersOK, InboxOK, NEW p \in Chat, NEW L \in SUBSET Reminder,
           copy' = [copy EXCEPT ![p] = L], inbox' = inbox,
           holds' \in {holds \cup {p}, holds \ {p}}, stale' \subseteq holds',
           stale' \in {stale, stale \ {p}, (stale \cup (Chat \cap holds)) \ {p}}
    PROVE  /\ copy' \in [Process -> SUBSET (Reminder \cup Slip)]
           /\ copy'[p] = L /\ \A q \in Process \ {p} : copy'[q] = copy[q]
           /\ InboxOK'
<1>1. /\ copy' \in [Process -> SUBSET (Reminder \cup Slip)]
      /\ copy'[p] = L /\ \A q \in Process \ {p} : copy'[q] = copy[q]
  BY Processes DEF RemindersOK
<1>2. \A q \in {HB, CLI} : q # p /\ q \notin Chat
  BY Processes
<1>3. \A q \in {HB, CLI} : (q \in holds' <=> q \in holds) /\ (q \in stale' <=> q \in stale)
  BY <1>2
<1>4. copy'[HB] = copy[HB] /\ copy'[CLI] = copy[CLI]
  BY <1>1, <1>2, Processes
<1>5. holds' \subseteq Process
  BY Processes DEF InboxOK
<1> QED
  BY <1>1, <1>3, <1>4, <1>5, InboxQuiet

\* Looking at the reminders, completing and deleting one: every reminder was
\* there before, under its id.
LEMMA ChatKeeps ==
    ASSUME NoticesIInv, NEW p \in Chat,
           \/ LoadReminders(p) \/ OnlyLook(p)
           \/ \E r \in copy[p] : CompleteReminder(p, r) \/ DeleteReminder(p, r)
    PROVE  NoticesIInv'
<1>1. UNCHANGED <<inbox, saved, savedDue, ripe, hbVars, history>>
  BY DEF LoadReminders, OnlyLook, CompleteReminder, DeleteReminder, files
<1>2. stale \subseteq holds /\ reminders \subseteq Reminder /\ copy[p] \subseteq Reminder
  BY DEF NoticesIInv, InboxOK, RemindersOK, Filed
<1>3. PICK L \in SUBSET Reminder :
         /\ copy' = [copy EXCEPT ![p] = L] /\ OneEach(L) /\ L \subseteq Filed
         /\ holds' \in {holds \cup {p}, holds \ {p}} /\ stale' \subseteq holds'
         /\ stale' \in {stale, stale \ {p}, (stale \cup (Chat \cap holds)) \ {p}}
  <2>1. CASE LoadReminders(p)
    <3>1. copy' = [copy EXCEPT ![p] = reminders] /\ holds' = holds \cup {p} /\ stale' = stale
      BY <2>1 DEF LoadReminders, Load
    <3>2. OneEach(reminders) /\ reminders \subseteq Filed
      BY DEF NoticesIInv, RemindersOK, Filed
    <3> QED
      BY <1>2, <3>1, <3>2
  <2>2. CASE OnlyLook(p) \/ \E r \in copy[p] : CompleteReminder(p, r) \/ DeleteReminder(p, r)
    <3>1. /\ copy' = [copy EXCEPT ![p] = {}] /\ holds' = holds \ {p}
          /\ stale' \in {stale \ {p}, (stale \cup (Chat \cap holds)) \ {p}}
      BY <2>2 DEF OnlyLook, CompleteReminder, DeleteReminder, Save, LetGo
    <3>2. OneEach({}) /\ {} \subseteq Filed /\ {} \in SUBSET Reminder
      BY DEF OneEach
    <3> QED
      BY <1>2, <3>1, <3>2
  <2> QED
    BY <2>1, <2>2
<1>4. /\ copy' \in [Process -> SUBSET (Reminder \cup Slip)]
      /\ copy'[p] = L /\ \A q \in Process \ {p} : copy'[q] = copy[q]
      /\ InboxOK'
  BY <1>1, <1>3, ChatFile DEF NoticesIInv
<1>5. /\ reminders' \subseteq Reminder /\ OneEach(reminders)'
      /\ \A r \in reminders' : \E s \in Filed : s.id = r.id /\ s.text = r.text
  <2>1. OneEach(copy[p]) /\ copy[p] \subseteq Filed /\ OneEach(reminders) /\ reminders \subseteq Filed
    BY DEF NoticesIInv, RemindersOK, Filed
  <2>2. CASE reminders' = reminders
    BY <1>2, <2>1, <2>2 DEF OneEach
  <2>3. ASSUME NEW r \in copy[p], reminders' = copy[p] \ {r} PROVE <1>5!:
    BY <1>2, <2>1, <2>3 DEF OneEach
  <2>4. ASSUME NEW r \in copy[p], reminders' = (copy[p] \ {r}) \cup {[r EXCEPT !.done = TRUE]} PROVE <1>5!:
    <3>1. r \in Reminder
      BY <1>2
    <3>2. PICK d : /\ reminders' = (copy[p] \ {r}) \cup {d}
                   /\ d \in Reminder /\ d.id = r.id /\ d.text = r.text
      <4> DEFINE e == [r EXCEPT !.done = TRUE]
      <4>1. e \in Reminder /\ e.id = r.id /\ e.text = r.text
        BY <3>1 DEF Reminder
      <4> QED
        BY <2>4, <4>1
    <3> QED
      BY <1>2, <2>1, <3>2 DEF OneEach
  <2> QED
    BY <2>2, <2>3, <2>4 DEF LoadReminders, OnlyLook, CompleteReminder, DeleteReminder, files
<1>6. \A r \in Filed' : r \in Reminder /\ \E s \in Filed : s.id = r.id /\ s.text = r.text
  <2>1. \A q \in Chat : copy'[q] \subseteq Filed
    BY <1>3, <1>4, Processes DEF Filed
  <2>2. Filed \subseteq Reminder
    BY DEF NoticesIInv, RemindersOK
  <2> QED
    BY <1>5, <2>1, <2>2 DEF Filed
<1>7. RemindersOK'
  <2>1. \A q \in Chat : OneEach(copy'[q])
    BY <1>3, <1>4, Processes DEF NoticesIInv, RemindersOK
  <2> QED
    BY <1>1, <1>4, <1>5, <1>6, <2>1 DEF NoticesIInv, RemindersOK, OneEach, history
<1>8. MemoryOK' /\ TextsOK' /\ FlagsOK'
  BY <1>1, <1>6, MemoryQuiet, TextsQuiet DEF NoticesIInv, FlagsOK, hbVars, history
<1> QED
  BY <1>4, <1>7, <1>8 DEF NoticesIInv

\* A new reminder has an id no other on its list has; one that was given before
\* is among twice from now on.
LEMMA Adding ==
    ASSUME NoticesIInv, NEW p \in Chat, NEW t \in Text, NEW d \in DueKind, AddReminder(p, t, d)
    PROVE  NoticesIInv'
<1> DEFINE new == NewReminder(p, t, d)
<1>1. /\ t \notin added /\ added' = added \cup {t} /\ reminders' = copy[p] \cup {new}
      /\ used' = used \cup {new.id} /\ twice' = twice \cup ({new.id} \cap used)
      /\ copy' = [copy EXCEPT ![p] = {}] /\ holds' = holds \ {p}
      /\ stale' = (stale \cup (Chat \cap holds)) \ {p}
      /\ UNCHANGED <<inbox, saved, savedDue, ripe, hbVars, crashes, told, sent, clashed>>
  BY DEF AddReminder, Save, LetGo
<1>2. /\ added \subseteq Text /\ used \subseteq 1 .. Cardinality(added) /\ copy[p] \subseteq Filed
      /\ OneEach(copy[p]) /\ Filed \subseteq Reminder /\ (\A r \in Filed : r.id \in used)
      /\ stale \subseteq holds
  BY DEF NoticesIInv, RemindersOK, InboxOK, Filed
<1>3. /\ new.id \in 1 .. (Cardinality(added) + 1) /\ \A r \in copy[p] : r.id < new.id /\ r.id \in Nat
      /\ Cardinality(added') = Cardinality(added) + 1
  <2>1. Cardinality(added) \in Nat /\ IsFiniteSet(added)
    BY <1>2, IdsSuffice
  <2>2. \A r \in copy[p] : r.id \in 1 .. Cardinality(added)
    BY <1>2
  <2>3. new.id = NextId(copy[p])
    BY DEF NewReminder
  <2>4. Cardinality(added') = Cardinality(added) + 1
    BY <1>1, <2>1, FS_AddElement
  <2> QED
    BY <2>1, <2>2, <2>3, <2>4, NextIdFree
<1>4. new \in Reminder /\ new.text = t /\ used' \subseteq 1 .. Cardinality(added') /\ added' \subseteq Text
  <2>1. added' \subseteq Text
    BY <1>1, <1>2
  <2>2. 1 .. Cardinality(added') \subseteq Id /\ Cardinality(added) \in Nat
    BY <1>2, <2>1, IdsSuffice
  <2>3. new.id \in Id
    BY <1>3, <2>2
  <2>4. new \in Reminder /\ new.text = t
    BY <2>3 DEF NewReminder, Reminder
  <2>5. used' \subseteq 1 .. Cardinality(added')
    <3> DEFINE c == Cardinality(added)
               k == new.id
    <3>1. c \in Nat /\ used \subseteq 1 .. c /\ k \in 1 .. (c + 1) /\ used' = used \cup {k}
      BY <1>1, <1>2, <1>3, <2>2
    <3> HIDE DEF c, k
    <3>2. used' \subseteq 1 .. (c + 1)
      BY <3>1
    <3>3. Cardinality(added') = c + 1
      BY <1>3 DEF c
    <3> QED
      BY <3>2, <3>3
  <2> QED
    BY <2>1, <2>4, <2>5
<1> HIDE DEF new
<1>5. /\ copy' \in [Process -> SUBSET (Reminder \cup Slip)]
      /\ copy'[p] = {} /\ (\A q \in Process \ {p} : copy'[q] = copy[q])
      /\ InboxOK'
  <2>1. stale' \subseteq holds'
    BY <1>1, <1>2
  <2> QED
    BY <1>1, <2>1, ChatFile DEF NoticesIInv
<1>6. Filed' \subseteq Filed \cup {new}
  BY <1>1, <1>2, <1>5, Processes DEF Filed
<1>7. RemindersOK'
  <2>1. OneEach(reminders)'
    BY <1>1, <1>2, <1>3 DEF OneEach
  <2>2. \A q \in Chat : OneEach(copy'[q])
    BY <1>5, Processes DEF NoticesIInv, RemindersOK, OneEach
  <2>3. Filed' \subseteq Reminder /\ \A r \in Filed' : r.id \in used'
    BY <1>1, <1>2, <1>4, <1>6
  <2> QED
    BY <1>4, <1>5, <2>1, <2>2, <2>3 DEF RemindersOK, OneEach
<1>8. TextsOK'
  <2>1. new.id \notin twice' => /\ new.id \notin used /\ new.id \notin saved \cup surfaced
                                /\ (\A r \in Filed : r.id # new.id)
                                /\ (\A n \in notices : n.id # new.id)
    BY <1>1, <1>2 DEF NoticesIInv, MemoryOK
  <2>2. UNCHANGED <<saved, surfaced, notices, told>> /\ twice \subseteq twice'
    BY <1>1 DEF hbVars
  <2>3. \A r, s \in Filed' : r.id = s.id /\ r.id \notin twice' => r.text = s.text
    BY <1>6, <2>1, <2>2 DEF NoticesIInv, TextsOK
  <2>4. \A r \in Filed', n \in notices' : r.id = n.id /\ r.id \notin twice' => r.text = n.text
    BY <1>6, <2>1, <2>2 DEF NoticesIInv, TextsOK
  <2>5. \A r \in Filed' : r.id \in (saved' \cup surfaced') \ twice' => r.text \in told' \/ Pending(r.id)'
    BY <1>6, <2>1, <2>2 DEF NoticesIInv, TextsOK, Pending
  <2> QED
    BY <2>3, <2>4, <2>5 DEF TextsOK
<1>9. MemoryOK' /\ FlagsOK'
  BY <1>1, MemoryQuiet DEF NoticesIInv, FlagsOK, hbVars
<1> QED
  BY <1>5, <1>7, <1>8, <1>9 DEF NoticesIInv

-----------------------------------------------------------------------------
(* The inbox. *)

\* A process at the inbox takes a copy, drops it or saves it; whoever else holds
\* one is behind then.
LEMMA InboxFile ==
    ASSUME NoticesIInv, NEW p \in {HB, CLI}, NEW L, L \subseteq Slip, copy' = [copy EXCEPT ![p] = L],
           reminders' = reminders, added' = added, used' = used
    PROVE  /\ RemindersOK' /\ Filed' = Filed
           /\ copy'[p] = L /\ \A q \in Process \ {p} : copy'[q] = copy[q]
<1>1. /\ copy' \in [Process -> SUBSET (Reminder \cup Slip)] /\ copy'[p] = L
      /\ \A q \in Process \ {p} : copy'[q] = copy[q]
  BY Processes DEF NoticesIInv, RemindersOK
<1>2. \A q \in Chat : copy'[q] = copy[q]
  BY <1>1, Processes
<1> QED
  BY <1>1, <1>2, RemindersQuiet DEF NoticesIInv

\* A process loads the inbox: its copy is the file.
LEMMA InboxLoads ==
    ASSUME NoticesIInv, NEW p \in {HB, CLI}, Load(p, inbox),
           UNCHANGED <<files, ripe, hbVars, history>>
    PROVE  NoticesIInv'
<1>1. /\ p \notin holds /\ holds' = holds \cup {p} /\ copy' = [copy EXCEPT ![p] = inbox] /\ stale' = stale
      /\ reminders' = reminders /\ added' = added /\ used' = used /\ inbox' = inbox
  BY DEF Load, files, history
<1>2. PICK L \in SUBSET Slip : L = inbox
  BY DEF NoticesIInv, InboxOK, Slips
<1>3. /\ RemindersOK' /\ Filed' = Filed
      /\ copy'[p] = inbox /\ \A q \in Process \ {p} : copy'[q] = copy[q]
  <2>1. copy' = [copy EXCEPT ![p] = L] /\ L \subseteq Slip
    BY <1>1, <1>2
  <2>2. reminders' = reminders /\ added' = added /\ used' = used /\ p \in {HB, CLI}
    BY <1>1
  <2>3. /\ RemindersOK' /\ Filed' = Filed
        /\ copy'[p] = L /\ \A q \in Process \ {p} : copy'[q] = copy[q]
    BY ONLY NoticesIInv, <2>1, <2>2, InboxFile, Zenon
  <2> QED
    BY <1>2, <2>3
<1>4. InboxOK'
  <2>1. Slips' \subseteq Slips
    BY <1>1, <1>3, Processes DEF Slips
  <2>2. OneEach(inbox') /\ OneEach(copy'[HB]) /\ OneEach(copy'[CLI])
    BY <1>1, <1>3, Processes DEF NoticesIInv, InboxOK
  <2>3. \E b \in Nat : \A n \in Slips' : n.id <= b
    BY <2>1 DEF NoticesIInv, InboxOK
  <2>4. \A q \in {HB, CLI} : q \in holds' \ stale' => copy'[q] = inbox'
    BY <1>1, <1>3, Processes DEF NoticesIInv, InboxOK
  <2>5. holds' \subseteq Process /\ stale' \subseteq holds' /\ Slips' \subseteq Slip
    BY <1>1, <2>1, Processes DEF NoticesIInv, InboxOK
  <2> QED
    BY <2>2, <2>3, <2>4, <2>5 DEF InboxOK, OneEach
<1>5. MemoryOK' /\ TextsOK' /\ FlagsOK'
  <2>1. UNCHANGED <<surfaced, saved, notices, hb, crashes, sent, used, told, twice, due, savedDue, paused>>
    BY DEF files, hbVars, history
  <2> QED
    BY <1>3, <2>1, MemoryQuiet, TextsQuiet DEF NoticesIInv, FlagsOK
<1> QED
  BY <1>3, <1>4, <1>5 DEF NoticesIInv

\* What is saved over the inbox: OneEach of ids, bounded.
LEMMA InboxSaves ==
    ASSUME NoticesIInv, NEW p \in {HB, CLI}, NEW q \in {HB, CLI}, p # q, Save(p, {q}),
           inbox' \subseteq Slip, OneEach(inbox)', \E b \in Nat : \A n \in inbox' : n.id <= b
    PROVE  InboxOK' /\ copy' = [copy EXCEPT ![p] = {}] /\ p \in holds
<1>1. /\ p \in holds /\ holds' = holds \ {p} /\ copy' = [copy EXCEPT ![p] = {}]
      /\ stale' = (stale \cup ({q} \cap holds)) \ {p}
  BY DEF Save, LetGo
<1>2. copy'[p] = {} /\ copy'[q] = copy[q]
  BY <1>1, Processes DEF NoticesIInv, RemindersOK
<1>3. {HB, CLI} = {p, q}
  OBVIOUS
<1>4. Slips' \subseteq inbox' \cup Slips
  BY <1>2, <1>3 DEF Slips
<1>5. \E b \in Nat : \A n \in Slips' : n.id <= b
  <2>1. PICK b1 \in Nat : \A n \in Slips : n.id <= b1
    BY DEF NoticesIInv, InboxOK
  <2>2. PICK b2 \in Nat : \A n \in inbox' : n.id <= b2
    OBVIOUS
  <2>3. \A n \in Slips' : n.id \in Nat
    BY <1>4 DEF Slip, NoticesIInv, InboxOK
  <2>4. \A n \in Slips' : n.id <= b1 + b2
    BY <1>4, <2>1, <2>2, <2>3
  <2> QED
    BY <2>4
<1>6. OneEach(copy'[HB]) /\ OneEach(copy'[CLI])
  BY <1>2, <1>3 DEF OneEach, NoticesIInv, InboxOK
<1>7. \A r \in {HB, CLI} : r \in holds' \ stale' => FALSE
  BY <1>1, <1>3
<1>8. holds' \subseteq Process /\ stale' \subseteq holds' /\ Slips' \subseteq Slip
  BY <1>1, <1>3, <1>4 DEF NoticesIInv, InboxOK
<1> QED
  BY <1>1, <1>5, <1>6, <1>7, <1>8 DEF InboxOK, OneEach

\* Dismissing changes no id.
LEMMA Dismissing ==
    ASSUME NoticesIInv, NEW ids, Dismiss(ids)
    PROVE  NoticesIInv'
<1> DEFINE new(n) == [n EXCEPT !.dismissed = @ \/ n.id \in ids]
<1>1. /\ Save(CLI, {HB}) /\ inbox' = {new(n) : n \in copy[CLI]}
      /\ UNCHANGED <<reminders, saved, savedDue, ripe, hbVars, crashes, added, used, twice, told, sent>>
  BY DEF Dismiss
<1>2. copy[CLI] \subseteq Slip /\ OneEach(copy[CLI]) /\ \E b \in Nat : \A n \in copy[CLI] : n.id <= b
  BY DEF NoticesIInv, InboxOK, Slips
<1>3. \A n \in copy[CLI] : new(n) \in Slip /\ new(n).id = n.id
  BY <1>2 DEF Slip
<1> HIDE DEF new
<1>4. inbox' \subseteq Slip /\ OneEach(inbox)' /\ \E b \in Nat : \A n \in inbox' : n.id <= b
  BY <1>1, <1>2, <1>3 DEF OneEach
<1>5. InboxOK' /\ copy' = [copy EXCEPT ![CLI] = {}]
  BY <1>1, <1>4, Processes, InboxSaves
<1>6. RemindersOK' /\ Filed' = Filed
  <2>1. PICK L : L = {}
    OBVIOUS
  <2>2. reminders' = reminders /\ added' = added /\ used' = used
    BY <1>1
  <2>3. L \subseteq Slip /\ CLI \in {HB, CLI} /\ copy' = [copy EXCEPT ![CLI] = L]
    BY <1>5, <2>1
  <2> QED
    BY ONLY NoticesIInv, <2>2, <2>3, InboxFile, Zenon
<1>7. MemoryOK' /\ TextsOK' /\ FlagsOK'
  BY <1>1, <1>6, MemoryQuiet, TextsQuiet DEF NoticesIInv, FlagsOK, hbVars
<1> QED
  BY <1>5, <1>6, <1>7 DEF NoticesIInv

\* A notice goes into the inbox under an id that is not there; it was pending, and
\* is told now.
LEMMA Notifying ==
    ASSUME NoticesIInv, NEW n \in notices, Notify(n)
    PROVE  NoticesIInv'
<1> DEFINE new == [id |-> NextId(copy[HB]), text |-> n.text, dismissed |-> FALSE]
<1>1. /\ hb = "notify" /\ Save(HB, {CLI}) /\ inbox' = copy[HB] \cup {new} /\ notices' = notices \ {n}
      /\ told' = told \cup {n.text} /\ sent' = [sent EXCEPT ![n.id] = @ + 1]
      /\ UNCHANGED <<reminders, saved, savedDue, hb, paused, surfaced, due, crashes, added, used, twice>>
  BY DEF Notify
<1>2. n.id \in surfaced \ saved /\ n.text \in Text /\ n.id \in Id
  <2>1. used \subseteq Id
    BY IdsSuffice DEF NoticesIInv, RemindersOK
  <2> QED
    BY <2>1 DEF NoticesIInv, MemoryOK
<1>3. InboxOK' /\ copy' = [copy EXCEPT ![HB] = {}]
  <2>1. copy[HB] \subseteq Slip /\ OneEach(copy[HB])
    BY DEF NoticesIInv, InboxOK, Slips
  <2>2. PICK b \in Nat : \A m \in copy[HB] : m.id \in 1 .. b
    <3>1. PICK b \in Nat : \A m \in Slips : m.id <= b
      BY DEF NoticesIInv, InboxOK
    <3>2. \A m \in copy[HB] : m.id \in Nat \ {0} /\ m.id <= b
      BY <2>1, <3>1 DEF Slip, Slips
    <3> QED
      BY <3>2
  <2>3. NextId(copy[HB]) \in 1 .. (b + 1) /\ \A m \in copy[HB] : m.id < NextId(copy[HB])
    BY <2>2, NextIdFree
  <2>4. new \in Slip /\ new.id \in 1 .. (b + 1) /\ \A m \in copy[HB] : m.id < new.id
    BY <1>2, <2>3 DEF Slip
  <2> HIDE DEF new
  <2>5. inbox' \subseteq Slip
    BY <1>1, <2>1, <2>4
  <2>6. OneEach(inbox)'
    BY <1>1, <2>1, <2>2, <2>4 DEF OneEach
  <2>7. b + 1 \in Nat /\ \A m \in inbox' : m.id <= b + 1
    BY <1>1, <2>2, <2>4
  <2> QED
    BY <1>1, <2>5, <2>6, <2>7, Processes, InboxSaves
<1> HIDE DEF new
<1>4. RemindersOK' /\ Filed' = Filed
  <2>1. PICK L : L = {}
    OBVIOUS
  <2>2. reminders' = reminders /\ added' = added /\ used' = used
    BY <1>1
  <2>3. L \subseteq Slip /\ HB \in {HB, CLI} /\ copy' = [copy EXCEPT ![HB] = L]
    BY <1>3, <2>1
  <2> QED
    BY ONLY NoticesIInv, <2>2, <2>3, InboxFile, Zenon
<1>5. ~Pending(n.id)' /\ \A i : i # n.id => (Pending(i)' <=> Pending(i))
  BY <1>1 DEF Pending, NoticesIInv, MemoryOK, OneEach
<1>6. MemoryOK'
  <2>1. /\ surfaced' = surfaced /\ saved' = saved /\ used' = used /\ crashes' = crashes
        /\ hb' = hb /\ hb = "notify" /\ notices' = notices \ {n}
    BY <1>1
  <2>2. sent' \in [Id -> Nat] /\ sent'[n.id] = sent[n.id] + 1 /\ \A i \in Id \ {n.id} : sent'[i] = sent[i]
    BY <1>1, <1>2 DEF NoticesIInv, MemoryOK
  <2>3. \A i \in Id : sent'[i] <= crashes' + (IF Untold(i)' THEN 0 ELSE 1)
    <3>1. Untold(n.id) /\ ~Untold(n.id)'
      BY <1>2, <1>5, <2>1 DEF Untold, Pending
    <3>2. \A i \in Id \ {n.id} : Untold(i)' <=> Untold(i)
      BY <1>5, <2>1 DEF Untold
    <3>3. \A i \in Id : sent[i] \in Nat /\ sent[i] <= crashes + (IF Untold(i) THEN 0 ELSE 1)
      BY DEF NoticesIInv, MemoryOK
    <3>4. crashes \in Nat
      BY DEF NoticesIInv, MemoryOK
    <3> QED
      BY <1>2, <2>1, <2>2, <3>1, <3>2, <3>3, <3>4
  <2>4. \A i \in surfaced' \cup saved' : sent'[i] > 0 \/ Pending(i)'
    <3>1. used \subseteq Id
      BY IdsSuffice DEF NoticesIInv, RemindersOK
    <3>2. \A i \in surfaced \cup saved : i \in Id /\ (sent[i] > 0 \/ Pending(i))
      BY <3>1 DEF NoticesIInv, MemoryOK
    <3>3. sent[n.id] \in Nat
      BY <1>2 DEF NoticesIInv, MemoryOK
    <3> QED
      BY <1>5, <2>1, <2>2, <3>2, <3>3
  <2>5. notices' \subseteq [id : surfaced' \ saved', text : Text] /\ OneEach(notices)'
    BY <2>1 DEF NoticesIInv, MemoryOK, OneEach
  <2>6. /\ surfaced' \subseteq used' /\ saved' \subseteq used' /\ crashes' \in 0 .. MaxCrashes
        /\ IF hb' = "down" THEN surfaced' = {} ELSE saved' \subseteq surfaced'
    BY <2>1 DEF NoticesIInv, MemoryOK
  <2> QED
    BY <2>1, <2>2, <2>3, <2>4, <2>5, <2>6 DEF MemoryOK
<1>7. TextsOK'
  <2>1. /\ Filed' = Filed /\ notices' \subseteq notices /\ saved' = saved /\ surfaced' = surfaced
        /\ twice' = twice /\ told' = told \cup {n.text}
    BY <1>1, <1>4
  <2>2. \A r \in Filed' : r.id \in (saved' \cup surfaced') \ twice' => r.text \in told' \/ Pending(r.id)'
    BY <1>5, <2>1 DEF NoticesIInv, TextsOK
  <2> QED
    BY <2>1, <2>2 DEF NoticesIInv, TextsOK
<1>8. FlagsOK'
  <2>1. savedDue' = savedDue /\ paused' = paused /\ due' = due
    BY <1>1
  <2> QED
    BY <2>1 DEF NoticesIInv, FlagsOK
<1> QED
  BY <1>3, <1>4, <1>6, <1>7, <1>8 DEF NoticesIInv

-----------------------------------------------------------------------------
(* The rest of the heartbeat, and time: no file but the state is touched. *)

\* Who leaves the files and the copies of the chats alone.
LEMMA FilesQuiet ==
    ASSUME NoticesIInv, UNCHANGED <<reminders, inbox, holds, copy, stale, added, used>>
    PROVE  RemindersOK' /\ InboxOK' /\ Filed' = Filed
<1>1. copy' \in [Process -> SUBSET (Reminder \cup Slip)] /\ \A p \in Process : copy'[p] = copy[p]
  BY DEF NoticesIInv, RemindersOK
<1>2. RemindersOK' /\ Filed' = Filed
  BY <1>1, RemindersQuiet DEF NoticesIInv
<1>3. InboxOK'
  BY InboxQuiet DEF NoticesIInv, InboxOK
<1> QED
  BY <1>2, <1>3

\* What the check finds has no id on record, so nothing of it was pending.
LEMMA Checking ==
    ASSUME NoticesIInv, CheckReminders
    PROVE  NoticesIInv'
<1>1. PICK found \in SUBSET Unsurfaced :
         /\ notices' = {[id |-> r.id, text |-> r.text] : r \in found}
         /\ surfaced' = surfaced \cup {r.id : r \in found}
  BY DEF CheckReminders
<1>2. /\ hb = "asleep" /\ hb' = "notify"
      /\ UNCHANGED <<reminders, inbox, holds, copy, stale, added, used, saved, crashes, sent, twice, told>>
  BY DEF CheckReminders, files, history
<1>3. RemindersOK' /\ InboxOK' /\ Filed' = Filed
  BY <1>2, FilesQuiet
<1>4. /\ notices = {} /\ saved \subseteq surfaced /\ \A i : ~Pending(i)
      /\ surfaced \subseteq used /\ saved \subseteq used
  BY <1>2 DEF NoticesIInv, MemoryOK, Pending
<1>5. /\ found \subseteq reminders /\ found \subseteq Filed
      /\ \A r \in found : r \in Reminder /\ r.id \notin surfaced /\ r.id \in used
      /\ OneEach(found)
  BY DEF Unsurfaced, NoticesIInv, RemindersOK, Filed, OneEach
<1>6. /\ \A m \in notices' : \E r \in found : m = [id |-> r.id, text |-> r.text] /\ m.id = r.id /\ m.text = r.text
      /\ \A r \in found : \E m \in notices' : m.id = r.id /\ m.text = r.text
  <2> DEFINE note(r) == [id |-> r.id, text |-> r.text]
  <2>1. \A r : note(r).id = r.id /\ note(r).text = r.text
    OBVIOUS
  <2>2. \A m : m \in notices' <=> \E r \in found : m = note(r)
    BY <1>1
  <2>3. \A r \in found : note(r) \in notices'
    BY <2>2
  <2> SUFFICES /\ \A m \in notices' : \E r \in found : m = note(r) /\ m.id = r.id /\ m.text = r.text
               /\ \A r \in found : \E m \in notices' : m.id = r.id /\ m.text = r.text
    OBVIOUS
  <2> HIDE DEF note
  <2> QED
    BY <2>1, <2>2, <2>3
<1>7. notices' \subseteq [id : surfaced' \ saved', text : Text] /\ OneEach(notices)'
  <2>1. \A r \in found : r.id \in surfaced' \ saved' /\ r.text \in Text
    BY <1>1, <1>2, <1>4, <1>5 DEF Reminder
  <2> QED
    BY <1>5, <1>6, <2>1 DEF OneEach
<1>8. \A i : Pending(i)' <=> i \in surfaced' \ surfaced
  <2>1. \A i : i \in surfaced' \ surfaced <=> \E r \in found : r.id = i
    BY <1>1, <1>5
  <2> QED
    BY <1>6, <2>1 DEF Pending
<1>9. MemoryOK'
  <2>1. \A i : Untold(i)' <=> Untold(i)
    BY <1>1, <1>2, <1>4, <1>8 DEF Untold
  <2>2. \A i \in Id : sent'[i] <= crashes' + (IF Untold(i)' THEN 0 ELSE 1)
    BY <1>2, <2>1 DEF NoticesIInv, MemoryOK
  <2>3. \A i \in surfaced' \cup saved' : sent'[i] > 0 \/ Pending(i)'
    BY <1>2, <1>4, <1>8 DEF NoticesIInv, MemoryOK
  <2>4. /\ surfaced' \subseteq used' /\ saved' \subseteq used' /\ saved' \subseteq surfaced'
        /\ crashes' \in 0 .. MaxCrashes /\ sent' \in [Id -> Nat]
    BY <1>1, <1>2, <1>4, <1>5 DEF NoticesIInv, MemoryOK
  <2> QED
    BY <1>2, <1>7, <2>2, <2>3, <2>4 DEF MemoryOK
<1>10. TextsOK'
  <2>1. \A r \in Filed', m \in notices' : r.id = m.id /\ r.id \notin twice' => r.text = m.text
    BY <1>2, <1>3, <1>5, <1>6 DEF NoticesIInv, TextsOK
  <2>2. \A r \in Filed' : r.id \in (saved' \cup surfaced') \ twice' => r.text \in told' \/ Pending(r.id)'
    BY <1>2, <1>3, <1>4, <1>8 DEF NoticesIInv, TextsOK
  <2> QED
    BY <1>2, <1>3, <2>1, <2>2 DEF NoticesIInv, TextsOK
<1>11. FlagsOK'
  <2>1. paused' = paused /\ due' = due /\ savedDue' = savedDue
    BY DEF CheckReminders, files
  <2> QED
    BY <2>1 DEF NoticesIInv, FlagsOK
<1> QED
  BY <1>3, <1>9, <1>10, <1>11 DEF NoticesIInv

\* The heartbeat starts with what is on file, and writes back what it has told.
LEMMA StartsAndEndsTick ==
    ASSUME NoticesIInv, StartHeartbeat \/ EndTick
    PROVE  NoticesIInv'
<1>1. /\ UNCHANGED <<reminders, inbox, holds, copy, stale, added, used, crashes, sent, twice, told>>
      /\ notices' = notices /\ hb' = "asleep"
  BY DEF StartHeartbeat, EndTick, files, history
<1>2. notices = {} /\ (\A i : ~Pending(i)) /\ \A i : ~Pending(i)'
  <2>1. notices = {}
    BY DEF StartHeartbeat, EndTick, NoticesIInv, MemoryOK
  <2> QED
    BY <1>1, <2>1 DEF Pending
<1>3. RemindersOK' /\ InboxOK' /\ Filed' = Filed
  BY <1>1, FilesQuiet
<1>4. /\ saved' = surfaced' /\ surfaced' \cup saved' = surfaced \cup saved
      /\ surfaced' \subseteq used /\ hb # "asleep"
  BY DEF StartHeartbeat, EndTick, files, NoticesIInv, MemoryOK
<1>5. MemoryOK'
  <2>1. \A i : Untold(i)' <=> Untold(i)
    BY <1>2, <1>4 DEF Untold
  <2>2. \A i \in Id : sent'[i] <= crashes' + (IF Untold(i)' THEN 0 ELSE 1)
    BY <1>1, <2>1 DEF NoticesIInv, MemoryOK
  <2>3. \A i \in surfaced' \cup saved' : sent'[i] > 0 \/ Pending(i)'
    BY <1>1, <1>2, <1>4 DEF NoticesIInv, MemoryOK
  <2>4. notices' \subseteq [id : surfaced' \ saved', text : Text] /\ OneEach(notices)'
    BY <1>1, <1>2 DEF OneEach
  <2>5. /\ surfaced' \subseteq used' /\ saved' \subseteq used' /\ saved' \subseteq surfaced'
        /\ crashes' \in 0 .. MaxCrashes /\ sent' \in [Id -> Nat] /\ notices' = {}
    BY <1>1, <1>2, <1>4 DEF NoticesIInv, MemoryOK
  <2> QED
    BY <1>1, <2>2, <2>3, <2>4, <2>5 DEF MemoryOK
<1>6. TextsOK'
  <2>1. \A r \in Filed' : r.id \in (saved' \cup surfaced') \ twice' => r.text \in told' \/ Pending(r.id)'
    BY <1>1, <1>2, <1>3, <1>4 DEF NoticesIInv, TextsOK
  <2> QED
    BY <1>1, <1>3, <2>1 DEF NoticesIInv, TextsOK
<1>7. FlagsOK'
  <2>1. CASE StartHeartbeat
    <3>1. paused' \in BOOLEAN /\ due' = savedDue /\ savedDue' = savedDue
      BY <2>1 DEF StartHeartbeat, files
    <3> QED
      BY <3>1 DEF NoticesIInv, FlagsOK
  <2>2. CASE EndTick
    <3>1. paused' = paused /\ due' = FALSE /\ savedDue' = FALSE
      BY <2>2 DEF EndTick
    <3> QED
      BY <3>1 DEF NoticesIInv, FlagsOK
  <2> QED
    BY <2>1, <2>2
<1> QED
  BY <1>3, <1>5, <1>6, <1>7 DEF NoticesIInv

\* An end of the heartbeat forgets notices that are not on record; they may come
\* once more, and the end is counted.
LEMMA HeartbeatEnding ==
    ASSUME NoticesIInv, EndHeartbeat
    PROVE  NoticesIInv'
<1>1. /\ hb' = "down" /\ surfaced' = {} /\ notices' = {} /\ crashes' = crashes + 1 /\ crashes < MaxCrashes
      /\ holds' = holds \ {HB} /\ copy' = [copy EXCEPT ![HB] = {}] /\ stale' = stale \ {HB}
      /\ UNCHANGED <<reminders, inbox, saved, added, used, twice, told, sent>>
  BY DEF EndHeartbeat, files
<1>2. /\ RemindersOK' /\ Filed' = Filed
      /\ copy'[HB] = {} /\ \A q \in Process \ {HB} : copy'[q] = copy[q]
  <2>1. PICK L : L = {}
    OBVIOUS
  <2>2. reminders' = reminders /\ added' = added /\ used' = used
    BY <1>1
  <2>3. L \subseteq Slip /\ HB \in {HB, CLI} /\ copy' = [copy EXCEPT ![HB] = L]
    BY <1>1, <2>1
  <2>4. /\ RemindersOK' /\ Filed' = Filed
        /\ copy'[HB] = L /\ \A q \in Process \ {HB} : copy'[q] = copy[q]
    BY ONLY NoticesIInv, <2>2, <2>3, InboxFile, Zenon
  <2> QED
    BY <2>1, <2>4
<1>3. InboxOK'
  <2>1. copy'[HB] = {} /\ copy'[CLI] = copy[CLI] /\ Slips' \subseteq Slips
    BY <1>1, <1>2, Processes DEF Slips
  <2>2. OneEach(inbox)' /\ OneEach(copy'[HB]) /\ OneEach(copy'[CLI])
    BY <1>1, <2>1 DEF OneEach, NoticesIInv, InboxOK
  <2>3. \E b \in Nat : \A n \in Slips' : n.id <= b
    BY <2>1 DEF NoticesIInv, InboxOK
  <2>4. \A p \in {HB, CLI} : p \in holds' \ stale' => copy'[p] = inbox'
    BY <1>1, <2>1, Processes DEF NoticesIInv, InboxOK
  <2>5. holds' \subseteq Process /\ stale' \subseteq holds' /\ Slips' \subseteq Slip
    BY <1>1, <2>1 DEF NoticesIInv, InboxOK
  <2> QED
    BY <2>2, <2>3, <2>4, <2>5 DEF InboxOK, OneEach
<1>4. \A i \in saved : ~Pending(i)
  BY DEF Pending, NoticesIInv, MemoryOK
<1>5. MemoryOK'
  <2>1. \A i \in Id : sent'[i] <= crashes' + (IF Untold(i)' THEN 0 ELSE 1)
    <3>1. \A i \in Id : sent'[i] = sent[i] /\ sent[i] \in Nat /\ sent[i] <= crashes + (IF Untold(i) THEN 0 ELSE 1)
      BY <1>1 DEF NoticesIInv, MemoryOK
    <3>2. crashes \in Nat
      BY DEF NoticesIInv, MemoryOK
    <3> QED
      BY <1>1, <3>1, <3>2
  <2>2. \A i \in surfaced' \cup saved' : sent'[i] > 0 \/ Pending(i)'
    BY <1>1, <1>4 DEF NoticesIInv, MemoryOK
  <2>3. crashes' \in 0 .. MaxCrashes
    BY <1>1, HeartbeatAssumption DEF NoticesIInv, MemoryOK
  <2>4. surfaced' \subseteq used' /\ saved' \subseteq used' /\ sent' \in [Id -> Nat] /\ OneEach(notices)'
    BY <1>1 DEF NoticesIInv, MemoryOK, OneEach
  <2> QED
    BY <1>1, <2>1, <2>2, <2>3, <2>4 DEF MemoryOK
<1>6. TextsOK'
  <2>1. \A r \in Filed' : r.id \in (saved' \cup surfaced') \ twice' => r.text \in told' \/ Pending(r.id)'
    BY <1>1, <1>2, <1>4 DEF NoticesIInv, TextsOK
  <2> QED
    BY <1>1, <1>2, <2>1 DEF NoticesIInv, TextsOK
<1>7. FlagsOK'
  <2>1. savedDue' = savedDue /\ paused' = FALSE /\ due' = FALSE
    BY DEF EndHeartbeat, files
  <2> QED
    BY <2>1 DEF NoticesIInv, FlagsOK
<1> QED
  BY <1>2, <1>3, <1>5, <1>6, <1>7 DEF NoticesIInv

\* Time, and nothing at all.
LEMMA Passing ==
    ASSUME NoticesIInv, Pass \/ (\E t \in Text : Ripen(t)) \/ UNCHANGED vars
    PROVE  NoticesIInv'
<1>1. /\ UNCHANGED <<reminders, inbox, holds, copy, stale, added, used, crashes, sent, twice, told>>
      /\ UNCHANGED <<notices, hb, surfaced, saved>>
  BY DEF Pass, Ripen, files, hbVars, history, vars
<1>2. RemindersOK' /\ InboxOK' /\ Filed' = Filed
  BY <1>1, FilesQuiet
<1>3. MemoryOK' /\ TextsOK'
  BY <1>1, <1>2, MemoryQuiet, TextsQuiet DEF NoticesIInv
<1>4. FlagsOK'
  <2>1. paused' = paused /\ (savedDue' = savedDue \/ savedDue' = TRUE) /\ (due' = due \/ due' = (hb # "down"))
    BY DEF Pass, Ripen, files, hbVars, vars
  <2> QED
    BY <2>1 DEF NoticesIInv, FlagsOK
<1> QED
  BY <1>2, <1>3, <1>4 DEF NoticesIInv

\* Empty files; every step.
LEMMA NoticesStart ==
    ASSUME Init
    PROVE  NoticesIInv
<1>1. /\ reminders = {} /\ inbox = {} /\ saved = {} /\ surfaced = {} /\ notices = {} /\ holds = {}
      /\ copy = [p \in Process |-> {}] /\ crashes = 0 /\ added = {} /\ used = {}
      /\ sent = [i \in Id |-> 0] /\ stale = {} /\ hb = "down"
  BY DEF Init
<1>2. /\ \A p \in Process : copy[p] = {}
      /\ \A p \in Chat : copy[p] = {}
      /\ copy[HB] = {} /\ copy[CLI] = {}
      /\ copy \in [Process -> SUBSET (Reminder \cup Slip)]
  BY <1>1, Processes
<1>3. Filed = {} /\ Slips = {}
  BY <1>1, <1>2 DEF Filed, Slips
<1>4. RemindersOK
  BY <1>1, <1>2, <1>3, Zenon DEF RemindersOK, OneEach
<1>5. InboxOK
  <2>1. 0 \in Nat /\ \A n \in Slips : n.id <= 0
    BY <1>3
  <2> QED
    BY <1>1, <1>2, <1>3, <2>1 DEF InboxOK, OneEach
<1>6. MemoryOK
  BY <1>1, HeartbeatAssumption DEF MemoryOK, OneEach, Untold, Pending
<1>7. TextsOK
  BY <1>1, <1>3 DEF TextsOK
<1>8. FlagsOK
  BY DEF Init, FlagsOK
<1> QED
  BY <1>4, <1>5, <1>6, <1>7, <1>8 DEF NoticesIInv

\* Every step keeps the invariant.
LEMMA NoticesKept ==
    ASSUME NoticesIInv, [Next]_vars
    PROVE  NoticesIInv'
<1>1. CASE UserStep
  <2>1. ASSUME NEW p \in Chat, NEW t \in Text, NEW d \in DueKind, AddReminder(p, t, d) PROVE NoticesIInv'
    BY <2>1, Adding
  <2>2. ASSUME NEW p \in Chat, \/ LoadReminders(p) \/ OnlyLook(p)
                               \/ \E r \in copy[p] : CompleteReminder(p, r) \/ DeleteReminder(p, r)
        PROVE  NoticesIInv'
    BY <2>2, ChatKeeps
  <2>3. CASE LoadToDismiss
    BY <2>3, InboxLoads DEF LoadToDismiss
  <2>4. ASSUME NEW ids, Dismiss(ids) PROVE NoticesIInv'
    BY <2>4, Dismissing
  <2> QED
    BY <1>1, <2>1, <2>2, <2>3, <2>4 DEF UserStep
<1>2. CASE HeartbeatStep
  <2>1. CASE LoadToNotify
    BY <2>1, InboxLoads DEF LoadToNotify
  <2> QED
    BY <1>2, <2>1, Checking, Notifying, StartsAndEndsTick DEF HeartbeatStep
<1> QED
  BY <1>1, <1>2, StartsAndEndsTick, HeartbeatEnding, Passing DEF Next

\* The inductive invariant.
THEOREM NoticesIInvThm == Spec => []NoticesIInv
<1>1. Init => NoticesIInv
  BY NoticesStart
<1>2. NoticesIInv /\ [Next]_vars => NoticesIInv'
  BY NoticesKept
<1> QED
  BY <1>1, <1>2, PTL DEF Spec

\* Whatever chats, the inbox command and the heartbeat save over each other
\* (store.py) and wherever the heartbeat ends: an id names one item of its file,
\* only an end of the heartbeat repeats a notice, and a reminder whose id is on
\* record had its notice, unless the id was given twice.
THEOREM NoticesThm == Spec => []NoticesInv
<1>1. NoticesIInv => NoticesInv
  <2> SUFFICES ASSUME NoticesIInv PROVE NoticesInv
    OBVIOUS
  <2>1. used \subseteq Id /\ used \subseteq Nat
    BY IdsSuffice DEF NoticesIInv, RemindersOK
  <2>2. \A r \in reminders : r \in Reminder
    BY DEF NoticesIInv, RemindersOK, Filed
  <2>3. \A n \in inbox : n \in Slip
    BY DEF NoticesIInv, InboxOK, Slips
  <2>4. saved \subseteq used /\ surfaced \subseteq used /\ \A n \in notices : n.id \in surfaced
    BY DEF NoticesIInv, MemoryOK
  <2>5. TypeOK
    <3>1. due \in BOOLEAN /\ savedDue \in BOOLEAN /\ paused \in BOOLEAN
      BY DEF NoticesIInv, FlagsOK
    <3>2. \A r \in reminders : r.id \in Id /\ r.text \in Text /\ r.due \in DueKind
      BY <2>2 DEF Reminder
    <3>3. \A n \in inbox : n.id \in Nat \ {0} /\ n.text \in Text
      BY <2>3 DEF Slip
    <3>4. saved \subseteq Id /\ surfaced \subseteq Id /\ \A n \in notices : n.id \in Id
      BY <2>1, <2>4
    <3>5. /\ hb \in {"down", "asleep", "notify"} /\ holds \subseteq Process /\ stale \subseteq holds
          /\ crashes \in 0 .. MaxCrashes
      BY DEF NoticesIInv, MemoryOK, InboxOK
    <3> QED
      BY <3>1, <3>2, <3>3, <3>4, <3>5 DEF TypeOK
  <2>6. IdsUnique
    BY DEF NoticesIInv, RemindersOK, InboxOK, OneEach, IdsUnique
  <2>7. RepeatsNeedCrash
    <3>1. \A i \in Id : sent[i] \in Nat /\ sent[i] <= crashes + (IF Untold(i) THEN 0 ELSE 1)
      BY DEF NoticesIInv, MemoryOK
    <3>2. crashes \in Nat
      BY DEF NoticesIInv, MemoryOK
    <3> QED
      BY <3>1, <3>2 DEF RepeatsNeedCrash
  <2>8. OwnNotice
    <3>1. \A i \in saved : ~Pending(i)
      BY DEF Pending, NoticesIInv, MemoryOK
    <3> QED
      BY <3>1 DEF NoticesIInv, TextsOK, OwnNotice, Filed
  <2> QED
    BY <2>5, <2>6, <2>7, <2>8 DEF NoticesInv
<1> QED
  BY <1>1, NoticesIInvThm, PTL

\* A save over a copy that is still the file: what was in the inbox is in it.
LEMMA InboxStep ==
    ASSUME NoticesIInv, [Next]_vars, ~clashed'
    PROVE  \A n \in inbox : \E m \in inbox' : m.id = n.id /\ m.text = n.text /\ (n.dismissed => m.dismissed)
<1>1. ASSUME NEW ids, Dismiss(ids)
      PROVE  \A n \in inbox : \E m \in inbox' : m.id = n.id /\ m.text = n.text /\ (n.dismissed => m.dismissed)
  <2> DEFINE new(n) == [n EXCEPT !.dismissed = @ \/ n.id \in ids]
  <2>1. CLI \in holds /\ CLI \notin stale /\ inbox' = {new(n) : n \in copy[CLI]}
    BY <1>1 DEF Dismiss, Save, LetGo
  <2>2. copy[CLI] = inbox /\ inbox \subseteq Slip
    BY <2>1 DEF NoticesIInv, InboxOK, Slips
  <2>3. \A n \in Slip : new(n).id = n.id /\ new(n).text = n.text /\ (n.dismissed => new(n).dismissed)
    <3> SUFFICES ASSUME NEW n \in Slip
                 PROVE  new(n).id = n.id /\ new(n).text = n.text /\ (n.dismissed => new(n).dismissed)
      OBVIOUS
    <3>1. new(n).id = n.id /\ new(n).text = n.text /\ new(n).dismissed = (n.dismissed \/ n.id \in ids)
      BY DEF Slip
    <3> HIDE DEF new
    <3> QED
      BY <3>1
  <2> HIDE DEF new
  <2>4. \A n \in inbox : new(n) \in inbox' /\ n \in Slip
    BY <2>1, <2>2
  <2> QED
    BY <2>3, <2>4
<1>2. ASSUME NEW n \in notices, Notify(n) PROVE inbox \subseteq inbox'
  <2>1. HB \in holds /\ HB \notin stale /\ copy[HB] \subseteq inbox'
    BY <1>2 DEF Notify, Save, LetGo
  <2> QED
    BY <2>1 DEF NoticesIInv, InboxOK
<1>3. \/ \E ids : Dismiss(ids)
      \/ \E n \in notices : Notify(n)
      \/ inbox' = inbox
  BY DEF Next, HeartbeatStep, UserStep, CheckReminders, LoadToNotify, EndTick, LoadReminders, OnlyLook,
         AddReminder, CompleteReminder, DeleteReminder, LoadToDismiss, StartHeartbeat, EndHeartbeat,
         Pass, Ripen, vars, files
<1> QED
  BY <1>1, <1>2, <1>3

\* No notice leaves the inbox and none comes back (Inbox.add, Inbox.dismiss),
\* unless a copy is saved over what the other process had saved since.
THEOREM InboxKeptThm == Spec => InboxKept
<1>1. NoticesIInv /\ [Next]_vars
         => [~clashed' => \A n \in inbox : \E m \in inbox' :
                             m.id = n.id /\ m.text = n.text /\ (n.dismissed => m.dismissed)]_vars
  BY InboxStep
<1> QED
  BY <1>1, NoticesIInvThm, PTL DEF Spec, InboxKept

\* Every step of the files is one of telling what is not on record, recording
\* what was told, or neither.
LEMMA DeliveryStep ==
    ASSUME NoticesIInv, [Next]_vars
    PROVE  [(\E i \in Id : Notices!TellUnsettled(i)) \/ Notices!SettleTold]_(Notices!vars)
<1>1. ASSUME NEW n \in notices, Notify(n) PROVE \E i \in Id : Notices!TellUnsettled(i)
  <2>1. n.id \in Id \ saved
    <3>1. used \subseteq Id
      BY IdsSuffice DEF NoticesIInv, RemindersOK
    <3> QED
      BY <3>1 DEF NoticesIInv, MemoryOK
  <2>2. sent' = [sent EXCEPT ![n.id] = @ + 1] /\ saved' = saved
    BY <1>1 DEF Notify
  <2> QED
    BY <2>1, <2>2 DEF Notices!TellUnsettled
<1>2. CASE EndTick
  <2>1. notices = {} /\ saved' = surfaced /\ sent' = sent /\ hb = "notify"
    BY <1>2 DEF EndTick, history
  <2>2. surfaced \subseteq Id
    <3>1. used \subseteq Id
      BY IdsSuffice DEF NoticesIInv, RemindersOK
    <3> QED
      BY <3>1 DEF NoticesIInv, MemoryOK
  <2>3. saved \subseteq surfaced /\ \A i \in surfaced : sent[i] > 0
    BY <2>1 DEF NoticesIInv, MemoryOK, Pending
  <2> QED
    BY <2>1, <2>2, <2>3 DEF Notices!SettleTold
<1>3. \/ EndTick
      \/ \E n \in notices : Notify(n)
      \/ UNCHANGED <<sent, saved>>
  BY DEF Next, HeartbeatStep, UserStep, CheckReminders, LoadToNotify, LoadReminders, OnlyLook,
         AddReminder, CompleteReminder, DeleteReminder, LoadToDismiss, Dismiss, StartHeartbeat, EndHeartbeat,
         Pass, Ripen, vars, files, history
<1> QED
  BY <1>1, <1>2, <1>3 DEF Notices!vars

\* The heartbeat tells first and records later (tick, _persist): Delivery at
\* least once, whatever the chats do to the ids and wherever it ends.
THEOREM ToldAtLeastOnceThm == Spec => ToldAtLeastOnce
<1>1. Init => Notices!Init
  BY DEF Init, Notices!Init
<1>2. NoticesIInv /\ [Next]_vars
         => [(\E i \in Id : Notices!TellUnsettled(i)) \/ Notices!SettleTold]_(Notices!vars)
  BY DeliveryStep
<1> QED
  BY <1>1, <1>2, NoticesIInvThm, PTL DEF Spec, ToldAtLeastOnce, Notices!AtLeastOnce

-----------------------------------------------------------------------------
(* The switch in config.yaml. *)

\* A session whose copy is true to the last kill runs, and has it paused.
FreshTrue ==
    /\ fresh \subseteq running
    /\ wish /\ ~overruled => \A p \in fresh : config[p].paused

SwitchIInv == SwitchInv /\ FreshTrue

\* The values of the configuration and its readers.
LEMMA SwitchTypes ==
    ASSUME ConfigTypeOK, NEW p \in Reader,
           \/ Start(p) \/ Write(p) \/ End(p) \/ ChangeSetting(p)
           \/ \E on \in BOOLEAN : SetPaused(p, on)
    PROVE  ConfigTypeOK'
<1>1. Loaded \in [paused : BOOLEAN, rest : BOOLEAN]
  BY DEF Loaded, Default, ConfigTypeOK
<1>2. CASE Start(p)
  <2>1. config' \in [Reader -> [paused : BOOLEAN, rest : BOOLEAN]]
    BY <1>1, <1>2 DEF Start, ConfigTypeOK
  <2>2. torn' \in BOOLEAN /\ obeys' \in BOOLEAN
    BY <1>2, Zenon DEF Start, ConfigTypeOK
  <2>3. fresh' \subseteq Session /\ running' \subseteq Reader /\ saving' \subseteq running'
    BY <1>2 DEF Start, ConfigTypeOK
  <2>4. lives' \in 0 .. MaxLives
    BY <1>2, ConfigAssumption DEF Start, ConfigTypeOK
  <2> QED
    BY <1>2, <2>1, <2>2, <2>3, <2>4 DEF Start, ConfigTypeOK
<1>3. CASE Write(p)
  BY <1>3 DEF Write, Written, ConfigTypeOK
<1>4. CASE End(p)
  BY <1>4 DEF End, ConfigTypeOK
<1>5. CASE ChangeSetting(p)
  BY <1>5 DEF ChangeSetting, OpenToSave, ConfigTypeOK
<1>6. ASSUME NEW on \in BOOLEAN, SetPaused(p, on) PROVE ConfigTypeOK'
  <2>1. config' \in [Reader -> [paused : BOOLEAN, rest : BOOLEAN]]
    BY <1>6 DEF SetPaused, ConfigTypeOK
  <2> QED
    BY <1>6, <2>1 DEF SetPaused, OpenToSave, ConfigTypeOK
<1> QED
  BY <1>2, <1>3, <1>4, <1>5, <1>6

\* A process that starts takes over what is on file.
LEMMA Starting ==
    ASSUME SwitchIInv, NEW p \in Reader, Start(p)
    PROVE  (KillHolds /\ KillObeyed /\ SettingsKept /\ FreshTrue)'
<1>1. /\ config' = [config EXCEPT ![p] = Loaded] /\ config \in [Reader -> [paused : BOOLEAN, rest : BOOLEAN]]
      /\ UNCHANGED <<file, emptied, wish, overruled>> /\ Beat \in Reader
      /\ fresh \subseteq Reader
  BY DEF Start, SwitchIInv, SwitchInv, ConfigTypeOK, Reader
<1>2. ~emptied => Loaded = file
  BY DEF Loaded
<1>3. KillHolds'
  BY <1>1 DEF KillHolds, SwitchIInv, SwitchInv
<1>4. KillObeyed'
  BY <1>1, <1>2 DEF KillObeyed, KillHolds, SwitchIInv, SwitchInv, Start, Paused
<1>5. SettingsKept'
  BY <1>1, <1>2 DEF SettingsKept, SwitchIInv, SwitchInv, ConfigTypeOK, Start
<1>6. FreshTrue'
  BY <1>1, <1>2 DEF FreshTrue, KillHolds, SwitchIInv, SwitchInv, Start
<1> QED
  BY <1>3, <1>4, <1>5, <1>6

\* A save is a kill or unkill done, or that of a session: one that is true to
\* the last kill writes it again, and any other overrules it.
LEMMA Saving ==
    ASSUME SwitchIInv, NEW p \in Reader, Write(p)
    PROVE  (KillHolds /\ KillObeyed /\ SettingsKept /\ FreshTrue)'
<1>1. /\ config' = config /\ torn' = torn /\ file' = config[p] /\ p \in running
      /\ p = Switch => wish' = config[p].paused /\ fresh' = {} /\ obeys' = FALSE
                       /\ running' = running \ {p}
      /\ p # Switch => UNCHANGED <<running, wish, fresh, obeys>>
                       /\ overruled' = (overruled \/ p \notin fresh)
  BY DEF Write, Written, SwitchIInv, SwitchInv, ConfigTypeOK
<1>2. KillHolds'
  BY <1>1 DEF KillHolds, FreshTrue, SwitchIInv, SwitchInv
<1>3. KillObeyed'
  BY <1>1 DEF KillObeyed, SwitchIInv, SwitchInv, Paused
<1>4. SettingsKept'
  BY <1>1 DEF SettingsKept, SwitchIInv, SwitchInv, ConfigTypeOK
<1>5. FreshTrue'
  <2>1. CASE p = Switch
    BY <1>1, <2>1 DEF FreshTrue
  <2>2. CASE p # Switch
    <3>1. fresh' = fresh /\ running' = running /\ wish' = wish /\ config' = config
          /\ (~overruled' => ~overruled)
      BY <1>1, <2>2
    <3>2. fresh \subseteq running /\ (wish /\ ~overruled => \A q \in fresh : config[q].paused)
      BY DEF SwitchIInv, FreshTrue
    <3> QED
      BY <3>1, <3>2 DEF FreshTrue
  <2> QED
    BY <2>1, <2>2
<1> QED
  BY <1>2, <1>3, <1>4, <1>5

\* A process that changes its copy is not true to the kill any more, and the
\* file it opens is empty.
LEMMA Opening ==
    ASSUME SwitchIInv, NEW p \in Reader,
           ChangeSetting(p) \/ \E on \in BOOLEAN : SetPaused(p, on)
    PROVE  (KillHolds /\ KillObeyed /\ SettingsKept /\ FreshTrue)'
<1>1. /\ emptied' = TRUE /\ UNCHANGED <<file, running, wish, overruled, torn, obeys>>
      /\ fresh' \subseteq fresh
  BY DEF ChangeSetting, SetPaused, OpenToSave
<1>2. config \in [Reader -> [paused : BOOLEAN, rest : BOOLEAN]] /\ Beat \in Reader
      /\ fresh \subseteq Reader /\ running \subseteq Reader
  BY DEF SwitchIInv, SwitchInv, ConfigTypeOK, Reader
<1>3. \A q \in Reader : config'[q].rest = config[q].rest
  BY <1>2 DEF ChangeSetting, SetPaused
<1>4. config'[Beat] = config[Beat] /\ \A q \in fresh' : config'[q] = config[q]
  BY <1>1, <1>2 DEF ChangeSetting, SetPaused
<1>5. KillHolds'
  BY <1>1 DEF KillHolds
<1>6. KillObeyed'
  BY <1>1, <1>4 DEF KillObeyed, SwitchIInv, SwitchInv, Paused
<1>7. SettingsKept'
  BY <1>1, <1>2, <1>3 DEF SettingsKept, SwitchIInv, SwitchInv
<1>8. FreshTrue'
  BY <1>1, <1>4 DEF FreshTrue, SwitchIInv
<1> QED
  BY <1>5, <1>6, <1>7, <1>8

\* A process that ends leaves the file.
LEMMA Ending ==
    ASSUME SwitchIInv, NEW p \in Reader, End(p)
    PROVE  (KillHolds /\ KillObeyed /\ SettingsKept /\ FreshTrue)'
BY DEF End, SwitchIInv, SwitchInv, KillHolds, KillObeyed, SettingsKept, FreshTrue, Paused

\* A kill that has returned stays on file, and a heartbeat that starts after it
\* obeys, whatever sessions and commands do, but for the saves of sessions with
\* an older copy; the other settings are lost only to a process that loads the
\* file while it is empty.
THEOREM SwitchThm == ConfigSpec => []SwitchInv
<1>1. ConfigInit => SwitchIInv
  <2>1. Full \in [paused : BOOLEAN, rest : BOOLEAN] /\ Default \in [paused : BOOLEAN, rest : BOOLEAN]
    BY DEF Full, Default
  <2>2. Full.rest
    BY DEF Full
  <2> SUFFICES ASSUME ConfigInit PROVE SwitchIInv
    OBVIOUS
  <2>3. ConfigTypeOK
    <3>1. config \in [Reader -> [paused : BOOLEAN, rest : BOOLEAN]]
      BY <2>1 DEF ConfigInit
    <3>2. file \in [paused : BOOLEAN, rest : BOOLEAN] /\ emptied \in BOOLEAN
      BY <2>1, Zenon DEF ConfigInit
    <3>3. wish \in BOOLEAN /\ overruled \in BOOLEAN /\ torn \in BOOLEAN /\ obeys \in BOOLEAN
      BY Zenon DEF ConfigInit
    <3>4. lives \in 0 .. MaxLives
      BY ConfigAssumption DEF ConfigInit
    <3> QED
      BY <3>1, <3>2, <3>3, <3>4 DEF ConfigInit, ConfigTypeOK
  <2>4. KillHolds /\ KillObeyed /\ SettingsKept /\ FreshTrue
    BY <2>2 DEF ConfigInit, KillHolds, KillObeyed, SettingsKept, FreshTrue
  <2> QED
    BY <2>3, <2>4 DEF SwitchIInv, SwitchInv
<1>2. SwitchIInv /\ [ConfigNext]_configVars => SwitchIInv'
  <2> SUFFICES ASSUME SwitchIInv, [ConfigNext]_configVars PROVE SwitchIInv'
    OBVIOUS
  <2>1. CASE UNCHANGED configVars
    BY <2>1 DEF configVars, wishes, SwitchIInv, SwitchInv, ConfigTypeOK, KillHolds, KillObeyed,
                SettingsKept, FreshTrue, Paused
  <2>2. CASE ConfigNext
    <3>1. PICK p \in Reader : \/ Start(p) \/ Write(p) \/ End(p) \/ ChangeSetting(p)
                              \/ \E on \in BOOLEAN : SetPaused(p, on)
      BY <2>2 DEF ConfigNext
    <3>2. ConfigTypeOK'
      BY <3>1, SwitchTypes DEF SwitchIInv, SwitchInv
    <3>3. (KillHolds /\ KillObeyed /\ SettingsKept /\ FreshTrue)'
      BY <3>1, Starting, Saving, Opening, Ending
    <3> QED
      BY <3>2, <3>3 DEF SwitchIInv, SwitchInv
  <2> QED
    BY <2>1, <2>2
<1> QED
  BY <1>1, <1>2, PTL DEF ConfigSpec, SwitchIInv
=============================================================================
