----------------------------- MODULE ThreadsProofs -----------------------------
(***************************************************************************)
(* Proofs about what threads of a process share, for any number of them    *)
(* and any limits: how many guesses and calls they get past the login      *)
(* limiter (AuthRateLimiter) and the tool cap (AnomalyGate) together, what *)
(* Donald's daemons tell of the reminders they read together               *)
(* (ProactiveLoop), and what the timers of the registry watcher leave      *)
(* behind (RegistryWatcher).                                               *)
(***************************************************************************)
EXTENDS AuthRateLimiter, AnomalyGate, ProactiveLoop, RegistryWatcher,
        FiniteSetTheorems, SequenceTheorems, WellFoundedInduction, TLAPS

-----------------------------------------------------------------------------
(* Sequences that lose their front. *)

\* A set of numbers has a least.
LEMMA MinOf ==
    ASSUME NEW S, S \subseteq Nat, S # {}
    PROVE  Min(S) \in S /\ \A x \in S : Min(S) <= x
<1> DEFINE Below == {ss \in Nat \X Nat : ss[1] < ss[2]}
<1>1. IsWellFoundedOn(Below, Nat)
  BY NatLessThanWellFounded DEF OpToRel
<1>2. PICK y \in S : \A z \in S : ~ (<<z, y>> \in Below)
  BY <1>1, WFMin
<1>a. \A z \in S : ~(z < y) /\ z \in Nat /\ y \in Nat
  BY <1>2
<1>3. \A z \in S : y <= z
  BY <1>a
<1> QED
  BY <1>3, Zenon DEF Min

FromFirst(s, K) == IF K = {} THEN <<>> ELSE SubSeq(s, Min(K), Len(s))

\* What is left when the front of a sequence goes, up to the first that stays.
LEMMA Suffix ==
    ASSUME NEW A, NEW s \in Seq(A), NEW K \in SUBSET DOMAIN s
    PROVE  /\ FromFirst(s, K) \in Seq(A)
           /\ \E d \in 0 .. Len(s) :
                  /\ Len(FromFirst(s, K)) = Len(s) - d
                  /\ \A k \in 1 .. Len(s) - d : FromFirst(s, K)[k] = s[k + d]
                  /\ \A k \in K : k > d
                  /\ d < Len(s) => d + 1 \in K
<1>0. Len(s) \in Nat /\ DOMAIN s = 1 .. Len(s) /\ \A i \in 1 .. Len(s) : s[i] \in A
  BY LenProperties
<1>1. CASE K = {}
  <2>1. Len(s) \in 0 .. Len(s) /\ Len(s) - Len(s) = 0 /\ (\A k : k \notin 1 .. 0) /\ ~(Len(s) < Len(s))
    BY <1>0
  <2>2. <<>> \in Seq(A) /\ Len(<<>>) = 0 /\ FromFirst(s, K) = <<>>
    BY <1>1 DEF FromFirst
  <2>3. /\ Len(FromFirst(s, K)) = Len(s) - Len(s)
        /\ \A k \in 1 .. Len(s) - Len(s) : FromFirst(s, K)[k] = s[k + Len(s)]
    BY <2>1, <2>2
  <2> QED
    BY <1>1, <2>1, <2>2, <2>3
<1>2. CASE K # {}
  <2>1. K \subseteq Nat
    BY <1>0
  <2>2. Min(K) \in K /\ \A x \in K : Min(K) <= x
    BY <1>2, <2>1, MinOf
  <2>3. PICK m \in 1 .. Len(s) : m = Min(K)
    <3>1. Min(K) \in 1 .. Len(s)
      BY <1>0, <2>2
    <3> QED
      BY <3>1
  <2>4. FromFirst(s, K) = SubSeq(s, m, Len(s)) /\ m \in Int /\ Len(s) \in Int
    BY <1>0, <1>2, <2>3 DEF FromFirst
  <2>5. \A i \in m .. Len(s) : s[i] \in A
    BY <1>0
  <2>6. /\ FromFirst(s, K) \in Seq(A) /\ Len(FromFirst(s, K)) = Len(s) - (m - 1)
        /\ \A k \in 1 .. Len(s) - m + 1 : FromFirst(s, K)[k] = s[m + k - 1]
    BY <1>0, <2>4, <2>5, SubSeqProperties
  <2>7. m - 1 \in 0 .. Len(s) /\ m - 1 + 1 \in K /\ \A k \in K : k > m - 1
    BY <1>0, <2>1, <2>2, <2>3
  <2>8. \A k \in 1 .. Len(s) - (m - 1) : FromFirst(s, K)[k] = s[k + (m - 1)]
    <3> SUFFICES ASSUME NEW k \in 1 .. Len(s) - (m - 1) PROVE FromFirst(s, K)[k] = s[k + (m - 1)]
      OBVIOUS
    <3>1. k \in 1 .. Len(s) - m + 1 /\ m + k - 1 = k + (m - 1)
      BY <1>0
    <3> QED
      BY <2>6, <3>1
  <2> QED
    BY <2>6, <2>7, <2>8
<1> QED
  BY <1>1, <1>2

-----------------------------------------------------------------------------
(* The tool cap. *)

\* The calls of a window are those of certain threads, and those whose stamp is
\* still there have it to themselves.  A thread reads the clock after its last
\* call: until that call has left the window, no stamp of the next is so old that
\* it could go.
Owned(by, place) ==
    /\ by \in [DOMAIN recorded -> Worker] /\ place \in [DOMAIN recorded -> 0 .. Len(hits)]
    /\ \A i \in DOMAIN recorded :
          ~recorded[i].late => place[i] # 0 /\ hits[place[i]] <= recorded[i].age
    /\ \A i, j \in DOMAIN recorded : place[i] = place[j] /\ place[i] # 0 => i = j
    /\ \A i, j \in DOMAIN recorded :
          i < j /\ by[i] = by[j] => place[j] # 0 /\ hits[place[j]] <= recorded[i].age
    /\ \A i \in DOMAIN recorded : doing[by[i]] = "cap" => wait[by[i]] <= recorded[i].age

Call == [age : 0 .. Span, late : BOOLEAN]

\* The threads that have looked at the switch and not finished.
Busy == {w \in Worker : doing[w] # "idle"}
Switched ==
    /\ killed \in BOOLEAN /\ sinceKill \in Nat
    /\ IF killed THEN sinceKill + Cardinality(Busy) <= Cardinality(Worker) ELSE sinceKill = 0

GateIInv ==
    /\ GateTypeOK
    /\ recorded \in Seq(Call)
    /\ \A i, j \in DOMAIN recorded : i < j => recorded[j].age <= recorded[i].age
    /\ Switched
    /\ \E by, place : Owned(by, place)

\* The state of the cap, in the terms the proofs use.
LEMMA GateFacts ==
    ASSUME GateIInv
    PROVE  /\ Len(hits) \in Nat /\ Len(hits) <= Limit /\ DOMAIN hits = 1 .. Len(hits)
           /\ \A k \in 1 .. Len(hits) : hits[k] \in 0 .. MaxStamp
           /\ Len(recorded) \in Nat /\ DOMAIN recorded = 1 .. Len(recorded)
           /\ \A i \in DOMAIN recorded : recorded[i].age \in 0 .. Span /\ recorded[i].late \in BOOLEAN
           /\ \A i, j \in DOMAIN recorded : i < j => recorded[j].age <= recorded[i].age
           /\ \A w \in Worker : wait[w] \in 0 .. MaxWait
           /\ MaxStamp \in Nat /\ MaxStamp = Span + MaxWait + 1
           /\ Span \in Nat /\ MaxWait \in Nat /\ Limit \in Nat
<1>1. hits \in Seq(0 .. MaxStamp) /\ recorded \in Seq(Call) /\ Len(hits) <= Limit
      /\ wait \in [Worker -> 0 .. MaxWait]
  BY DEF GateIInv, GateTypeOK
<1>2. Len(hits) \in Nat /\ DOMAIN hits = 1 .. Len(hits) /\ \A k \in 1 .. Len(hits) : hits[k] \in 0 .. MaxStamp
  BY <1>1, LenProperties
<1>3. Len(recorded) \in Nat /\ DOMAIN recorded = 1 .. Len(recorded)
      /\ \A i \in 1 .. Len(recorded) : recorded[i] \in Call
  BY <1>1, LenProperties
<1>4. \A i \in DOMAIN recorded : recorded[i].age \in 0 .. Span /\ recorded[i].late \in BOOLEAN
  BY <1>3 DEF Call
<1>5. \A i, j \in DOMAIN recorded : i < j => recorded[j].age <= recorded[i].age
  BY DEF GateIInv
<1> QED
  BY <1>1, <1>2, <1>3, <1>4, <1>5, GateAssumption DEF MaxStamp

\* A thread that comes to the cap has just read the clock: what the calls of the
\* window own does not change.
LEMMA GateQuiet ==
    ASSUME GateIInv, NEW by, NEW place, Owned(by, place), hits' = hits, recorded' = recorded,
           \A w \in Worker : doing'[w] = "cap" => wait'[w] = 0 \/ (doing[w] = "cap" /\ wait'[w] = wait[w])
    PROVE  Owned(by, place)'
<1>1. \A i \in DOMAIN recorded : by[i] \in Worker
  BY DEF Owned
<1>2. \A i \in DOMAIN recorded : doing'[by[i]] = "cap" => wait'[by[i]] <= recorded[i].age
  BY <1>1, GateFacts DEF Owned
<1> QED
  BY <1>2 DEF Owned

\* What is old for a clock reading leaves the deque; a stamp somebody needs stays.
LEMMA Trimming ==
    ASSUME GateIInv, NEW by, NEW place, Owned(by, place), NEW late \in 0 .. MaxWait
    PROVE  /\ Live(hits, late) \in Seq(0 .. MaxStamp)
           /\ Len(Live(hits, late)) \in Nat /\ Len(Live(hits, late)) <= Len(hits)
           /\ \E kept \in [DOMAIN recorded -> 0 .. Len(Live(hits, late))] :
                 /\ \A i \in DOMAIN recorded :
                       ~recorded[i].late => kept[i] # 0 /\ Live(hits, late)[kept[i]] <= recorded[i].age
                 /\ \A i, j \in DOMAIN recorded : kept[i] = kept[j] /\ kept[i] # 0 => i = j
                 /\ \A i, j \in DOMAIN recorded :
                       i < j /\ by[i] = by[j] => kept[j] # 0 /\ Live(hits, late)[kept[j]] <= recorded[i].age
<1> DEFINE K == {k \in DOMAIN hits : hits[k] - late <= Span}
<1>1. hits \in Seq(0 .. MaxStamp) /\ K \in SUBSET DOMAIN hits
  BY DEF GateIInv, GateTypeOK
<1>2. Live(hits, late) = FromFirst(hits, K)
  BY DEF Live, FromFirst
<1>3. FromFirst(hits, K) \in Seq(0 .. MaxStamp)
  BY <1>1, Suffix
<1>4. PICK d \in 0 .. Len(hits) :
         /\ Len(FromFirst(hits, K)) = Len(hits) - d
         /\ \A k \in 1 .. Len(hits) - d : FromFirst(hits, K)[k] = hits[k + d]
         /\ \A k \in K : k > d
  BY <1>1, Suffix
<1>5. PICK live : live = Live(hits, late)
  OBVIOUS
<1>6. PICK kept : kept = [i \in DOMAIN recorded |-> IF place[i] > d THEN place[i] - d ELSE 0]
  OBVIOUS
<1>7. /\ Len(hits) \in Nat /\ DOMAIN hits = 1 .. Len(hits) /\ Len(live) = Len(hits) - d
      /\ \A k \in 1 .. Len(hits) : hits[k] \in Nat /\ (hits[k] - late <= Span => k > d)
      /\ \A k \in 1 .. Len(hits) - d : live[k] = hits[k + d]
      /\ late \in Nat /\ Span \in Nat /\ d \in Nat /\ d <= Len(hits)
  <2>1. /\ Len(hits) \in Nat /\ DOMAIN hits = 1 .. Len(hits) /\ late \in Nat /\ Span \in Nat
        /\ \A k \in 1 .. Len(hits) : hits[k] \in Nat
    BY GateFacts
  <2>2. \A k \in 1 .. Len(hits) : hits[k] - late <= Span => k \in K
    BY <2>1
  <2>3. \A k \in 1 .. Len(hits) : hits[k] - late <= Span => k > d
    BY <1>4, <2>2
  <2>4. Len(live) = Len(hits) - d /\ \A k \in 1 .. Len(hits) - d : live[k] = hits[k + d]
    BY <1>2, <1>4, <1>5
  <2>5. d \in Nat /\ d <= Len(hits)
    BY <2>1
  <2> QED
    BY <2>1, <2>3, <2>4, <2>5
<1>8. \A i \in DOMAIN recorded : /\ place[i] \in 0 .. Len(hits)
                                 /\ kept[i] = IF place[i] > d THEN place[i] - d ELSE 0
                                 /\ recorded[i].age \in 0 .. Span
  BY <1>6, GateFacts DEF Owned
<1> HIDE DEF K
<1>9. kept \in [DOMAIN recorded -> 0 .. Len(live)]
  <2>1. \A i \in DOMAIN recorded : kept[i] \in 0 .. Len(live)
    BY <1>7, <1>8
  <2> QED
    BY <1>6, <2>1
<1>10. \A i, j \in DOMAIN recorded :
          place[j] # 0 /\ hits[place[j]] <= recorded[i].age => kept[j] # 0 /\ live[kept[j]] = hits[place[j]]
  <2> SUFFICES ASSUME NEW i \in DOMAIN recorded, NEW j \in DOMAIN recorded,
                      place[j] # 0, hits[place[j]] <= recorded[i].age
               PROVE  kept[j] # 0 /\ live[kept[j]] = hits[place[j]]
    OBVIOUS
  <2>1. place[j] \in 1 .. Len(hits) /\ hits[place[j]] \in Nat /\ hits[place[j]] <= Span
    BY <1>7, <1>8
  <2>2. hits[place[j]] - late <= Span
    BY <1>7, <2>1
  <2>3. place[j] > d /\ place[j] \in Nat
    BY <1>7, <2>1, <2>2
  <2>4. kept[j] = place[j] - d /\ kept[j] \in 1 .. Len(hits) - d /\ kept[j] + d = place[j]
    BY <1>7, <1>8, <2>1, <2>3
  <2> QED
    BY <1>7, <2>4
<1>11. \A i \in DOMAIN recorded : ~recorded[i].late => kept[i] # 0 /\ live[kept[i]] <= recorded[i].age
  BY <1>10 DEF Owned
<1>12. \A i, j \in DOMAIN recorded : kept[i] = kept[j] /\ kept[i] # 0 => i = j
  <2>1. \A i, j \in DOMAIN recorded : kept[i] = kept[j] /\ kept[i] # 0 => place[i] = place[j] /\ place[i] # 0
    BY <1>7, <1>8
  <2> QED
    BY <2>1 DEF Owned
<1>13. \A i, j \in DOMAIN recorded :
          i < j /\ by[i] = by[j] => kept[j] # 0 /\ live[kept[j]] <= recorded[i].age
  BY <1>10 DEF Owned
<1>14. live \in Seq(0 .. MaxStamp) /\ Len(live) \in Nat /\ Len(live) <= Len(hits)
  BY <1>2, <1>3, <1>5, <1>7
<1> QED
  BY <1>5, <1>9, <1>11, <1>12, <1>13, <1>14

\* Blocked, or let through and recorded last.
LEMMA Capping ==
    ASSUME GateIInv, NEW w \in Worker, CheckAndRecord(w)
    PROVE  GateIInv'
<1> DEFINE live == Live(hits, wait[w])
<1>1. /\ doing[w] = "cap" /\ killed' = killed /\ sinceKill' = sinceKill
      /\ wait' = [wait EXCEPT ![w] = 0]
      /\ \/ Len(live) >= Limit /\ doing' = [doing EXCEPT ![w] = "idle"] /\ recorded' = recorded /\ hits' = live
         \/ /\ ~(Len(live) >= Limit) /\ doing' = [doing EXCEPT ![w] = "run"]
            /\ hits' = Append(live, wait[w])
            /\ recorded' = Append(recorded, [age |-> 0, late |-> wait[w] > 0])
  BY Zenon DEF CheckAndRecord, Does
<1>2. PICK by, place : Owned(by, place)
  BY DEF GateIInv
<1>3. wait[w] \in 0 .. MaxWait /\ wait[w] \in 0 .. MaxStamp /\ wait[w] \in Nat
  BY GateFacts
<1>4. PICK late \in 0 .. MaxWait : late = wait[w]
  BY <1>3
<1>5. /\ live \in Seq(0 .. MaxStamp) /\ Len(live) \in Nat /\ Len(live) <= Len(hits) /\ Len(live) <= Limit
      /\ \E kept \in [DOMAIN recorded -> 0 .. Len(live)] :
            /\ \A i \in DOMAIN recorded :
                  ~recorded[i].late => kept[i] # 0 /\ live[kept[i]] <= recorded[i].age
            /\ \A i, j \in DOMAIN recorded : kept[i] = kept[j] /\ kept[i] # 0 => i = j
            /\ \A i, j \in DOMAIN recorded :
                  i < j /\ by[i] = by[j] => kept[j] # 0 /\ live[kept[j]] <= recorded[i].age
  <2>1. /\ Live(hits, late) \in Seq(0 .. MaxStamp)
        /\ Len(Live(hits, late)) \in Nat /\ Len(Live(hits, late)) <= Len(hits)
        /\ \E kept \in [DOMAIN recorded -> 0 .. Len(Live(hits, late))] :
              /\ \A i \in DOMAIN recorded :
                    ~recorded[i].late => kept[i] # 0 /\ Live(hits, late)[kept[i]] <= recorded[i].age
              /\ \A i, j \in DOMAIN recorded : kept[i] = kept[j] /\ kept[i] # 0 => i = j
              /\ \A i, j \in DOMAIN recorded :
                    i < j /\ by[i] = by[j] => kept[j] # 0 /\ Live(hits, late)[kept[j]] <= recorded[i].age
    BY <1>2, Trimming
  <2>2. Live(hits, late) = live
    BY <1>4
  <2> HIDE DEF live
  <2>3. Len(hits) \in Nat /\ Len(hits) <= Limit /\ Limit \in Nat
    BY GateFacts
  <2>4. Len(live) \in Nat /\ Len(live) <= Len(hits) /\ live \in Seq(0 .. MaxStamp)
    BY <2>1, <2>2
  <2>5. Len(live) <= Limit
    BY <2>3, <2>4
  <2> QED
    BY <2>1, <2>2, <2>4, <2>5
<1> HIDE DEF live
<1>6. PICK kept \in [DOMAIN recorded -> 0 .. Len(live)] :
         /\ \A i \in DOMAIN recorded :
               ~recorded[i].late => kept[i] # 0 /\ live[kept[i]] <= recorded[i].age
         /\ \A i, j \in DOMAIN recorded : kept[i] = kept[j] /\ kept[i] # 0 => i = j
         /\ \A i, j \in DOMAIN recorded :
               i < j /\ by[i] = by[j] => kept[j] # 0 /\ live[kept[j]] <= recorded[i].age
  BY <1>5
<1>7. doing \in [Worker -> {"idle", "cap", "run"}] /\ wait \in [Worker -> 0 .. MaxWait]
  BY DEF GateIInv, GateTypeOK
<1>8. /\ doing' \in [Worker -> {"idle", "cap", "run"}] /\ wait' \in [Worker -> 0 .. MaxWait]
      /\ doing'[w] # "cap" /\ \A v \in Worker : v # w => doing'[v] = doing[v] /\ wait'[v] = wait[v]
  <2>1. 0 \in 0 .. MaxWait
    BY GateFacts
  <2> QED
    BY <1>1, <1>7, <2>1
<1>9. by \in [DOMAIN recorded -> Worker]
      /\ \A i \in DOMAIN recorded : doing[by[i]] = "cap" => wait[by[i]] <= recorded[i].age
  BY <1>2 DEF Owned
<1>10. Switched'
  <2>1. Busy' \subseteq Busy
    BY <1>1, <1>8 DEF Busy
  <2>2. Cardinality(Busy') \in Nat /\ Cardinality(Busy) \in Nat /\ Cardinality(Busy') <= Cardinality(Busy)
        /\ Cardinality(Worker) \in Nat
    <3>1. IsFiniteSet(Worker) /\ IsFiniteSet(Busy)
      BY GateAssumption, FS_Subset DEF Busy
    <3> QED
      BY <2>1, <3>1, FS_Subset, FS_CardinalityType
  <2>3. killed \in BOOLEAN /\ sinceKill \in Nat
        /\ IF killed THEN sinceKill + Cardinality(Busy) <= Cardinality(Worker) ELSE sinceKill = 0
    BY DEF GateIInv, Switched
  <2>4. killed' \in BOOLEAN /\ sinceKill' \in Nat
    BY <1>1, <2>3
  <2>5. IF killed' THEN sinceKill' + Cardinality(Busy') <= Cardinality(Worker) ELSE sinceKill' = 0
    BY <1>1, <2>2, <2>3
  <2> QED
    BY <2>4, <2>5 DEF Switched
<1>11. CASE Len(live) >= Limit
  <2>1. recorded' = recorded /\ hits' = live
    BY <1>1, <1>11
  <2>2. \A i \in DOMAIN recorded : doing'[by[i]] = "cap" => wait'[by[i]] <= recorded[i].age
    BY <1>8, <1>9
  <2>3. Owned(by, kept)'
    BY <1>6, <1>9, <2>1, <2>2 DEF Owned
  <2>4. GateTypeOK'
    <3>1. killed' \in BOOLEAN
      BY <1>10 DEF Switched
    <3> QED
      BY <1>5, <1>8, <2>1, <3>1 DEF GateTypeOK, MaxStamp
  <2> QED
    BY <1>10, <2>1, <2>3, <2>4 DEF GateIInv, Call
<1>12. CASE ~(Len(live) >= Limit)
  <2> DEFINE n == Len(recorded) + 1
             new == [age |-> 0, late |-> wait[w] > 0]
  <2>1. hits' = Append(live, wait[w]) /\ recorded' = Append(recorded, new)
    BY <1>1, <1>12
  <2>2. new \in Call /\ new.age = 0 /\ new.late = (wait[w] > 0)
    BY GateFacts DEF Call
  <2> HIDE DEF new
  <2>3. /\ recorded' \in Seq(Call) /\ Len(recorded) \in Nat /\ DOMAIN recorded = 1 .. Len(recorded)
        /\ DOMAIN recorded' = 1 .. n /\ recorded'[n] = new
        /\ \A i \in 1 .. Len(recorded) : recorded'[i] = recorded[i]
    BY <2>1, <2>2 DEF GateIInv
  <2>4. /\ hits' \in Seq(0 .. MaxStamp) /\ Len(hits') = Len(live) + 1
        /\ hits'[Len(live) + 1] = wait[w] /\ \A k \in 1 .. Len(live) : hits'[k] = live[k]
    BY <1>3, <1>5, <2>1
  <2>5. Len(hits') <= Limit
    BY <1>5, <1>12, <2>4, GateFacts
  <2>6. PICK by2 : by2 = [i \in DOMAIN recorded' |-> IF i = n THEN w ELSE by[i]]
    OBVIOUS
  <2>7. PICK l : l = Len(live)
    OBVIOUS
  <2>8. PICK place2 : place2 = [i \in DOMAIN recorded' |-> IF i = n THEN l + 1 ELSE kept[i]]
    OBVIOUS
  <2>9. \A i \in DOMAIN recorded' : i # n =>
           i \in DOMAIN recorded /\ by2[i] = by[i] /\ place2[i] = kept[i] /\ recorded'[i] = recorded[i]
    BY <2>3, <2>6, <2>8
  <2>10. n \in DOMAIN recorded' /\ by2[n] = w /\ place2[n] = l + 1 /\ hits'[place2[n]] = wait[w]
         /\ recorded'[n].age = 0 /\ recorded'[n].late = (wait[w] > 0)
    BY <2>2, <2>3, <2>4, <2>6, <2>7, <2>8
  <2>11. /\ \A i \in DOMAIN recorded : kept[i] \in 0 .. l
         /\ \A i \in DOMAIN recorded : kept[i] # 0 => hits'[kept[i]] = live[kept[i]]
         /\ l \in Nat
    BY <1>5, <1>6, <2>4, <2>7
  <2>12. Owned(by2, place2)'
    <3>1. by2 \in [DOMAIN recorded' -> Worker] /\ place2 \in [DOMAIN recorded' -> 0 .. Len(hits')]
      <4>1. \A i \in DOMAIN recorded' : by2[i] \in Worker /\ place2[i] \in 0 .. Len(hits')
        BY <1>9, <2>4, <2>7, <2>9, <2>10, <2>11
      <4> QED
        BY <2>6, <2>8, <4>1
    <3>2. \A i \in DOMAIN recorded' :
             ~recorded'[i].late => place2[i] # 0 /\ hits'[place2[i]] <= recorded'[i].age
      <4>1. ~recorded'[n].late => place2[n] # 0 /\ hits'[place2[n]] <= recorded'[n].age
        <5>1. ~recorded'[n].late => ~(wait[w] > 0)
          BY <2>10, Zenon
        <5>2. ~(wait[w] > 0) => wait[w] <= 0
          BY <1>3
        <5>3. place2[n] # 0
          BY <2>10, <2>11
        <5>4. hits'[place2[n]] = wait[w] /\ recorded'[n].age = 0
          BY <2>10
        <5> QED
          BY <5>1, <5>2, <5>3, <5>4
      <4>2. \A i \in DOMAIN recorded :
               ~recorded[i].late => kept[i] # 0 /\ hits'[kept[i]] <= recorded[i].age
        BY <1>6, <2>11
      <4> QED
        BY <2>9, <4>1, <4>2
    <3>3. \A i, j \in DOMAIN recorded' : place2[i] = place2[j] /\ place2[i] # 0 => i = j
      BY <1>6, <2>9, <2>10, <2>11
    <3>4. \A i, j \in DOMAIN recorded' :
             i < j /\ by2[i] = by2[j] => place2[j] # 0 /\ hits'[place2[j]] <= recorded'[i].age
      <4> SUFFICES ASSUME NEW i \in DOMAIN recorded', NEW j \in DOMAIN recorded', i < j, by2[i] = by2[j]
                   PROVE  place2[j] # 0 /\ hits'[place2[j]] <= recorded'[i].age
        OBVIOUS
      <4>1. i \in DOMAIN recorded /\ i # n
        BY <2>3
      <4>2. CASE j = n
        BY <1>1, <1>9, <2>9, <2>10, <2>11, <4>1, <4>2
      <4>3. CASE j # n
        <5>1. j \in DOMAIN recorded /\ by[i] = by[j] /\ place2[j] = kept[j] /\ recorded'[i] = recorded[i]
          BY <2>9, <4>1, <4>3
        <5>2. kept[j] # 0 /\ live[kept[j]] <= recorded[i].age
          BY <1>6, <4>1, <5>1
        <5>3. hits'[kept[j]] = live[kept[j]]
          BY <2>11, <5>1, <5>2
        <5> QED
          BY <5>1, <5>2, <5>3
      <4> QED
        BY <4>2, <4>3
    <3>5. \A i \in DOMAIN recorded' : doing'[by2[i]] = "cap" => wait'[by2[i]] <= recorded'[i].age
      <4>1. doing'[by2[n]] # "cap"
        BY <1>8, <2>10
      <4>2. \A i \in DOMAIN recorded : doing'[by[i]] = "cap" => wait'[by[i]] <= recorded[i].age
        BY <1>8, <1>9
      <4> QED
        BY <2>9, <4>1, <4>2
    <3> QED
      BY <3>1, <3>2, <3>3, <3>4, <3>5 DEF Owned
  <2>13. GateTypeOK'
    <3>1. killed' \in BOOLEAN
      BY <1>10 DEF Switched
    <3> QED
      BY <1>8, <2>4, <2>5, <3>1 DEF GateTypeOK, MaxStamp
  <2>14. \A i, j \in DOMAIN recorded' : i < j => recorded'[j].age <= recorded'[i].age
    <3>1. \A i \in DOMAIN recorded : recorded'[i].age = recorded[i].age /\ recorded[i].age \in Nat
      BY <2>3, GateFacts
    <3>2. \A i, j \in DOMAIN recorded : i < j => recorded[j].age <= recorded[i].age
      BY GateFacts
    <3>3. \A i \in DOMAIN recorded' : i # n => i \in DOMAIN recorded
      BY <2>9
    <3>4. \A i \in DOMAIN recorded' : ~(n < i)
      BY <2>3
    <3> QED
      BY <2>10, <3>1, <3>2, <3>3, <3>4
  <2> QED
    BY <1>10, <2>3, <2>12, <2>13, <2>14 DEF GateIInv, Call
<1> QED
  BY <1>11, <1>12

\* All ages go up alike, and the oldest calls leave the window.
LEMMA GateAges ==
    ASSUME GateIInv, GateTick
    PROVE  GateIInv'
<1> DEFINE aged == [i \in DOMAIN recorded |-> [recorded[i] EXCEPT !.age = @ + 1]]
           young == {i \in DOMAIN aged : aged[i].age <= Span}
           Aged == [age : 0 .. Span + 1, late : BOOLEAN]
<1>1. /\ recorded' = InSpan(aged) /\ doing' = doing /\ killed' = killed /\ sinceKill' = sinceKill
      /\ wait' = [w \in Worker |-> IF doing[w] = "cap" THEN wait[w] + 1 ELSE 0]
      /\ hits' = [i \in DOMAIN hits |-> IF hits[i] < MaxStamp THEN hits[i] + 1 ELSE MaxStamp]
      /\ \A w \in Worker : wait[w] < MaxWait
  BY DEF GateTick
<1>2. \A i \in DOMAIN recorded :
         aged[i] \in Aged /\ aged[i].age = recorded[i].age + 1 /\ aged[i].late = recorded[i].late
  <2> SUFFICES ASSUME NEW i \in DOMAIN recorded
               PROVE  aged[i] \in Aged /\ aged[i].age = recorded[i].age + 1 /\ aged[i].late = recorded[i].late
    OBVIOUS
  <2>1. recorded[i] \in Call
    BY LenProperties DEF GateIInv
  <2>2. recorded[i].age \in Nat /\ recorded[i].age + 1 \in 0 .. Span + 1
    BY GateFacts
  <2> QED
    BY <2>1, <2>2 DEF Call
<1>3. DOMAIN aged = DOMAIN recorded
  OBVIOUS
<1>4. aged \in Seq(Aged) /\ Len(aged) = Len(recorded)
  <2>1. DOMAIN recorded = 1 .. Len(recorded) /\ Len(recorded) \in Nat
    BY GateFacts
  <2>2. aged \in [1 .. Len(recorded) -> Aged]
    BY <1>2, <2>1
  <2> HIDE DEF aged, Aged
  <2> QED
    BY <2>1, <2>2, SeqDef, LenProperties
<1>5. recorded' = FromFirst(aged, young)
  BY <1>1 DEF InSpan, FromFirst
<1> HIDE DEF aged, Aged
<1>6. young \in SUBSET DOMAIN aged
  OBVIOUS
<1>7. recorded' \in Seq(Aged)
  BY <1>4, <1>5, <1>6, Suffix
<1>8. PICK d \in 0 .. Len(recorded) :
         /\ Len(recorded') = Len(recorded) - d
         /\ \A k \in 1 .. Len(recorded) - d : recorded'[k] = aged[k + d]
         /\ d < Len(recorded) => d + 1 \in young
  <2>1. PICK a \in Seq(Aged) : a = aged
    BY <1>4
  <2>2. PICK K \in SUBSET DOMAIN a : K = young
    BY <1>6, <2>1
  <2> HIDE DEF young
  <2>3. PICK d \in 0 .. Len(a) :
           /\ Len(FromFirst(a, K)) = Len(a) - d
           /\ \A k \in 1 .. Len(a) - d : FromFirst(a, K)[k] = a[k + d]
           /\ d < Len(a) => d + 1 \in K
    BY Suffix
  <2>4. Len(a) = Len(recorded) /\ recorded' = FromFirst(a, K)
    BY <1>4, <1>5, <2>1, <2>2
  <2> QED
    BY <2>1, <2>2, <2>3, <2>4
<1>9. Len(recorded) \in Nat /\ DOMAIN recorded = 1 .. Len(recorded) /\ d \in Nat
  BY GateFacts
<1>10. DOMAIN recorded' = 1 .. Len(recorded) - d
  BY <1>7, <1>8, LenProperties
<1>11. \A k \in DOMAIN recorded' :
          /\ k \in Nat /\ k + d \in DOMAIN recorded /\ d + 1 <= k + d /\ d < Len(recorded)
          /\ recorded'[k].age = recorded[k + d].age + 1 /\ recorded'[k].late = recorded[k + d].late
  <2> SUFFICES ASSUME NEW k \in DOMAIN recorded'
               PROVE  /\ k \in Nat /\ k + d \in DOMAIN recorded /\ d + 1 <= k + d /\ d < Len(recorded)
                      /\ recorded'[k].age = recorded[k + d].age + 1 /\ recorded'[k].late = recorded[k + d].late
    OBVIOUS
  <2>1. k \in 1 .. Len(recorded) - d
    BY <1>10
  <2>2. k \in Nat /\ k + d \in DOMAIN recorded /\ d + 1 <= k + d /\ d < Len(recorded)
    BY <1>9, <2>1
  <2>3. recorded'[k] = aged[k + d]
    BY <1>8, <2>1
  <2> QED
    BY <1>2, <2>2, <2>3
<1>12. \A i, j \in DOMAIN recorded : i < j => recorded[j].age <= recorded[i].age
  BY GateFacts
<1>13. \A i \in DOMAIN recorded : recorded[i].age \in Nat /\ recorded[i].age <= Span /\ Span \in Nat
  BY GateFacts
<1>14. \A k \in DOMAIN recorded' : recorded'[k] \in Call
  <2> SUFFICES ASSUME NEW k \in DOMAIN recorded' PROVE recorded'[k] \in Call
    OBVIOUS
  <2>1. d + 1 \in young
    BY <1>8, <1>11
  <2>2. d + 1 \in DOMAIN recorded /\ recorded[d + 1].age + 1 <= Span
    BY <1>2, <1>3, <2>1
  <2>3. recorded[k + d].age <= recorded[d + 1].age
    <3>1. CASE d + 1 < k + d
      BY <1>11, <1>12, <2>2, <3>1
    <3>2. CASE d + 1 = k + d
      BY <1>13, <2>2, <3>2
    <3> QED
      BY <1>9, <1>11, <3>1, <3>2
  <2>4. recorded'[k].age \in 0 .. Span
    <3>1. recorded[k + d].age \in Nat /\ recorded[d + 1].age \in Nat /\ Span \in Nat
      BY <1>11, <1>13, <2>2
    <3> QED
      BY <1>11, <2>2, <2>3, <3>1
  <2>5. recorded'[k] \in Aged
    BY <1>7, LenProperties
  <2> QED
    BY <2>4, <2>5 DEF Aged, Call
<1>15. recorded' \in Seq(Call)
  <2>1. Len(recorded') \in Nat /\ recorded' \in [1 .. Len(recorded') -> Aged] /\ DOMAIN recorded' = 1 .. Len(recorded')
    BY <1>7, LenProperties
  <2>2. recorded' \in [1 .. Len(recorded') -> Call]
    BY <1>14, <2>1
  <2> QED
    BY <2>1, <2>2, SeqDef
<1>16. \A i, j \in DOMAIN recorded' : i < j => recorded'[j].age <= recorded'[i].age
  <2> SUFFICES ASSUME NEW i \in DOMAIN recorded', NEW j \in DOMAIN recorded', i < j
               PROVE  recorded'[j].age <= recorded'[i].age
    OBVIOUS
  <2>1. i + d < j + d /\ i + d \in DOMAIN recorded /\ j + d \in DOMAIN recorded
    BY <1>9, <1>11
  <2>2. recorded[j + d].age <= recorded[i + d].age
    BY <1>12, <2>1
  <2> QED
    BY <1>11, <1>13, <2>1, <2>2
<1>17. /\ Len(hits) \in Nat /\ DOMAIN hits = 1 .. Len(hits) /\ Len(hits) <= Limit
       /\ \A k \in 1 .. Len(hits) : hits[k] \in 0 .. MaxStamp
       /\ MaxStamp \in Nat
  BY GateFacts
<1>18. /\ \A k \in 1 .. Len(hits) : hits'[k] \in 0 .. MaxStamp /\ hits'[k] <= hits[k] + 1
       /\ hits' \in Seq(0 .. MaxStamp) /\ Len(hits') = Len(hits)
  <2>1. \A k \in 1 .. Len(hits) : hits'[k] \in 0 .. MaxStamp /\ hits'[k] <= hits[k] + 1
    BY <1>1, <1>17
  <2>2. hits' \in [1 .. Len(hits) -> 0 .. MaxStamp]
    BY <1>1, <1>17, <2>1
  <2>3. hits' \in Seq(0 .. MaxStamp)
    BY <1>17, <2>2, SeqDef
  <2> QED
    BY <1>17, <2>1, <2>2, <2>3, LenProperties
<1>19. wait' \in [Worker -> 0 .. MaxWait]
       /\ \A w \in Worker : doing[w] = "cap" => wait'[w] = wait[w] + 1 /\ wait[w] \in Nat
  BY <1>1, GateFacts
<1>20. \E by, place : Owned(by, place)'
  <2>1. PICK by, place : Owned(by, place)
    BY DEF GateIInv
  <2>2. PICK by2 : by2 = [i \in DOMAIN recorded' |-> by[i + d]]
    OBVIOUS
  <2>3. PICK place2 : place2 = [i \in DOMAIN recorded' |-> place[i + d]]
    OBVIOUS
  <2>4. \A i \in DOMAIN recorded' : /\ i + d \in DOMAIN recorded /\ by2[i] = by[i + d] /\ place2[i] = place[i + d]
                                    /\ by[i + d] \in Worker /\ place[i + d] \in 0 .. Len(hits)
    BY <1>11, <2>1, <2>2, <2>3 DEF Owned
  <2>5. \A i, j \in DOMAIN recorded' :
           place2[j] # 0 /\ hits[place2[j]] <= recorded[i + d].age => hits'[place2[j]] <= recorded'[i].age
    <3> SUFFICES ASSUME NEW i \in DOMAIN recorded', NEW j \in DOMAIN recorded', place2[j] # 0,
                        hits[place2[j]] <= recorded[i + d].age
                 PROVE  hits'[place2[j]] <= recorded'[i].age
      OBVIOUS
    <3>1. place2[j] \in 1 .. Len(hits)
      BY <1>17, <2>4
    <3>2. hits'[place2[j]] <= hits[place2[j]] + 1 /\ hits[place2[j]] \in Nat /\ hits'[place2[j]] \in Nat
      BY <1>17, <1>18, <3>1
    <3>3. recorded'[i].age = recorded[i + d].age + 1 /\ recorded[i + d].age \in Nat
      BY <1>11, <1>13
    <3> QED
      BY <3>2, <3>3
  <2>6. by2 \in [DOMAIN recorded' -> Worker] /\ place2 \in [DOMAIN recorded' -> 0 .. Len(hits')]
    BY <1>18, <2>2, <2>3, <2>4
  <2>7. \A i \in DOMAIN recorded' :
           ~recorded'[i].late => place2[i] # 0 /\ hits'[place2[i]] <= recorded'[i].age
    BY <1>11, <2>1, <2>4, <2>5 DEF Owned
  <2>8. \A i, j \in DOMAIN recorded' : place2[i] = place2[j] /\ place2[i] # 0 => i = j
    <3>1. \A i, j \in DOMAIN recorded' : place2[i] = place2[j] /\ place2[i] # 0 => i + d = j + d
      BY <2>1, <2>4 DEF Owned
    <3> QED
      BY <1>9, <1>11, <3>1
  <2>9. \A i, j \in DOMAIN recorded' :
           i < j /\ by2[i] = by2[j] => place2[j] # 0 /\ hits'[place2[j]] <= recorded'[i].age
    <3>1. \A i, j \in DOMAIN recorded' : i < j => i + d < j + d
      BY <1>9, <1>11
    <3> QED
      BY <2>1, <2>4, <2>5, <3>1 DEF Owned
  <2>10. \A i \in DOMAIN recorded' : doing'[by2[i]] = "cap" => wait'[by2[i]] <= recorded'[i].age
    <3>1. \A i \in DOMAIN recorded' : doing[by[i + d]] = "cap" => wait[by[i + d]] <= recorded[i + d].age
      BY <2>1, <2>4 DEF Owned
    <3> QED
      BY <1>1, <1>11, <1>13, <1>19, <2>4, <3>1
  <2> QED
    BY <2>6, <2>7, <2>8, <2>9, <2>10 DEF Owned
<1>21. GateTypeOK' /\ Switched'
  <2>1. doing' = doing /\ killed' = killed /\ sinceKill' = sinceKill
    BY <1>1
  <2> QED
    BY <1>17, <1>18, <1>19, <2>1 DEF GateIInv, GateTypeOK, Switched, Busy, MaxStamp
<1> QED
  BY <1>15, <1>16, <1>20, <1>21 DEF GateIInv, Call

\* The busy threads are counted.
LEMMA BusyCount ==
           /\ IsFiniteSet(Busy) /\ Cardinality(Busy) \in Nat /\ Cardinality(Worker) \in Nat
           /\ Cardinality(Busy) <= Cardinality(Worker)
           /\ \A w \in Busy : Cardinality(Busy \ {w}) = Cardinality(Busy) - 1
<1>1. IsFiniteSet(Worker) /\ Busy \in SUBSET Worker
  BY GateAssumption DEF Busy
<1>2. IsFiniteSet(Busy) /\ Cardinality(Busy) <= Cardinality(Worker)
  BY <1>1, FS_Subset
<1> QED
  BY <1>1, <1>2, FS_CardinalityType, FS_RemoveElement

\* The switch, the approval and the run: the cap is not their business.
LEMMA GateOthers ==
    ASSUME GateIInv,
           \/ \E w \in Worker : Run(w) \/ NotApproved(w) \/ \E capped \in BOOLEAN : Dispatch(w, capped)
           \/ \E on \in BOOLEAN : SetKillSwitch(on)
           \/ UNCHANGED gateVars
    PROVE  GateIInv'
<1>1. hits' = hits /\ recorded' = recorded
  BY DEF Run, NotApproved, Dispatch, SetKillSwitch, gateVars
<1>2. doing \in [Worker -> {"idle", "cap", "run"}] /\ wait \in [Worker -> 0 .. MaxWait] /\ 0 \in 0 .. MaxWait
  BY GateAssumption DEF GateIInv, GateTypeOK
<1>3. /\ doing' \in [Worker -> {"idle", "cap", "run"}] /\ wait' \in [Worker -> 0 .. MaxWait]
      /\ \A w \in Worker : doing'[w] = "cap" => wait'[w] = 0 \/ (doing[w] = "cap" /\ wait'[w] = wait[w])
  <2>1. ASSUME NEW w \in Worker, NEW what \in {"idle", "cap", "run"}, Does(w, what) PROVE <1>3!:
    <3>1. /\ doing' = [doing EXCEPT ![w] = what] /\ wait' = [wait EXCEPT ![w] = 0]
      BY <2>1 DEF Does
    <3> QED
      BY <1>2, <3>1
  <2>2. CASE doing' = doing /\ wait' = wait
    BY <1>2, <2>2
  <2>3. ASSUME NEW w \in Worker, NEW capped \in BOOLEAN, Dispatch(w, capped) PROVE <1>3!:
    <3>1. Does(w, "cap") \/ Does(w, "run")
      BY <2>3 DEF Dispatch
    <3> QED
      BY <2>1, <3>1
  <2>4. ASSUME NEW w \in Worker, Run(w) \/ NotApproved(w) PROVE <1>3!:
    <3>1. Does(w, "idle")
      BY <2>4 DEF Run, NotApproved
    <3> QED
      BY <2>1, <3>1
  <2>5. ASSUME NEW on \in BOOLEAN, SetKillSwitch(on) PROVE doing' = doing /\ wait' = wait
    BY <2>5 DEF SetKillSwitch
  <2>6. UNCHANGED gateVars => doing' = doing /\ wait' = wait
    BY DEF gateVars
  <2> QED
    BY <2>2, <2>3, <2>4, <2>5, <2>6
<1>4. \E by, place : Owned(by, place)'
  <2>1. PICK by, place : Owned(by, place)
    BY DEF GateIInv
  <2>2. Owned(by, place)'
    BY <1>1, <1>3, <2>1, GateQuiet
  <2> QED
    BY <2>2
<1>5. Switched'
  <2>0. killed \in BOOLEAN /\ sinceKill \in Nat
        /\ IF killed THEN sinceKill + Cardinality(Busy) <= Cardinality(Worker) ELSE sinceKill = 0
    BY DEF GateIInv, Switched
  <2>1. ASSUME NEW w \in Worker, Run(w) \/ NotApproved(w) PROVE Switched'
    <3>1. w \in Busy /\ Busy' = Busy \ {w} /\ killed' = killed
      BY <1>2, <2>1 DEF Run, NotApproved, Does, Busy
    <3>2. Cardinality(Busy') = Cardinality(Busy) - 1 /\ Cardinality(Busy) \in Nat /\ Cardinality(Worker) \in Nat
      BY <3>1, BusyCount
    <3>3. sinceKill' = sinceKill \/ sinceKill' = IF killed THEN sinceKill + 1 ELSE 0
      BY <2>1 DEF Run, NotApproved
    <3>4. sinceKill' \in Nat /\ (IF killed THEN sinceKill' + Cardinality(Busy') <= Cardinality(Worker)
                                           ELSE sinceKill' = 0)
      BY <2>0, <3>2, <3>3
    <3> QED
      BY <2>0, <3>1, <3>4 DEF Switched
  <2>2. ASSUME NEW w \in Worker, NEW capped \in BOOLEAN, Dispatch(w, capped) PROVE Switched'
    <3>1. killed' = killed /\ ~killed /\ sinceKill' = sinceKill
      BY <2>2 DEF Dispatch
    <3> QED
      BY <2>0, <3>1 DEF Switched
  <2>3. ASSUME NEW on \in BOOLEAN, SetKillSwitch(on) PROVE Switched'
    <3>1. killed' = on /\ sinceKill' = 0 /\ Busy' = Busy
      BY <2>3 DEF SetKillSwitch, Busy
    <3>2. 0 + Cardinality(Busy) <= Cardinality(Worker)
      BY BusyCount
    <3>3. killed' \in BOOLEAN
      BY <2>3, <3>1
    <3>4. sinceKill' \in Nat /\ sinceKill' + Cardinality(Busy') <= Cardinality(Worker)
      BY <3>1, <3>2
    <3> QED
      BY <3>1, <3>3, <3>4 DEF Switched
  <2>4. CASE UNCHANGED gateVars
    <3>1. killed' = killed /\ sinceKill' = sinceKill /\ Busy' = Busy
      BY <2>4 DEF gateVars, Busy
    <3> QED
      BY <2>0, <3>1 DEF Switched
  <2> QED
    BY <2>1, <2>2, <2>3, <2>4
<1>6. GateTypeOK'
  <2>1. killed' \in BOOLEAN
    BY <1>5 DEF Switched
  <2> QED
    BY <1>1, <1>3, <2>1 DEF GateIInv, GateTypeOK, MaxStamp
<1> QED
  BY <1>1, <1>4, <1>5, <1>6 DEF GateIInv, Call

\* The stamps there are, and the threads, bound the calls.
LEMMA GateCounts ==
    ASSUME GateIInv
    PROVE  GateInv
<1>0. PICK by, place : Owned(by, place)
  BY DEF GateIInv
<1>1. /\ Len(hits) \in Nat /\ Len(hits) <= Limit /\ Limit \in Nat
      /\ Len(recorded) \in Nat /\ DOMAIN recorded = 1 .. Len(recorded)
  BY GateFacts
<1>2. IsFiniteSet(1 .. Len(hits)) /\ Cardinality(1 .. Len(hits)) = Len(hits)
      /\ IsFiniteSet(DOMAIN recorded) /\ Cardinality(DOMAIN recorded) = Len(recorded)
  <2>1. 1 \in Int /\ Len(hits) \in Int /\ Len(recorded) \in Int
    BY <1>1
  <2>2. /\ IsFiniteSet(1 .. Len(hits)) /\ IsFiniteSet(1 .. Len(recorded))
        /\ Cardinality(1 .. Len(hits)) = IF 1 > Len(hits) THEN 0 ELSE Len(hits) - 1 + 1
        /\ Cardinality(1 .. Len(recorded)) = IF 1 > Len(recorded) THEN 0 ELSE Len(recorded) - 1 + 1
    BY <2>1, FS_Interval
  <2> QED
    BY <1>1, <2>2
<1> DEFINE There == {i \in DOMAIN recorded : place[i] # 0}
           Gone == {i \in DOMAIN recorded : place[i] = 0}
<1>3. \A S \in SUBSET There : IsFiniteSet(S) /\ Cardinality(S) \in Nat /\ Cardinality(S) <= Limit
  <2> SUFFICES ASSUME NEW S \in SUBSET There
               PROVE  IsFiniteSet(S) /\ Cardinality(S) \in Nat /\ Cardinality(S) <= Limit
    OBVIOUS
  <2>1. PICK f : f = [i \in S |-> place[i]]
    OBVIOUS
  <2>2. \A i \in S : f[i] = place[i] /\ f[i] \in 1 .. Len(hits)
    BY <1>0, <1>1, <2>1 DEF Owned
  <2>3. \A i, j \in S : f[i] = f[j] => i = j
    BY <1>0, <2>2 DEF Owned
  <2>4. f \in Injection(S, 1 .. Len(hits))
    BY <2>1, <2>2, <2>3 DEF Injection, IsInjective
  <2>5. IsFiniteSet(S) /\ Cardinality(S) <= Len(hits)
    BY <1>2, <2>4, FS_Injection
  <2>6. Cardinality(S) \in Nat
    BY <2>5, FS_CardinalityType
  <2> QED
    BY <1>1, <2>5, <2>6
<1>4. IsFiniteSet(Gone) /\ Cardinality(Gone) \in Nat /\ Cardinality(Gone) <= Cardinality(Worker)
      /\ Cardinality(Worker) \in Nat
  <2>1. PICK f : f = [i \in Gone |-> by[i]]
    OBVIOUS
  <2>2. \A i \in Gone : f[i] = by[i] /\ by[i] \in Worker
    BY <1>0, <2>1 DEF Owned
  <2>3. \A i, j \in Gone : f[i] = f[j] => i = j
    <3>1. \A i, j \in Gone : i < j => by[i] # by[j]
      BY <1>0 DEF Owned
    <3>2. \A i, j \in Gone : i \in Nat /\ j \in Nat /\ (i < j \/ j < i \/ i = j)
      BY <1>1
    <3> QED
      BY <2>2, <3>1, <3>2
  <2>4. f \in Injection(Gone, Worker)
    BY <2>1, <2>2, <2>3 DEF Injection, IsInjective
  <2>5. IsFiniteSet(Gone) /\ Cardinality(Gone) <= Cardinality(Worker)
    BY <2>4, GateAssumption, FS_Injection
  <2> QED
    BY <2>5, GateAssumption, FS_CardinalityType
<1>5. CapOnTime
  <2>1. {i \in DOMAIN recorded : ~recorded[i].late} \in SUBSET There
    BY <1>0 DEF Owned
  <2> HIDE DEF There
  <2> QED
    BY <1>3, <2>1 DEF CapOnTime
<1>6. CapBound
  <2>1. There \cup Gone = DOMAIN recorded /\ There \cap Gone = {} /\ There \in SUBSET There
    OBVIOUS
  <2> HIDE DEF There, Gone
  <2>2. IsFiniteSet(There) /\ Cardinality(There) \in Nat /\ Cardinality(There) <= Limit
    BY <1>3, <2>1
  <2>3. Cardinality(DOMAIN recorded) = Cardinality(There) + Cardinality(Gone) - Cardinality({})
    BY <1>4, <2>1, <2>2, FS_Union
  <2>4. Cardinality({}) = 0
    BY FS_EmptySet
  <2> QED
    BY <1>1, <1>2, <1>4, <2>2, <2>3, <2>4 DEF CapBound
<1>7. KillReachesAll
  <2>1. killed \in BOOLEAN /\ sinceKill \in Nat
        /\ IF killed THEN sinceKill + Cardinality(Busy) <= Cardinality(Worker) ELSE sinceKill = 0
    BY DEF GateIInv, Switched
  <2>2. Cardinality(Busy) \in Nat /\ Cardinality(Worker) \in Nat
    BY BusyCount
  <2> QED
    BY <2>1, <2>2 DEF KillReachesAll
<1> QED
  BY <1>5, <1>6, <1>7 DEF GateInv, GateIInv

\* No calls, no threads under way.
LEMMA GateStart ==
    ASSUME GateInit
    PROVE  GateIInv
<1>1. /\ doing = [w \in Worker |-> "idle"] /\ wait = [w \in Worker |-> 0] /\ hits = <<>>
      /\ killed = FALSE /\ recorded = <<>> /\ sinceKill = 0
  BY DEF GateInit
<1>2. GateTypeOK
  <2>1. hits \in Seq(0 .. MaxStamp) /\ Len(hits) = 0
    BY <1>1
  <2>2. killed \in BOOLEAN
    BY <1>1
  <2> QED
    BY <1>1, <2>1, <2>2, GateAssumption DEF GateTypeOK
<1>3. recorded \in Seq(Call) /\ DOMAIN recorded = {}
  BY <1>1
<1>4. Switched
  BY <1>1 DEF Switched
<1>5. Owned(recorded, recorded)
  BY <1>3 DEF Owned
<1> QED
  BY <1>2, <1>3, <1>4, <1>5 DEF GateIInv

\* However threads overlap between the clock and the lock (anomaly.py), a window
\* holds no more calls than the cap and one for each thread that was late; and
\* after the kill switch each thread finishes one dispatch at most.
THEOREM GateThm == GateInit /\ [][GateNext]_gateVars => []GateInv
<1>1. GateInit => GateIInv
  BY GateStart
<1>2. GateIInv /\ [GateNext]_gateVars => GateIInv'
  BY Capping, GateAges, GateOthers DEF GateNext, WorkerStep
<1>3. GateIInv => GateInv
  BY GateCounts
<1> QED
  BY <1>1, <1>2, <1>3, PTL

-----------------------------------------------------------------------------
(* The login limiter. *)

Verifying == {w \in Thread : at[w] = "verify"}
Failing   == {w \in Thread : at[w] = "fail"}
Others    == Cardinality(Thread) - 1

\* No lockout: up to the l-th, the guesses are forgotten ones of an earlier
\* lockout; each later one has a stamp, or its thread is on the way to stamp it.
Traced(l, by, place) ==
    /\ by \in [DOMAIN guesses -> Thread] /\ place \in [DOMAIN guesses -> 0 .. Len(fails)]
    /\ \A i \in DOMAIN guesses : i > l =>
          IF place[i] = 0 THEN at[by[i]] = "fail" /\ lag[by[i]] = guesses[i]
                          ELSE fails[place[i]] = guesses[i]
    /\ \A i, j \in DOMAIN guesses : i > l /\ j > l /\ place[i] = place[j] =>
          i = j \/ (place[i] = 0 /\ by[i] # by[j])

Open == \E l \in 0 .. Len(guesses) : l <= Others /\ \E by, place : Traced(l, by, place)

\* A lockout: the guesses after it are of threads that were checked before it.
Shut ==
    /\ \E k \in 0 .. Len(guesses) :
          /\ \A i \in 1 .. k : guesses[i] >= lockAge
          /\ Len(guesses) - k + Cardinality(Verifying) <= Others
    /\ Len(guesses) + Cardinality(Verifying) <= MaxFails + 2 * Others

LimiterIInv ==
    /\ LimiterTypeOK
    /\ guesses \in Seq(0 .. Window) /\ lockAge \in 0 .. Lockout
    /\ \A i, j \in DOMAIN guesses : i < j => guesses[j] <= guesses[i]
    /\ lockAge < Lockout - MaxLag => locked
    /\ locked => left >= Lockout - MaxLag - lockAge
    /\ IF locked THEN Shut ELSE Open

\* The state of the limiter, in the terms the proofs use.
LEMMA LimiterFacts ==
    ASSUME LimiterIInv
    PROVE  /\ fails \in Seq(0 .. MaxAge) /\ Len(fails) \in Nat /\ DOMAIN fails = 1 .. Len(fails)
           /\ \A k \in 1 .. Len(fails) : fails[k] \in 0 .. MaxAge
           /\ Len(fails) < MaxFails
           /\ Len(guesses) \in Nat /\ DOMAIN guesses = 1 .. Len(guesses)
           /\ \A i \in 1 .. Len(guesses) : guesses[i] \in 0 .. Window
           /\ at \in [Thread -> {"idle", "check", "verify", "fail", "success"}]
           /\ lag \in [Thread -> 0 .. MaxLag]
           /\ locked \in BOOLEAN /\ left \in -MaxLag .. Lockout /\ lockAge \in 0 .. Lockout
           /\ MaxFails \in Nat \ {0} /\ Window \in Nat /\ Lockout \in Nat /\ MaxLag \in Nat
           /\ Window + MaxLag < Lockout /\ MaxAge \in Nat /\ MaxAge = Window + MaxLag + 1
<1>1. fails \in Seq(0 .. MaxAge) /\ guesses \in Seq(0 .. Window) /\ Len(fails) < MaxFails
  BY DEF LimiterIInv, LimiterTypeOK
<1>2. Len(fails) \in Nat /\ DOMAIN fails = 1 .. Len(fails) /\ \A k \in 1 .. Len(fails) : fails[k] \in 0 .. MaxAge
  BY <1>1, LenProperties
<1>3. Len(guesses) \in Nat /\ DOMAIN guesses = 1 .. Len(guesses)
      /\ \A i \in 1 .. Len(guesses) : guesses[i] \in 0 .. Window
  BY <1>1, LenProperties
<1>4. MaxFails \in Nat \ {0} /\ Window \in Nat /\ Lockout \in Nat /\ MaxLag \in Nat /\ Window + MaxLag < Lockout
  BY LimiterAssumption
<1> QED
  BY <1>1, <1>2, <1>3, <1>4 DEF LimiterIInv, LimiterTypeOK, MaxAge

\* Threads of two kinds are not more than there are.
LEMMA Crowd ==
    ASSUME NEW S, NEW T, S \subseteq Thread, T \subseteq Thread, S \cap T = {}
    PROVE  /\ IsFiniteSet(S) /\ Cardinality(S) \in Nat /\ Cardinality(T) \in Nat /\ Cardinality(Thread) \in Nat
           /\ Cardinality(S) + Cardinality(T) <= Cardinality(Thread)
           /\ \A w \in S : Cardinality(S \ {w}) = Cardinality(S) - 1
           /\ \A R : R \subseteq S => Cardinality(R) \in Nat /\ Cardinality(R) <= Cardinality(S)
<1>1. IsFiniteSet(Thread)
  BY LimiterAssumption
<1>2. IsFiniteSet(S) /\ IsFiniteSet(T)
  BY <1>1, FS_Subset
<1>3. Cardinality(S) \in Nat /\ Cardinality(T) \in Nat /\ Cardinality(Thread) \in Nat
  BY <1>1, <1>2, FS_CardinalityType
<1>4. Cardinality(S \cup T) = Cardinality(S) + Cardinality(T) - Cardinality({}) /\ Cardinality({}) = 0
  BY <1>2, FS_Union, FS_EmptySet
<1>5. Cardinality(S \cup T) <= Cardinality(Thread)
  <2>1. S \cup T \in SUBSET Thread
    OBVIOUS
  <2> QED
    BY <1>1, <2>1, FS_Subset
<1>6. \A w \in S : Cardinality(S \ {w}) = Cardinality(S) - 1
  BY <1>2, FS_RemoveElement
<1>7. \A R : R \subseteq S => Cardinality(R) \in Nat /\ Cardinality(R) <= Cardinality(S)
  <2> SUFFICES ASSUME NEW R, R \subseteq S PROVE Cardinality(R) \in Nat /\ Cardinality(R) <= Cardinality(S)
    OBVIOUS
  <2>1. IsFiniteSet(R) /\ Cardinality(R) <= Cardinality(S)
    BY <1>2, FS_Subset
  <2> QED
    BY <2>1, FS_CardinalityType
<1> QED
  BY <1>2, <1>3, <1>4, <1>5, <1>6, <1>7

\* A step that neither guesses nor stamps, and lets nobody past a lockout.
LEMMA LimiterQuiet ==
    ASSUME LimiterIInv,
           at' \in [Thread -> {"idle", "check", "verify", "fail", "success"}], lag' \in [Thread -> 0 .. MaxLag],
           fails' = fails, locked' = locked, guesses' = guesses, lockAge' = lockAge,
           left' \in -MaxLag .. Lockout, locked => left' = left,
           locked => Verifying' \subseteq Verifying,
           locked \/ \A w \in Thread : at[w] = "fail" => at'[w] = "fail" /\ lag'[w] = lag[w]
    PROVE  LimiterIInv'
<1>1. LimiterTypeOK'
  BY DEF LimiterIInv, LimiterTypeOK, MaxAge
<1>2. CASE locked
  <2>1. PICK S : S = Verifying
    OBVIOUS
  <2>2. PICK R : R = Verifying'
    OBVIOUS
  <2>3. S \subseteq Thread /\ {} \subseteq Thread /\ S \cap {} = {} /\ R \subseteq S
    BY <1>2, <2>1, <2>2 DEF Verifying
  <2>4. Cardinality(S) \in Nat /\ Cardinality(R) \in Nat /\ Cardinality(R) <= Cardinality(S)
        /\ Cardinality(Thread) \in Nat
    BY <2>3, Crowd
  <2>5. Shut
    BY <1>2 DEF LimiterIInv
  <2>6. Shut'
    <3>1. PICK k \in 0 .. Len(guesses) :
             /\ \A i \in 1 .. k : guesses[i] >= lockAge
             /\ Len(guesses) - k + Cardinality(S) <= Others
      BY <2>1, <2>5 DEF Shut
    <3>2. Len(guesses) \in Nat /\ k \in Nat /\ Others \in Int /\ MaxFails \in Nat
      BY <2>4, LimiterFacts DEF Others
    <3>3. Len(guesses) - k + Cardinality(R) <= Others
      BY <2>4, <3>1, <3>2
    <3>4. Len(guesses) + Cardinality(R) <= MaxFails + 2 * Others
      <4>1. Len(guesses) + Cardinality(S) <= MaxFails + 2 * Others
        BY <2>1, <2>5 DEF Shut
      <4> QED
        BY <2>4, <3>2, <4>1
    <3> QED
      BY <2>2, <3>1, <3>3, <3>4 DEF Shut, Others
  <2> QED
    BY <1>1, <1>2, <2>6 DEF LimiterIInv
<1>3. CASE ~locked
  <2>1. Open
    BY <1>3 DEF LimiterIInv
  <2>2. PICK l \in 0 .. Len(guesses) : l <= Others /\ \E by, place : Traced(l, by, place)
    BY <2>1 DEF Open
  <2>3. PICK by, place : Traced(l, by, place)
    BY <2>2
  <2>4. Traced(l, by, place)'
    BY <1>3, <2>3 DEF Traced
  <2>5. Open'
    BY <2>2, <2>4 DEF Open, Others
  <2> QED
    BY <1>1, <1>3, <2>5 DEF LimiterIInv
<1> QED
  BY <1>2, <1>3

\* The requests that come in, are blocked, or hold the right token.
LEMMA LimiterOthers ==
    ASSUME LimiterIInv,
           \/ \E w \in Thread : Request(w) \/ Accept(w) \/ (Check(w) /\ (Blocks(w) \/ ~locked))
           \/ UNCHANGED limiterVars
    PROVE  LimiterIInv'
<1>1. /\ at \in [Thread -> {"idle", "check", "verify", "fail", "success"}]
      /\ lag \in [Thread -> 0 .. MaxLag] /\ 0 \in 0 .. MaxLag
      /\ locked \in BOOLEAN /\ left \in -MaxLag .. Lockout /\ 0 \in -MaxLag .. Lockout
  BY LimiterFacts
<1>2. ASSUME NEW w \in Thread, NEW to \in {"idle", "check", "verify", "success"}, at[w] # "fail",
             at' = [at EXCEPT ![w] = to], lag' = [lag EXCEPT ![w] = 0], locked => to # "verify"
      PROVE  /\ at' \in [Thread -> {"idle", "check", "verify", "fail", "success"}]
             /\ lag' \in [Thread -> 0 .. MaxLag]
             /\ locked => Verifying' \subseteq Verifying
             /\ \A v \in Thread : at[v] = "fail" => at'[v] = "fail" /\ lag'[v] = lag[v]
  BY <1>1, <1>2 DEF Verifying
<1>3. ASSUME NEW w \in Thread, Request(w) PROVE LimiterIInv'
  <2>1. /\ at[w] = "idle" /\ at' = [at EXCEPT ![w] = "check"] /\ lag' = [lag EXCEPT ![w] = 0]
        /\ fails' = fails /\ locked' = locked /\ left' = left /\ guesses' = guesses /\ lockAge' = lockAge
    BY <1>3 DEF Request, Moves
  <2> QED
    BY <1>1, <1>2, <2>1, LimiterQuiet
<1>4. ASSUME NEW w \in Thread, Accept(w) PROVE LimiterIInv'
  <2>1. /\ at[w] = "verify" /\ at' = [at EXCEPT ![w] = "success"] /\ lag' = [lag EXCEPT ![w] = 0]
        /\ fails' = fails /\ locked' = locked /\ left' = left /\ guesses' = guesses /\ lockAge' = lockAge
    BY <1>4 DEF Accept, Moves
  <2> QED
    BY <1>1, <1>2, <2>1, LimiterQuiet
<1>5. ASSUME NEW w \in Thread, Check(w), Blocks(w) PROVE LimiterIInv'
  <2>1. /\ at[w] = "check" /\ at' = [at EXCEPT ![w] = "idle"] /\ lag' = [lag EXCEPT ![w] = 0]
        /\ fails' = fails /\ locked' = locked /\ left' = left /\ guesses' = guesses /\ lockAge' = lockAge
    BY <1>5 DEF Check, Moves
  <2> QED
    BY <1>1, <1>2, <2>1, LimiterQuiet
<1>6. ASSUME NEW w \in Thread, Check(w), ~locked PROVE LimiterIInv'
  <2>1. /\ at[w] = "check" /\ at' = [at EXCEPT ![w] = "verify"] /\ lag' = [lag EXCEPT ![w] = 0]
        /\ fails' = fails /\ locked' = locked /\ left' = 0 /\ guesses' = guesses /\ lockAge' = lockAge
    BY <1>1, <1>6 DEF Check, Moves, Blocks
  <2> QED
    BY <1>1, <1>2, <1>6, <2>1, LimiterQuiet
<1>7. CASE UNCHANGED limiterVars
  <2>1. /\ at' = at /\ lag' = lag /\ Verifying' = Verifying
        /\ fails' = fails /\ locked' = locked /\ left' = left /\ guesses' = guesses /\ lockAge' = lockAge
    BY <1>7 DEF limiterVars, Verifying
  <2> QED
    BY <1>1, <2>1, LimiterQuiet
<1> QED
  BY <1>3, <1>4, <1>5, <1>6, <1>7

\* A lockout that a reading finds expired is older than the window, and with it
\* every guess before it.
LEMMA Expiring ==
    ASSUME LimiterIInv, NEW w \in Thread, Check(w), ~Blocks(w), locked
    PROVE  LimiterIInv'
<1>1. /\ at' = [at EXCEPT ![w] = "verify"] /\ lag' = [lag EXCEPT ![w] = 0]
      /\ fails' = <<>> /\ locked' = FALSE /\ left' = 0 /\ guesses' = guesses /\ lockAge' = lockAge
      /\ ~(left + lag[w] > 0)
  BY DEF Check, Moves, Blocks
<1>2. /\ Len(guesses) \in Nat /\ DOMAIN guesses = 1 .. Len(guesses)
      /\ \A i \in 1 .. Len(guesses) : guesses[i] \in 0 .. Window
      /\ left \in Int /\ lockAge \in 0 .. Lockout /\ lag[w] \in Nat
      /\ Window \in Nat /\ MaxLag \in Nat /\ Lockout \in Nat /\ Window + MaxLag < Lockout
  BY LimiterFacts
<1>3. lockAge >= Lockout - MaxLag /\ lockAge > Window
  <2>1. left >= Lockout - MaxLag - lockAge
    BY DEF LimiterIInv
  <2> QED
    BY <1>1, <1>2, <2>1
<1>4. Len(guesses) <= Others
  <2>1. PICK k \in 0 .. Len(guesses) :
           /\ \A i \in 1 .. k : guesses[i] >= lockAge
           /\ Len(guesses) - k + Cardinality(Verifying) <= Others
    BY DEF LimiterIInv, Shut
  <2>2. k = 0
    <3>1. SUFFICES ASSUME k # 0 PROVE FALSE
      OBVIOUS
    <3>2. 1 \in 1 .. k /\ 1 \in 1 .. Len(guesses)
      BY <1>2, <3>1
    <3>3. guesses[1] >= lockAge /\ guesses[1] \in Nat /\ guesses[1] <= Window
      BY <1>2, <2>1, <3>2
    <3> QED
      BY <1>2, <1>3, <3>3
  <2>3. PICK S : S = Verifying
    OBVIOUS
  <2>4. S \subseteq Thread /\ {} \subseteq Thread /\ S \cap {} = {}
    BY <2>3 DEF Verifying
  <2>5. Cardinality(S) \in Nat /\ Cardinality(Thread) \in Nat
    BY <2>4, Crowd
  <2>6. Len(guesses) - 0 + Cardinality(S) <= Others
    BY <2>1, <2>2, <2>3
  <2> QED
    BY <1>2, <2>5, <2>6 DEF Others
<1>5. Open'
  <2>1. PICK by : by = [i \in DOMAIN guesses |-> w]
    OBVIOUS
  <2>2. PICK place : place = [i \in DOMAIN guesses |-> 0]
    OBVIOUS
  <2>3. Len(fails') = 0
    BY <1>1
  <2>4. by \in [DOMAIN guesses -> Thread] /\ place \in [DOMAIN guesses -> 0 .. Len(fails')]
    BY <2>1, <2>2, <2>3
  <2>5. \A i \in DOMAIN guesses : ~(i > Len(guesses))
    BY <1>2
  <2>6. Traced(Len(guesses), by, place)'
    BY <1>1, <2>4, <2>5 DEF Traced
  <2>7. Len(guesses) \in 0 .. Len(guesses)
    BY <1>2
  <2>8. PICK l \in 0 .. Len(guesses) : l = Len(guesses)
    BY <2>7
  <2>9. Traced(l, by, place)'
    BY <1>1, <2>4, <2>5, <2>8 DEF Traced
  <2> QED
    BY <1>1, <1>4, <2>8, <2>9 DEF Open, Others
<1>6. LimiterTypeOK'
  <2>1. fails' \in Seq(0 .. MaxAge) /\ Len(fails') = 0
    BY <1>1
  <2>2. 0 \in -MaxLag .. Lockout /\ 0 \in 0 .. MaxLag /\ 0 < MaxFails
    BY LimiterFacts
  <2>3. at' \in [Thread -> {"idle", "check", "verify", "fail", "success"}] /\ lag' \in [Thread -> 0 .. MaxLag]
    BY <1>1, <2>2, LimiterFacts
  <2> QED
    BY <1>1, <2>1, <2>2, <2>3 DEF LimiterTypeOK, MaxAge
<1>7. ~(lockAge < Lockout - MaxLag)
  BY <1>2, <1>3
<1> QED
  BY <1>1, <1>5, <1>6, <1>7 DEF LimiterIInv

\* A good login forgets everything.
LEMMA LoginForgets ==
    ASSUME LimiterIInv, NEW w \in Thread, RecordSuccess(w)
    PROVE  LimiterIInv'
<1>1. /\ at' = [at EXCEPT ![w] = "idle"] /\ lag' = [lag EXCEPT ![w] = 0]
      /\ fails' = <<>> /\ locked' = FALSE /\ left' = 0 /\ guesses' = <<>> /\ lockAge' = Lockout
  BY DEF RecordSuccess, Moves
<1>2. Cardinality(Thread) \in Nat /\ Cardinality(Thread) # 0
  BY LimiterAssumption, FS_CardinalityType, FS_EmptySet
<1>3. Open'
  <2>1. 0 \in 0 .. Len(guesses') /\ 0 <= Others /\ DOMAIN guesses' = {}
    BY <1>1, <1>2 DEF Others
  <2>2. Traced(0, <<>>, <<>>)'
    BY <2>1 DEF Traced
  <2> QED
    BY <2>1, <2>2 DEF Open, Others
<1>4. LimiterTypeOK'
  <2>1. fails' \in Seq(0 .. MaxAge) /\ Len(fails') = 0
    BY <1>1
  <2>2. 0 \in -MaxLag .. Lockout /\ 0 \in 0 .. MaxLag /\ 0 < MaxFails
    BY LimiterFacts
  <2>3. at' \in [Thread -> {"idle", "check", "verify", "fail", "success"}] /\ lag' \in [Thread -> 0 .. MaxLag]
    BY <1>1, <2>2, LimiterFacts
  <2> QED
    BY <1>1, <2>1, <2>2, <2>3 DEF LimiterTypeOK, MaxAge
<1>5. Lockout \in 0 .. Lockout /\ ~(Lockout < Lockout - MaxLag)
  BY LimiterFacts
<1>6. guesses' \in Seq(0 .. Window) /\ DOMAIN guesses' = {}
  BY <1>1
<1> QED
  BY <1>1, <1>3, <1>4, <1>5, <1>6 DEF LimiterIInv

\* A wrong token: one guess more, by a thread that was verifying.
LEMMA Refusing ==
    ASSUME LimiterIInv, NEW w \in Thread, Refuse(w)
    PROVE  LimiterIInv'
<1> DEFINE n == Len(guesses) + 1
<1>1. /\ at[w] = "verify" /\ at' = [at EXCEPT ![w] = "fail"] /\ lag' = [lag EXCEPT ![w] = 0]
      /\ guesses' = Append(guesses, 0)
      /\ fails' = fails /\ locked' = locked /\ left' = left /\ lockAge' = lockAge
  BY DEF Refuse, Moves
<1>2. /\ Len(guesses) \in Nat /\ DOMAIN guesses = 1 .. Len(guesses)
      /\ \A i \in 1 .. Len(guesses) : guesses[i] \in 0 .. Window
      /\ guesses \in Seq(0 .. Window) /\ Window \in Nat /\ 0 \in 0 .. Window /\ MaxFails \in Nat
  BY LimiterFacts DEF LimiterIInv
<1>3. /\ guesses' \in Seq(0 .. Window) /\ Len(guesses') = n /\ DOMAIN guesses' = 1 .. n
      /\ guesses'[n] = 0 /\ \A i \in 1 .. Len(guesses) : guesses'[i] = guesses[i]
  <2>1. /\ Append(guesses, 0) \in Seq(0 .. Window) /\ Len(Append(guesses, 0)) = n
        /\ Append(guesses, 0)[n] = 0
        /\ \A i \in 1 .. Len(guesses) : Append(guesses, 0)[i] = guesses[i]
    BY <1>2, AppendProperties
  <2>2. DOMAIN Append(guesses, 0) = 1 .. n
    BY <2>1, LenProperties
  <2> QED
    BY <1>1, <2>1, <2>2
<1>4. n \in Nat /\ n = Len(guesses) + 1 /\ \A i \in 1 .. n : i \in 1 .. Len(guesses) \/ i = n
  BY <1>2
<1> HIDE DEF n
<1>5. \A i, j \in DOMAIN guesses' : i < j => guesses'[j] <= guesses'[i]
  <2> SUFFICES ASSUME NEW i \in 1 .. n, NEW j \in 1 .. n, i < j PROVE guesses'[j] <= guesses'[i]
    BY <1>3
  <2>1. i \in 1 .. Len(guesses)
    BY <1>2, <1>4
  <2>2. CASE j = n
    BY <1>2, <1>3, <2>1, <2>2
  <2>3. CASE j \in 1 .. Len(guesses)
    <3>1. guesses[j] <= guesses[i]
      BY <1>2, <2>1, <2>3 DEF LimiterIInv
    <3> QED
      BY <1>3, <2>1, <2>3, <3>1
  <2> QED
    BY <1>4, <2>2, <2>3
<1>6. LimiterTypeOK' /\ lag'[w] = 0 /\ at'[w] = "fail"
      /\ \A v \in Thread : v # w => at'[v] = at[v] /\ lag'[v] = lag[v]
  <2>1. 0 \in 0 .. MaxLag
    BY LimiterFacts
  <2>2. at' \in [Thread -> {"idle", "check", "verify", "fail", "success"}] /\ lag' \in [Thread -> 0 .. MaxLag]
        /\ lag'[w] = 0 /\ at'[w] = "fail" /\ \A v \in Thread : v # w => at'[v] = at[v] /\ lag'[v] = lag[v]
    BY <1>1, <2>1, LimiterFacts
  <2> QED
    BY <1>1, <2>2 DEF LimiterIInv, LimiterTypeOK, MaxAge
<1>7. CASE locked
  <2>1. PICK S : S = Verifying
    OBVIOUS
  <2>2. S \subseteq Thread /\ {} \subseteq Thread /\ S \cap {} = {} /\ w \in S /\ Verifying' = S \ {w}
    BY <1>1, <1>6, <2>1 DEF Verifying
  <2>3. Cardinality(S) \in Nat /\ Cardinality(S \ {w}) = Cardinality(S) - 1 /\ Cardinality(Thread) \in Nat
    BY <2>2, Crowd
  <2>4. PICK k \in 0 .. Len(guesses) :
           /\ \A i \in 1 .. k : guesses[i] >= lockAge
           /\ Len(guesses) - k + Cardinality(S) <= Others
    BY <1>7, <2>1 DEF LimiterIInv, Shut
  <2>5. Len(guesses) + Cardinality(S) <= MaxFails + 2 * Others
    BY <1>7, <2>1 DEF LimiterIInv, Shut
  <2>6. Others \in Int
    BY <2>3 DEF Others
  <2>7. k \in 0 .. n /\ \A i \in 1 .. k : guesses'[i] >= lockAge
    BY <1>2, <1>3, <1>4, <2>4
  <2>8. n - k + Cardinality(S \ {w}) <= Others /\ n + Cardinality(S \ {w}) <= MaxFails + 2 * Others
    BY <1>2, <1>4, <2>3, <2>4, <2>5, <2>6
  <2>9. Shut'
    BY <1>1, <1>3, <2>2, <2>7, <2>8 DEF Shut, Others
  <2> QED
    BY <1>1, <1>3, <1>5, <1>6, <1>7, <2>9 DEF LimiterIInv
<1>8. CASE ~locked
  <2>1. PICK l \in 0 .. Len(guesses) : l <= Others /\ \E by, place : Traced(l, by, place)
    BY <1>8 DEF LimiterIInv, Open
  <2>2. PICK by, place : Traced(l, by, place)
    BY <2>1
  <2>3. PICK by2 : by2 = [i \in 1 .. n |-> IF i = n THEN w ELSE by[i]]
    OBVIOUS
  <2>4. PICK place2 : place2 = [i \in 1 .. n |-> IF i = n THEN 0 ELSE place[i]]
    OBVIOUS
  <2>5. n \notin 1 .. Len(guesses) /\ n \in 1 .. n /\ 0 \in 0 .. Len(fails)
    BY <1>2, <1>4, LimiterFacts
  <2>6. \A i \in 1 .. Len(guesses) : i \in 1 .. n /\ by2[i] = by[i] /\ place2[i] = place[i]
                                     /\ by[i] \in Thread /\ place[i] \in 0 .. Len(fails)
    <3>1. \A i \in 1 .. Len(guesses) : i \in 1 .. n /\ i # n
      BY <1>2, <1>4
    <3>2. by \in [1 .. Len(guesses) -> Thread] /\ place \in [1 .. Len(guesses) -> 0 .. Len(fails)]
      BY <1>2, <2>2 DEF Traced
    <3> QED
      BY <2>3, <2>4, <3>1, <3>2
  <2>7. by2[n] = w /\ place2[n] = 0
    BY <2>3, <2>4, <2>5
  <2>8. by2 \in [1 .. n -> Thread] /\ place2 \in [1 .. n -> 0 .. Len(fails)]
    BY <1>4, <2>3, <2>4, <2>5, <2>6
  <2>9. \A i \in 1 .. Len(guesses) : i > l =>
          IF place[i] = 0 THEN at[by[i]] = "fail" /\ lag[by[i]] = guesses[i] /\ by[i] # w
                          ELSE fails[place[i]] = guesses[i]
    BY <1>1, <1>2, <2>2 DEF Traced
  <2>10. \A i \in 1 .. n : i > l =>
          IF place2[i] = 0 THEN at'[by2[i]] = "fail" /\ lag'[by2[i]] = guesses'[i]
                           ELSE fails'[place2[i]] = guesses'[i]
    <3> SUFFICES ASSUME NEW i \in 1 .. n, i > l
                 PROVE IF place2[i] = 0 THEN at'[by2[i]] = "fail" /\ lag'[by2[i]] = guesses'[i]
                                        ELSE fails'[place2[i]] = guesses'[i]
      OBVIOUS
    <3>1. CASE i = n
      BY <1>3, <1>6, <2>7, <3>1
    <3>2. CASE i \in 1 .. Len(guesses)
      BY <1>1, <1>3, <1>6, <2>6, <2>9, <3>2
    <3> QED
      BY <1>4, <3>1, <3>2
  <2>11. \A i, j \in 1 .. n : i > l /\ j > l /\ place2[i] = place2[j] =>
            i = j \/ (place2[i] = 0 /\ by2[i] # by2[j])
    <3> SUFFICES ASSUME NEW i \in 1 .. n, NEW j \in 1 .. n, i > l, j > l, place2[i] = place2[j], i # j
                 PROVE  place2[i] = 0 /\ by2[i] # by2[j]
      OBVIOUS
    <3>1. CASE i = n
      BY <1>4, <2>6, <2>7, <2>9, <3>1
    <3>2. CASE j = n
      BY <1>4, <2>6, <2>7, <2>9, <3>2
    <3>3. CASE i \in 1 .. Len(guesses) /\ j \in 1 .. Len(guesses)
      BY <1>2, <2>2, <2>6, <3>3 DEF Traced
    <3> QED
      BY <1>4, <3>1, <3>2, <3>3
  <2>12. Traced(l, by2, place2)'
    BY <1>1, <1>3, <2>8, <2>10, <2>11 DEF Traced
  <2>13. l \in 0 .. Len(guesses')
    BY <1>2, <1>3, <1>4
  <2>14. Open'
    BY <2>1, <2>12, <2>13 DEF Open, Others
  <2> QED
    BY <1>1, <1>3, <1>5, <1>6, <1>8, <2>14 DEF LimiterIInv
<1> QED
  BY <1>7, <1>8

\* Without a lockout every guess is forgotten, stamped, or about to be.
LEMMA Accounted ==
    ASSUME LimiterIInv, ~locked
    PROVE  Len(guesses) <= Others + Cardinality(Failing) + Len(fails)
<1>1. /\ Len(guesses) \in Nat /\ DOMAIN guesses = 1 .. Len(guesses)
      /\ Len(fails) \in Nat
  BY LimiterFacts
<1>2. PICK l \in 0 .. Len(guesses) : l <= Others /\ \E by, place : Traced(l, by, place)
  BY DEF LimiterIInv, Open
<1>3. PICK by, place : Traced(l, by, place)
  BY <1>2
<1>4. PICK P : P = Failing
  OBVIOUS
<1>5. P \subseteq Thread /\ {} \subseteq Thread /\ P \cap {} = {}
  BY <1>4 DEF Failing
<1>6. IsFiniteSet(P) /\ Cardinality(P) \in Nat /\ Cardinality(Thread) \in Nat
  BY <1>5, Crowd
<1>7. /\ IsFiniteSet(1 .. Len(fails)) /\ Cardinality(1 .. Len(fails)) = Len(fails)
      /\ IsFiniteSet(l + 1 .. Len(guesses)) /\ Cardinality(l + 1 .. Len(guesses)) = Len(guesses) - l
  <2>1. 1 \in Int /\ l + 1 \in Int /\ Len(fails) \in Int /\ Len(guesses) \in Int
    BY <1>1
  <2>2. /\ IsFiniteSet(1 .. Len(fails)) /\ IsFiniteSet(l + 1 .. Len(guesses))
        /\ Cardinality(1 .. Len(fails)) = IF 1 > Len(fails) THEN 0 ELSE Len(fails) - 1 + 1
        /\ Cardinality(l + 1 .. Len(guesses)) =
              IF l + 1 > Len(guesses) THEN 0 ELSE Len(guesses) - (l + 1) + 1
    BY <2>1, FS_Interval
  <2> QED
    BY <1>1, <2>2
<1> DEFINE Stamped == {i \in l + 1 .. Len(guesses) : place[i] # 0}
           Coming  == {i \in l + 1 .. Len(guesses) : place[i] = 0}
<1>8. \A i \in l + 1 .. Len(guesses) : i \in DOMAIN guesses /\ i > l
  BY <1>1
<1>9. IsFiniteSet(Stamped) /\ Cardinality(Stamped) \in Nat /\ Cardinality(Stamped) <= Len(fails)
  <2>1. PICK f : f = [i \in Stamped |-> place[i]]
    OBVIOUS
  <2>2. \A i \in Stamped : f[i] = place[i] /\ f[i] \in 1 .. Len(fails)
    BY <1>1, <1>3, <1>8, <2>1 DEF Traced
  <2>3. \A i, j \in Stamped : f[i] = f[j] => i = j
    BY <1>3, <1>8, <2>2 DEF Traced
  <2>4. f \in Injection(Stamped, 1 .. Len(fails))
    BY <2>1, <2>2, <2>3 DEF Injection, IsInjective
  <2>5. IsFiniteSet(Stamped) /\ Cardinality(Stamped) <= Len(fails)
    BY <1>7, <2>4, FS_Injection
  <2> QED
    BY <2>5, FS_CardinalityType
<1>10. IsFiniteSet(Coming) /\ Cardinality(Coming) \in Nat /\ Cardinality(Coming) <= Cardinality(P)
  <2>1. PICK f : f = [i \in Coming |-> by[i]]
    OBVIOUS
  <2>2. \A i \in Coming : f[i] = by[i] /\ f[i] \in P
    BY <1>3, <1>4, <1>8, <2>1 DEF Traced, Failing
  <2>3. \A i, j \in Coming : f[i] = f[j] => i = j
    BY <1>3, <1>8, <2>2 DEF Traced
  <2>4. f \in Injection(Coming, P)
    BY <2>1, <2>2, <2>3 DEF Injection, IsInjective
  <2>5. IsFiniteSet(Coming) /\ Cardinality(Coming) <= Cardinality(P)
    BY <1>6, <2>4, FS_Injection
  <2> QED
    BY <2>5, FS_CardinalityType
<1>11. Stamped \cup Coming = l + 1 .. Len(guesses) /\ Stamped \cap Coming = {}
  OBVIOUS
<1> HIDE DEF Stamped, Coming
<1>12. Cardinality(l + 1 .. Len(guesses)) = Cardinality(Stamped) + Cardinality(Coming)
  <2>1. Cardinality(l + 1 .. Len(guesses)) = Cardinality(Stamped) + Cardinality(Coming) - Cardinality({})
    BY <1>9, <1>10, <1>11, FS_Union
  <2>2. Cardinality({}) = 0
    BY FS_EmptySet
  <2> QED
    BY <1>9, <1>10, <2>1, <2>2
<1>13. Len(guesses) - l <= Cardinality(P) + Len(fails)
  BY <1>1, <1>6, <1>7, <1>9, <1>10, <1>12
<1> QED
  BY <1>1, <1>2, <1>4, <1>6, <1>13 DEF Others

\* The stamps that go are older than the window; the others move up.
LEMMA Trims ==
    ASSUME LimiterIInv, NEW late \in 0 .. MaxLag
    PROVE  /\ Trimmed(fails, late) \in Seq(0 .. MaxAge)
           /\ \E d \in 0 .. Len(fails) :
                 /\ Len(Trimmed(fails, late)) = Len(fails) - d
                 /\ \A k \in 1 .. Len(fails) - d : Trimmed(fails, late)[k] = fails[k + d]
                 /\ \A k \in 1 .. Len(fails) : fails[k] <= Window => k > d
<1> DEFINE K == {k \in DOMAIN fails : fails[k] - late <= Window}
<1>1. fails \in Seq(0 .. MaxAge) /\ K \in SUBSET DOMAIN fails
  BY LimiterFacts
<1>2. Trimmed(fails, late) = FromFirst(fails, K)
  BY DEF Trimmed, FromFirst
<1>3. FromFirst(fails, K) \in Seq(0 .. MaxAge)
  BY <1>1, Suffix
<1>4. PICK d \in 0 .. Len(fails) :
         /\ Len(FromFirst(fails, K)) = Len(fails) - d
         /\ \A k \in 1 .. Len(fails) - d : FromFirst(fails, K)[k] = fails[k + d]
         /\ \A k \in K : k > d
  BY <1>1, Suffix
<1>5. \A k \in 1 .. Len(fails) : fails[k] <= Window => k \in K
  <2>1. /\ DOMAIN fails = 1 .. Len(fails) /\ Window \in Nat /\ late \in Nat
        /\ \A k \in 1 .. Len(fails) : fails[k] \in Nat
    BY LimiterFacts
  <2> QED
    BY <2>1
<1> HIDE DEF K
<1> QED
  BY <1>2, <1>3, <1>4, <1>5

\* The last failure that is allowed: the lockout begins.
LEMMA Locking ==
    ASSUME LimiterIInv, NEW w \in Thread, at[w] = "fail",
           at' = [at EXCEPT ![w] = "idle"], lag' = [lag EXCEPT ![w] = 0], guesses' = guesses,
           fails' = <<>>, locked' = TRUE, left' = Lockout - lag[w], lockAge' = 0
    PROVE  LimiterIInv'
<1>1. /\ Len(guesses) \in Nat /\ DOMAIN guesses = 1 .. Len(guesses)
      /\ \A i \in 1 .. Len(guesses) : guesses[i] \in 0 .. Window
      /\ lag[w] \in 0 .. MaxLag /\ MaxLag \in Nat /\ Lockout \in Nat /\ Window \in Nat
      /\ Window + MaxLag < Lockout /\ MaxFails \in Nat \ {0}
      /\ Len(fails) \in Nat /\ Len(fails) < MaxFails
  BY LimiterFacts
<1>2. LimiterTypeOK'
  <2>1. fails' \in Seq(0 .. MaxAge) /\ Len(fails') = 0 /\ 0 < MaxFails
    BY <1>1
  <2>2. left' \in -MaxLag .. Lockout /\ 0 \in 0 .. MaxLag
    BY <1>1
  <2>3. at' \in [Thread -> {"idle", "check", "verify", "fail", "success"}] /\ lag' \in [Thread -> 0 .. MaxLag]
    BY <2>2, LimiterFacts
  <2> QED
    BY <2>1, <2>2, <2>3 DEF LimiterTypeOK, MaxAge
<1>3. PICK S : S = Verifying
  OBVIOUS
<1>4. PICK P : P = Failing
  OBVIOUS
<1>5. S \subseteq Thread /\ P \subseteq Thread /\ S \cap P = {} /\ w \in P /\ Verifying' = S
  BY <1>3, <1>4, LimiterFacts DEF Verifying, Failing
<1>6. /\ Cardinality(S) \in Nat /\ Cardinality(P) \in Nat /\ Cardinality(Thread) \in Nat
      /\ Cardinality(S) + Cardinality(P) <= Cardinality(Thread)
  BY <1>5, Crowd
<1>7. Cardinality(S) <= Others
  <2>1. P \cap S = {}
    BY <1>5
  <2>2. Cardinality(P \ {w}) = Cardinality(P) - 1
    BY <1>5, <2>1, Crowd
  <2>3. P \ {w} \subseteq P
    OBVIOUS
  <2>4. Cardinality(P \ {w}) \in Nat
    BY <1>5, <2>1, <2>3, Crowd
  <2> QED
    BY <1>6, <2>2, <2>4 DEF Others
<1>8. Len(guesses) + Cardinality(S) <= MaxFails + 2 * Others
  <2>1. CASE locked
    BY <1>3, <2>1 DEF LimiterIInv, Shut
  <2>2. CASE ~locked
    <3>1. Len(guesses) <= Others + Cardinality(P) + Len(fails)
      BY <1>4, <2>2, Accounted
    <3>2. Others = Cardinality(Thread) - 1 /\ Others \in Int
      BY <1>6 DEF Others
    <3>3. Cardinality(P) + Len(fails) + Cardinality(S) <= Others + MaxFails
      <4>1. Cardinality(S) + Cardinality(P) <= Others + 1
        BY <1>6, <3>2
      <4>2. Len(fails) + 1 <= MaxFails
        BY <1>1
      <4> QED
        BY <1>1, <1>6, <3>2, <4>1, <4>2
    <3>4. Len(guesses) + Cardinality(S) <= Others + (Others + MaxFails)
      <4>1. /\ Len(guesses) \in Int /\ Len(fails) \in Int /\ MaxFails \in Int /\ Others \in Int
            /\ Cardinality(S) \in Int /\ Cardinality(P) \in Int
        BY <1>1, <1>6, <3>2
      <4> QED
        BY <3>1, <3>3, <4>1
    <3>5. 2 * Others = Others + Others
      BY <3>2
    <3> QED
      BY <1>1, <1>6, <3>2, <3>4, <3>5
  <2> QED
    BY <2>1, <2>2
<1>9. Shut'
  <2>0. Len(guesses) \in 0 .. Len(guesses)
    BY <1>1
  <2>1. PICK k \in 0 .. Len(guesses) : k = Len(guesses)
    BY <2>0
  <2>2. \A i \in 1 .. k : guesses'[i] >= lockAge'
    BY <1>1, <2>1
  <2>3. Len(guesses') - k + Cardinality(Verifying') <= Others'
    <3>1. Others' = Others /\ Others \in Int
      BY <1>6 DEF Others
    <3>2. Cardinality(Verifying') = Cardinality(S) /\ Len(guesses') = Len(guesses)
      BY <1>5
    <3> QED
      BY <1>1, <1>6, <1>7, <2>1, <3>1, <3>2
  <2>4. Len(guesses') + Cardinality(Verifying') <= MaxFails + 2 * Others'
    BY <1>5, <1>8 DEF Others
  <2> QED
    BY <2>2, <2>3, <2>4 DEF Shut
<1>10. left' >= Lockout - MaxLag - lockAge' /\ lockAge' \in 0 .. Lockout
  BY <1>1
<1>11. locked' /\ guesses' \in Seq(0 .. Window)
       /\ \A i, j \in DOMAIN guesses' : i < j => guesses'[j] <= guesses'[i]
  BY DEF LimiterIInv
<1> QED
  BY <1>2, <1>9, <1>10, <1>11 DEF LimiterIInv

\* A failure is stamped, with the reading its thread holds.
LEMMA Stamping ==
    ASSUME LimiterIInv, NEW w \in Thread, at[w] = "fail",
           at' = [at EXCEPT ![w] = "idle"], lag' = [lag EXCEPT ![w] = 0], guesses' = guesses,
           fails' = Append(Trimmed(fails, lag[w]), lag[w]), ~(Len(fails') >= MaxFails),
           locked' = locked, left' = left, lockAge' = lockAge
    PROVE  LimiterIInv'
<1>1. /\ Len(guesses) \in Nat /\ DOMAIN guesses = 1 .. Len(guesses)
      /\ \A i \in 1 .. Len(guesses) : guesses[i] \in 0 .. Window
      /\ lag[w] \in 0 .. MaxLag /\ lag[w] \in 0 .. MaxAge /\ MaxLag \in Nat /\ Window \in Nat
      /\ Len(fails) \in Nat /\ DOMAIN fails = 1 .. Len(fails)
      /\ MaxFails \in Nat
  BY LimiterFacts
<1>2. PICK late \in 0 .. MaxLag : late = lag[w]
  BY <1>1
<1>3. PICK stamps : stamps = Trimmed(fails, lag[w])
  OBVIOUS
<1>4. stamps \in Seq(0 .. MaxAge)
  BY <1>2, <1>3, Trims
<1>5. PICK d \in 0 .. Len(fails) :
         /\ Len(stamps) = Len(fails) - d
         /\ \A k \in 1 .. Len(fails) - d : stamps[k] = fails[k + d]
         /\ \A k \in 1 .. Len(fails) : fails[k] <= Window => k > d
  <2>1. stamps = Trimmed(fails, late)
    BY <1>2, <1>3
  <2> QED
    BY <2>1, Trims
<1> DEFINE m == Len(stamps) + 1
<1>6. /\ fails' \in Seq(0 .. MaxAge) /\ Len(fails') = m
      /\ fails'[m] = lag[w] /\ \A k \in 1 .. Len(stamps) : fails'[k] = stamps[k]
  <2>1. fails' = Append(stamps, lag[w])
    BY <1>3
  <2> QED
    BY <1>1, <1>4, <2>1, AppendProperties
<1>7. m \in Nat /\ m = Len(fails) - d + 1 /\ d \in Nat /\ d <= Len(fails)
  BY <1>1, <1>5
<1> HIDE DEF m
<1>8. LimiterTypeOK' /\ at'[w] = "idle"
      /\ \A v \in Thread : v # w => at'[v] = at[v] /\ lag'[v] = lag[v]
  <2>1. 0 \in 0 .. MaxLag /\ Len(fails') < MaxFails
    BY <1>1, <1>6, <1>7
  <2>2. at' \in [Thread -> {"idle", "check", "verify", "fail", "success"}] /\ lag' \in [Thread -> 0 .. MaxLag]
        /\ at'[w] = "idle" /\ \A v \in Thread : v # w => at'[v] = at[v] /\ lag'[v] = lag[v]
    BY <2>1, LimiterFacts
  <2> QED
    BY <1>6, <2>1, <2>2 DEF LimiterIInv, LimiterTypeOK, MaxAge
<1>9. guesses' \in Seq(0 .. Window) /\ lockAge' \in 0 .. Lockout
      /\ (\A i, j \in DOMAIN guesses' : i < j => guesses'[j] <= guesses'[i])
      /\ (lockAge' < Lockout - MaxLag => locked')
      /\ (locked' => left' >= Lockout - MaxLag - lockAge')
  BY DEF LimiterIInv
<1>10. CASE locked
  <2>1. Verifying' = Verifying
    BY <1>8 DEF Verifying
  <2>2. Shut
    BY <1>10 DEF LimiterIInv
  <2>3. Shut'
    BY <2>1, <2>2 DEF Shut, Others
  <2> QED
    BY <1>8, <1>9, <1>10, <2>3 DEF LimiterIInv
<1>11. CASE ~locked
  <2>1. PICK l \in 0 .. Len(guesses) : l <= Others /\ \E by, place : Traced(l, by, place)
    BY <1>11 DEF LimiterIInv, Open
  <2>2. PICK by, place : Traced(l, by, place)
    BY <2>1
  <2>3. PICK place2 : place2 = [i \in DOMAIN guesses |->
            IF ~(i > l) THEN 0
            ELSE IF place[i] # 0 THEN place[i] - d
            ELSE IF by[i] = w THEN m ELSE 0]
    OBVIOUS
  <2>4. /\ by \in [DOMAIN guesses -> Thread] /\ place \in [DOMAIN guesses -> 0 .. Len(fails)]
        /\ \A i \in DOMAIN guesses : i > l =>
              IF place[i] = 0 THEN at[by[i]] = "fail" /\ lag[by[i]] = guesses[i]
                              ELSE fails[place[i]] = guesses[i]
        /\ \A i, j \in DOMAIN guesses : i > l /\ j > l /\ place[i] = place[j] =>
              i = j \/ (place[i] = 0 /\ by[i] # by[j])
    BY <2>2 DEF Traced
  <2>5. \A i \in DOMAIN guesses : i > l /\ place[i] # 0 =>
           /\ place[i] \in Nat /\ place[i] - d \in 1 .. Len(stamps) /\ place[i] - d # 0 /\ place[i] - d # m
           /\ fails'[place[i] - d] = guesses[i]
    <3> SUFFICES ASSUME NEW i \in DOMAIN guesses, i > l, place[i] # 0
                 PROVE  /\ place[i] \in Nat /\ place[i] - d \in 1 .. Len(stamps)
                        /\ place[i] - d # 0 /\ place[i] - d # m
                        /\ fails'[place[i] - d] = guesses[i]
      OBVIOUS
    <3>1. place[i] \in 1 .. Len(fails) /\ fails[place[i]] = guesses[i]
      BY <1>1, <2>4
    <3>2. guesses[i] <= Window
      BY <1>1
    <3>3. place[i] > d
      BY <1>5, <3>1, <3>2
    <3>4. place[i] - d \in 1 .. Len(fails) - d /\ place[i] - d + d = place[i] /\ place[i] \in Nat
      BY <1>1, <1>7, <3>1, <3>3
    <3>5. fails'[place[i] - d] = guesses[i]
      BY <1>5, <1>6, <3>1, <3>4
    <3> QED
      <4>1. place[i] - d \in 1 .. Len(stamps) /\ place[i] - d \in Nat /\ Len(stamps) = Len(fails) - d
        BY <1>5, <3>4
      <4>2. place[i] - d # 0 /\ place[i] - d # m
        BY <1>1, <1>7, <3>4, <4>1
      <4> QED
        BY <3>4, <3>5, <4>1, <4>2
  <2>6. m # 0 /\ m \in 0 .. m /\ 0 \in 0 .. m /\ (\A k \in 1 .. Len(stamps) : k \in 0 .. m)
    BY <1>1, <1>5, <1>7
  <2>7. \A i \in DOMAIN guesses : place2[i] =
           IF ~(i > l) THEN 0
           ELSE IF place[i] # 0 THEN place[i] - d
           ELSE IF by[i] = w THEN m ELSE 0
    BY <2>3
  <2>8. place2 \in [DOMAIN guesses -> 0 .. m]
    <3>1. \A i \in DOMAIN guesses : place2[i] \in 0 .. m
      BY <2>5, <2>6, <2>7
    <3> QED
      BY <2>3, <3>1
  <2>9. \A i \in DOMAIN guesses : i > l =>
           IF place2[i] = 0 THEN at'[by[i]] = "fail" /\ lag'[by[i]] = guesses[i]
                            ELSE fails'[place2[i]] = guesses[i]
    <3> SUFFICES ASSUME NEW i \in DOMAIN guesses, i > l
                 PROVE  IF place2[i] = 0 THEN at'[by[i]] = "fail" /\ lag'[by[i]] = guesses[i]
                                         ELSE fails'[place2[i]] = guesses[i]
      OBVIOUS
    <3>1. CASE place[i] # 0
      BY <2>5, <2>7, <3>1
    <3>2. CASE place[i] = 0 /\ by[i] = w
      <4>1. place2[i] = m /\ lag[w] = guesses[i]
        BY <2>4, <2>7, <3>2
      <4> QED
        BY <1>6, <2>6, <4>1
    <3>3. CASE place[i] = 0 /\ by[i] # w
      <4>1. place2[i] = 0 /\ by[i] \in Thread /\ at[by[i]] = "fail" /\ lag[by[i]] = guesses[i]
        BY <2>4, <2>7, <3>3
      <4> QED
        BY <1>8, <3>3, <4>1
    <3> QED
      BY <3>1, <3>2, <3>3
  <2>10. \A i, j \in DOMAIN guesses : i > l /\ j > l /\ place2[i] = place2[j] =>
            i = j \/ (place2[i] = 0 /\ by[i] # by[j])
    <3> SUFFICES ASSUME NEW i \in DOMAIN guesses, NEW j \in DOMAIN guesses, i > l, j > l, place2[i] = place2[j]
                 PROVE  i = j \/ (place2[i] = 0 /\ by[i] # by[j])
      OBVIOUS
    <3>1. CASE place[i] # 0
      <4>1. place2[i] = place[i] - d /\ place2[i] # 0 /\ place2[i] # m /\ place[i] \in Nat
        BY <2>5, <2>7, <3>1
      <4>2. place[j] # 0
        BY <2>7, <4>1
      <4>3. place2[j] = place[j] - d /\ place[j] \in Nat
        BY <2>5, <2>7, <4>2
      <4>4. place[i] = place[j]
        <5>1. place[i] - d = place[j] - d
          BY <4>1, <4>3, Zenon
        <5>2. d \in Int /\ place[i] \in Int /\ place[j] \in Int
          BY <1>7, <4>1, <4>3
        <5> QED
          BY <5>1, <5>2
      <4> QED
        BY <2>4, <3>1, <4>4
    <3>2. CASE place[i] = 0
      <4>1. place2[i] \in {0, m}
        BY <2>7, <3>2
      <4>2. place[j] = 0
        BY <2>5, <2>7, <4>1
      <4>3. i = j \/ by[i] # by[j]
        BY <2>4, <3>2, <4>2
      <4>4. by[i] # by[j] => place2[i] = 0
        BY <2>6, <2>7, <3>2, <4>2
      <4> QED
        BY <4>3, <4>4
    <3> QED
      BY <3>1, <3>2
  <2>11. Traced(l, by, place2)'
    BY <1>6, <2>4, <2>8, <2>9, <2>10 DEF Traced
  <2>12. Open'
    BY <2>1, <2>11 DEF Open, Others
  <2> QED
    BY <1>8, <1>9, <1>11, <2>12 DEF LimiterIInv
<1> QED
  BY <1>10, <1>11

\* A failure is recorded: not at all in a lockout, with a stamp, or as the last.
LEMMA Recording ==
    ASSUME LimiterIInv, NEW w \in Thread, RecordFail(w)
    PROVE  LimiterIInv'
<1>1. /\ at[w] = "fail" /\ at' = [at EXCEPT ![w] = "idle"] /\ lag' = [lag EXCEPT ![w] = 0]
      /\ guesses' = guesses
  BY DEF RecordFail, Moves
<1>2. CASE Blocks(w)
  <2>1. fails' = fails /\ locked' = locked /\ left' = left /\ lockAge' = lockAge /\ locked
    BY <1>2 DEF RecordFail, Blocks
  <2>2. /\ at \in [Thread -> {"idle", "check", "verify", "fail", "success"}]
        /\ lag \in [Thread -> 0 .. MaxLag] /\ 0 \in 0 .. MaxLag /\ left \in -MaxLag .. Lockout
    BY LimiterFacts
  <2>3. /\ at' \in [Thread -> {"idle", "check", "verify", "fail", "success"}]
        /\ lag' \in [Thread -> 0 .. MaxLag] /\ Verifying' \subseteq Verifying
    BY <1>1, <2>2 DEF Verifying
  <2> QED
    BY <1>1, <2>1, <2>2, <2>3, LimiterQuiet
<1>3. CASE ~Blocks(w)
  <2> DEFINE stamps == Append(Trimmed(fails, lag[w]), lag[w])
  <2>1. IF Len(stamps) >= MaxFails
        THEN fails' = <<>> /\ locked' = TRUE /\ left' = Lockout - lag[w] /\ lockAge' = 0
        ELSE fails' = stamps /\ locked' = locked /\ left' = left /\ lockAge' = lockAge
    BY <1>3 DEF RecordFail, Full, LockTime
  <2> HIDE DEF stamps
  <2>2. CASE Len(stamps) >= MaxFails
    BY <1>1, <2>1, <2>2, Locking
  <2>3. CASE ~(Len(stamps) >= MaxFails)
    <3>1. fails' = Append(Trimmed(fails, lag[w]), lag[w]) /\ ~(Len(fails') >= MaxFails)
      BY <2>1, <2>3 DEF stamps
    <3> QED
      BY <1>1, <2>1, <2>3, <3>1, Stamping
  <2> QED
    BY <2>2, <2>3
<1> QED
  BY <1>2, <1>3

\* Everything grows older alike; the guesses that leave the window are the first.
LEMMA LimiterAges ==
    ASSUME LimiterIInv, LimiterTick
    PROVE  LimiterIInv'
<1> DEFINE aged == [i \in DOMAIN guesses |-> Older(guesses[i])]
           young == {i \in DOMAIN aged : aged[i] <= Window}
<1>1. /\ lag' = [w \in Thread |-> IF at[w] \in {"check", "fail"} THEN lag[w] + 1 ELSE 0]
      /\ \A w \in Thread : lag[w] < MaxLag
      /\ fails' = [i \in DOMAIN fails |-> Older(fails[i])]
      /\ left' = IF left > -MaxLag THEN left - 1 ELSE left
      /\ guesses' = FromFirst(aged, young)
      /\ lockAge' = IF lockAge < Lockout THEN lockAge + 1 ELSE lockAge
      /\ at' = at /\ locked' = locked
  BY DEF LimiterTick, InWindow, FromFirst
<1>2. /\ Len(guesses) \in Nat /\ DOMAIN guesses = 1 .. Len(guesses)
      /\ \A i \in 1 .. Len(guesses) : guesses[i] \in Nat /\ guesses[i] <= Window
      /\ Window \in Nat /\ MaxLag \in Nat /\ MaxAge \in Nat /\ MaxAge = Window + MaxLag + 1
  BY LimiterFacts
<1>3. \A i \in 1 .. Len(guesses) : aged[i] = guesses[i] + 1 /\ aged[i] \in Nat
  BY <1>2 DEF Older
<1>4. DOMAIN aged = 1 .. Len(guesses) /\ aged \in [1 .. Len(guesses) -> Nat]
  BY <1>2, <1>3
<1>5. aged \in Seq(Nat) /\ Len(aged) = Len(guesses)
  <2>1. aged \in Seq(Nat)
    BY <1>2, <1>4, SeqDef
  <2>2. Len(aged) \in Nat /\ DOMAIN aged = 1 .. Len(aged)
    BY <2>1, LenProperties
  <2> HIDE DEF aged
  <2> QED
    BY <1>2, <1>4, <2>1, <2>2
<1>6. young \in SUBSET DOMAIN aged /\ \A i \in young : i \in 1 .. Len(guesses) /\ guesses[i] + 1 <= Window
  BY <1>3, <1>4
<1> HIDE DEF aged, young
<1>7. PICK d \in 0 .. Len(aged) :
         /\ Len(FromFirst(aged, young)) = Len(aged) - d
         /\ \A k \in 1 .. Len(aged) - d : FromFirst(aged, young)[k] = aged[k + d]
         /\ d < Len(aged) => d + 1 \in young
  BY <1>5, <1>6, Suffix
<1>8. guesses' \in Seq(Nat)
  BY <1>1, <1>5, <1>6, Suffix
<1>9. /\ d \in Nat /\ d <= Len(guesses) /\ Len(guesses') = Len(guesses) - d /\ Len(guesses') \in Nat
      /\ DOMAIN guesses' = 1 .. Len(guesses')
  BY <1>1, <1>2, <1>5, <1>7, <1>8, LenProperties
<1>10. \A k \in 1 .. Len(guesses') :
          /\ k \in Nat /\ k + d \in 1 .. Len(guesses) /\ d + 1 <= k + d /\ d < Len(guesses)
          /\ guesses'[k] = guesses[k + d] + 1
  <2> SUFFICES ASSUME NEW k \in 1 .. Len(guesses')
               PROVE  /\ k \in Nat /\ k + d \in 1 .. Len(guesses) /\ d + 1 <= k + d /\ d < Len(guesses)
                      /\ guesses'[k] = guesses[k + d] + 1
    OBVIOUS
  <2>1. k \in Nat /\ k + d \in 1 .. Len(guesses) /\ d + 1 <= k + d /\ d < Len(guesses)
    BY <1>2, <1>9
  <2>2. guesses'[k] = aged[k + d]
    BY <1>1, <1>5, <1>7, <1>9
  <2> QED
    BY <1>3, <2>1, <2>2
<1>11. \A i, j \in 1 .. Len(guesses) : i < j => guesses[j] <= guesses[i]
  BY <1>2 DEF LimiterIInv
<1>12. \A k \in 1 .. Len(guesses') : guesses'[k] \in 0 .. Window
  <2> SUFFICES ASSUME NEW k \in 1 .. Len(guesses') PROVE guesses'[k] \in 0 .. Window
    OBVIOUS
  <2>1. d + 1 \in 1 .. Len(guesses) /\ guesses[d + 1] + 1 <= Window
    BY <1>5, <1>6, <1>7, <1>10
  <2>2. guesses[k + d] <= guesses[d + 1]
    <3>1. CASE d + 1 < k + d
      BY <1>10, <1>11, <2>1, <3>1
    <3>2. CASE d + 1 = k + d
      BY <1>2, <2>1, <3>2
    <3> QED
      BY <1>9, <1>10, <3>1, <3>2
  <2>3. guesses[k + d] \in Nat /\ guesses[d + 1] \in Nat /\ guesses'[k] = guesses[k + d] + 1
    BY <1>2, <1>10, <2>1
  <2> QED
    BY <1>2, <2>1, <2>2, <2>3
<1>13. guesses' \in Seq(0 .. Window)
  <2>1. guesses' \in [1 .. Len(guesses') -> Nat]
    BY <1>8, LenProperties
  <2>2. guesses' \in [1 .. Len(guesses') -> 0 .. Window]
    BY <1>12, <2>1
  <2> QED
    BY <1>9, <2>2, SeqDef
<1>14. \A i, j \in DOMAIN guesses' : i < j => guesses'[j] <= guesses'[i]
  <2> SUFFICES ASSUME NEW i \in 1 .. Len(guesses'), NEW j \in 1 .. Len(guesses'), i < j
               PROVE  guesses'[j] <= guesses'[i]
    BY <1>9
  <2>1. i + d < j + d /\ i + d \in 1 .. Len(guesses) /\ j + d \in 1 .. Len(guesses)
    BY <1>9, <1>10
  <2>2. guesses[j + d] <= guesses[i + d]
    BY <1>11, <2>1
  <2> QED
    BY <1>2, <1>10, <2>1, <2>2
<1>15. /\ fails \in Seq(0 .. MaxAge) /\ Len(fails) \in Nat /\ DOMAIN fails = 1 .. Len(fails)
       /\ \A k \in 1 .. Len(fails) : fails[k] \in 0 .. MaxAge
       /\ Len(fails) < MaxFails
  BY LimiterFacts
<1>16. /\ fails' \in Seq(0 .. MaxAge) /\ Len(fails') = Len(fails)
       /\ \A k \in 1 .. Len(fails) : fails[k] <= Window => fails'[k] = fails[k] + 1
  <2>1. \A k \in 1 .. Len(fails) : /\ fails'[k] \in 0 .. MaxAge
                                   /\ fails[k] <= Window => fails'[k] = fails[k] + 1
    BY <1>1, <1>2, <1>15 DEF Older
  <2>2. fails' \in [1 .. Len(fails) -> 0 .. MaxAge]
    BY <1>1, <1>15, <2>1
  <2>3. fails' \in Seq(0 .. MaxAge)
    BY <1>15, <2>2, SeqDef
  <2> QED
    BY <1>15, <2>1, <2>2, <2>3, LenProperties
<1>17. /\ lag' \in [Thread -> 0 .. MaxLag]
       /\ \A w \in Thread : at[w] = "fail" => lag'[w] = lag[w] + 1
  BY <1>1, LimiterFacts
<1>18. /\ left \in -MaxLag .. Lockout /\ lockAge \in 0 .. Lockout /\ Lockout \in Nat
       /\ lockAge < Lockout - MaxLag => locked
       /\ locked => left >= Lockout - MaxLag - lockAge
  BY LimiterFacts DEF LimiterIInv
<1>19. left' \in -MaxLag .. Lockout /\ lockAge' \in 0 .. Lockout /\ lockAge' <= lockAge + 1 /\ lockAge <= lockAge'
  BY <1>1, <1>2, <1>18
<1>20. LimiterTypeOK'
  BY <1>1, <1>15, <1>16, <1>17, <1>19 DEF LimiterIInv, LimiterTypeOK, MaxAge
<1>21. lockAge' < Lockout - MaxLag => locked'
  BY <1>1, <1>2, <1>18, <1>19
<1>22. locked' => left' >= Lockout - MaxLag - lockAge'
  BY <1>1, <1>2, <1>18
<1>23. CASE locked
  <2>1. PICK k \in 0 .. Len(guesses) :
           /\ \A i \in 1 .. k : guesses[i] >= lockAge
           /\ Len(guesses) - k + Cardinality(Verifying) <= Others
    BY <1>23 DEF LimiterIInv, Shut
  <2>2. Len(guesses) + Cardinality(Verifying) <= MaxFails + 2 * Others
    BY <1>23 DEF LimiterIInv, Shut
  <2>3. PICK S : S = Verifying
    OBVIOUS
  <2>4. S \subseteq Thread /\ {} \subseteq Thread /\ S \cap {} = {} /\ Verifying' = S
    BY <1>1, <2>3 DEF Verifying
  <2>5. Cardinality(S) \in Nat /\ Cardinality(Thread) \in Nat
    BY <2>4, Crowd
  <2>6. Others' = Others /\ Others \in Int /\ MaxFails \in Nat
    BY <2>5, LimiterFacts DEF Others
  <2>7. \E j \in 0 .. Len(guesses') : j >= k - d /\ (j = 0 \/ j = k - d)
    <3>1. CASE k >= d
      <4>1. k - d \in 0 .. Len(guesses') /\ k - d >= k - d
        BY <1>2, <1>9, <3>1
      <4> QED
        BY <4>1
    <3>2. CASE ~(k >= d)
      <4>1. 0 \in 0 .. Len(guesses') /\ 0 >= k - d
        BY <1>2, <1>9, <3>2
      <4> QED
        BY <4>1
    <3> QED
      BY <3>1, <3>2
  <2>8. PICK j \in 0 .. Len(guesses') : j >= k - d /\ (j = 0 \/ j = k - d)
    BY <2>7
  <2>9. \A i \in 1 .. j : guesses'[i] >= lockAge'
    <3> SUFFICES ASSUME NEW i \in 1 .. j PROVE guesses'[i] >= lockAge'
      OBVIOUS
    <3>1. i \in 1 .. Len(guesses') /\ i + d \in 1 .. k
      BY <1>2, <1>9, <2>8
    <3>2. guesses[i + d] >= lockAge /\ guesses'[i] = guesses[i + d] + 1 /\ guesses[i + d] \in Nat
      BY <1>2, <1>10, <2>1, <3>1
    <3> QED
      BY <1>18, <1>19, <3>2
  <2>10. Len(guesses') - j + Cardinality(S) <= Others
    <3>1. Len(guesses) - k + Cardinality(S) <= Others
      BY <2>1, <2>3
    <3>2. Len(guesses') - j <= Len(guesses) - k
      BY <1>2, <1>9, <2>8
    <3>3. k \in Int /\ j \in Int
      OBVIOUS
    <3> QED
      BY <1>2, <1>9, <2>5, <2>6, <3>1, <3>2, <3>3
  <2>11. Len(guesses') + Cardinality(S) <= MaxFails + 2 * Others
    <3>1. Len(guesses) + Cardinality(S) <= MaxFails + 2 * Others
      BY <2>2, <2>3
    <3>2. 2 * Others \in Int
      BY <2>6
    <3> QED
      BY <1>2, <1>9, <2>5, <2>6, <3>1, <3>2
  <2>12. Shut'
    BY <2>4, <2>6, <2>9, <2>10, <2>11 DEF Shut
  <2> QED
    BY <1>1, <1>13, <1>14, <1>19, <1>20, <1>21, <1>22, <1>23, <2>12 DEF LimiterIInv
<1>24. CASE ~locked
  <2>1. PICK l \in 0 .. Len(guesses) : l <= Others /\ \E by, place : Traced(l, by, place)
    BY <1>24 DEF LimiterIInv, Open
  <2>2. PICK by, place : Traced(l, by, place)
    BY <2>1
  <2>3. /\ by \in [DOMAIN guesses -> Thread] /\ place \in [DOMAIN guesses -> 0 .. Len(fails)]
        /\ \A i \in DOMAIN guesses : i > l =>
              IF place[i] = 0 THEN at[by[i]] = "fail" /\ lag[by[i]] = guesses[i]
                              ELSE fails[place[i]] = guesses[i]
        /\ \A i, j \in DOMAIN guesses : i > l /\ j > l /\ place[i] = place[j] =>
              i = j \/ (place[i] = 0 /\ by[i] # by[j])
    BY <2>2 DEF Traced
  <2>4. \E l2 \in 0 .. Len(guesses') : l2 <= l /\ l - d <= l2
    <3>1. (l - d \in 0 .. Len(guesses') /\ l - d <= l) \/ (0 \in 0 .. Len(guesses') /\ 0 >= l - d /\ 0 <= l)
      BY <1>2, <1>9
    <3> QED
      BY <1>2, <1>9, <3>1
  <2>5. PICK l2 \in 0 .. Len(guesses') : l2 <= l /\ l - d <= l2
    BY <2>4
  <2>6. PICK by2 : by2 = [i \in DOMAIN guesses' |-> by[i + d]]
    OBVIOUS
  <2>7. PICK place2 : place2 = [i \in DOMAIN guesses' |-> place[i + d]]
    OBVIOUS
  <2>8. \A i \in DOMAIN guesses' :
           /\ i \in Nat /\ i + d \in DOMAIN guesses /\ by2[i] = by[i + d] /\ place2[i] = place[i + d]
           /\ by[i + d] \in Thread /\ place[i + d] \in 0 .. Len(fails)
    BY <1>2, <1>9, <1>10, <2>3, <2>6, <2>7
  <2>9. \A i \in DOMAIN guesses' : i > l2 => i + d > l
    BY <1>9, <2>5, <2>8
  <2>10. by2 \in [DOMAIN guesses' -> Thread] /\ place2 \in [DOMAIN guesses' -> 0 .. Len(fails')]
    BY <1>16, <2>6, <2>7, <2>8
  <2>11. \A i \in DOMAIN guesses' : i > l2 =>
            IF place2[i] = 0 THEN at'[by2[i]] = "fail" /\ lag'[by2[i]] = guesses'[i]
                             ELSE fails'[place2[i]] = guesses'[i]
    <3> SUFFICES ASSUME NEW i \in DOMAIN guesses', i > l2
                 PROVE  IF place2[i] = 0 THEN at'[by2[i]] = "fail" /\ lag'[by2[i]] = guesses'[i]
                                         ELSE fails'[place2[i]] = guesses'[i]
      OBVIOUS
    <3>1. IF place2[i] = 0 THEN at[by2[i]] = "fail" /\ lag[by2[i]] = guesses[i + d]
                           ELSE fails[place2[i]] = guesses[i + d]
      BY <2>3, <2>8, <2>9
    <3>2. guesses'[i] = guesses[i + d] + 1 /\ guesses[i + d] \in Nat /\ guesses[i + d] <= Window
      BY <1>2, <1>9, <1>10
    <3>3. CASE place2[i] = 0
      BY <1>1, <1>17, <2>8, <3>1, <3>2, <3>3
    <3>4. CASE place2[i] # 0
      <4>1. place2[i] \in 1 .. Len(fails) /\ fails[place2[i]] = guesses[i + d]
        BY <1>15, <2>8, <3>1, <3>4
      <4>2. fails'[place2[i]] = fails[place2[i]] + 1
        BY <1>16, <3>2, <4>1
      <4> QED
        BY <3>2, <3>4, <4>1, <4>2
    <3> QED
      BY <3>3, <3>4
  <2>12. \A i, j \in DOMAIN guesses' : i > l2 /\ j > l2 /\ place2[i] = place2[j] =>
            i = j \/ (place2[i] = 0 /\ by2[i] # by2[j])
    <3>1. \A i, j \in DOMAIN guesses' : i > l2 /\ j > l2 /\ place2[i] = place2[j] =>
            i + d = j + d \/ (place2[i] = 0 /\ by2[i] # by2[j])
      BY <2>3, <2>8, <2>9
    <3>2. \A i, j \in DOMAIN guesses' : i + d = j + d => i = j
      BY <1>9, <2>8
    <3> QED
      BY <3>1, <3>2
  <2>13. Traced(l2, by2, place2)'
    BY <2>10, <2>11, <2>12 DEF Traced
  <2>14. l2 <= Others'
    <3>1. PICK S : S = Verifying
      OBVIOUS
    <3>2. S \subseteq Thread /\ {} \subseteq Thread /\ S \cap {} = {}
      BY <3>1 DEF Verifying
    <3>3. Cardinality(Thread) \in Nat
      BY <3>2, Crowd
    <3> QED
      BY <1>2, <1>9, <2>1, <2>5, <3>3 DEF Others
  <2>15. Open'
    BY <2>13, <2>14 DEF Open
  <2> QED
    BY <1>1, <1>13, <1>14, <1>19, <1>20, <1>21, <1>22, <1>24, <2>15 DEF LimiterIInv
<1> QED
  BY <1>23, <1>24

\* No guesses, no lockout.
LEMMA LimiterStart ==
    ASSUME LimiterInit
    PROVE  LimiterIInv
<1>1. /\ at = [w \in Thread |-> "idle"] /\ lag = [w \in Thread |-> 0]
      /\ fails = <<>> /\ locked = FALSE /\ left = 0 /\ guesses = <<>> /\ lockAge = Lockout
  BY DEF LimiterInit
<1>2. LimiterTypeOK
  <2>1. fails \in Seq(0 .. MaxAge) /\ Len(fails) = 0
    BY <1>1
  <2>2. 0 \in -MaxLag .. Lockout /\ 0 \in 0 .. MaxLag /\ 0 < MaxFails
    BY LimiterAssumption
  <2> QED
    BY <1>1, <2>1, <2>2 DEF LimiterTypeOK
<1>3. guesses \in Seq(0 .. Window) /\ DOMAIN guesses = {} /\ Len(guesses) = 0
  BY <1>1
<1>4. Lockout \in 0 .. Lockout /\ ~(Lockout < Lockout - MaxLag)
  BY LimiterAssumption
<1>5. Open
  <2>1. Cardinality(Thread) \in Nat /\ Cardinality(Thread) # 0
    BY LimiterAssumption, FS_CardinalityType, FS_EmptySet
  <2>2. 0 \in 0 .. Len(guesses) /\ 0 <= Others
    BY <1>3, <2>1 DEF Others
  <2>3. Traced(0, guesses, guesses)
    BY <1>3 DEF Traced
  <2> QED
    BY <2>2, <2>3 DEF Open
<1> QED
  BY <1>1, <1>2, <1>3, <1>4, <1>5 DEF LimiterIInv

\* What the invariant says of the guesses and of the lockout.
LEMMA LimiterCounts ==
    ASSUME LimiterIInv
    PROVE  LimiterInv
<1>1. PICK S : S = Verifying
  OBVIOUS
<1>2. PICK P : P = Failing
  OBVIOUS
<1>3. S \subseteq Thread /\ P \subseteq Thread /\ P \cap S = {}
  BY <1>1, <1>2 DEF Verifying, Failing
<1>4. /\ Cardinality(S) \in Nat /\ Cardinality(P) \in Nat /\ Cardinality(Thread) \in Nat
      /\ Cardinality(P) + Cardinality(S) <= Cardinality(Thread)
  BY <1>3, Crowd
<1>5. /\ Len(guesses) \in Nat /\ Len(fails) \in Nat /\ Len(fails) < MaxFails /\ MaxFails \in Nat
      /\ locked \in BOOLEAN
  BY LimiterFacts
<1>6. Others \in Int /\ Others = Cardinality(Thread) - 1
  BY <1>4 DEF Others
<1>7. Len(guesses) <= MaxFails + 2 * Others
  <2>1. CASE locked
    <3>1. Len(guesses) + Cardinality(S) <= MaxFails + 2 * Others
      BY <1>1, <2>1 DEF LimiterIInv, Shut
    <3>2. 2 * Others \in Int
      BY <1>6
    <3> QED
      BY <1>4, <1>5, <3>1, <3>2
  <2>2. CASE ~locked
    <3>1. Len(guesses) <= Others + Cardinality(P) + Len(fails)
      BY <1>2, <2>2, Accounted
    <3>2. Cardinality(P) <= Others + 1 /\ Len(fails) + 1 <= MaxFails
      BY <1>4, <1>5, <1>6
    <3>3. /\ Len(guesses) \in Int /\ Len(fails) \in Int /\ MaxFails \in Int /\ Others \in Int
          /\ Cardinality(P) \in Int
      BY <1>4, <1>5, <1>6
    <3>4. Len(guesses) <= Others + (Others + MaxFails)
      BY <3>1, <3>2, <3>3
    <3>5. 2 * Others = Others + Others
      BY <1>6
    <3> QED
      BY <3>3, <3>4, <3>5
  <2> QED
    BY <2>1, <2>2
<1>8. LockoutLasts
  <2>1. /\ lockAge < Lockout - MaxLag => locked
        /\ locked => left >= Lockout - MaxLag - lockAge
        /\ left \in Int /\ lockAge \in Int /\ Lockout \in Nat /\ MaxLag \in Nat
    BY LimiterFacts DEF LimiterIInv
  <2> QED
    BY <2>1 DEF LockoutLasts
<1> QED
  BY <1>7, <1>8 DEF LimiterInv, LimiterIInv, GuessBound, Others

\* However threads overlap between the check, the clock and the record
\* (auth_ratelimit.py), a window holds few failed logins more than the limit, and
\* a lockout keeps them out for its time.
THEOREM LimiterThm == LimiterInit /\ [][LimiterNext]_limiterVars => []LimiterInv
<1>1. LimiterInit => LimiterIInv
  BY LimiterStart
<1>2. LimiterIInv /\ [LimiterNext]_limiterVars => LimiterIInv'
  <2> SUFFICES ASSUME LimiterIInv, [LimiterNext]_limiterVars PROVE LimiterIInv'
    OBVIOUS
  <2>1. ASSUME NEW w \in Thread, Check(w) PROVE LimiterIInv'
    <3>1. CASE Blocks(w) \/ ~locked
      BY <2>1, <3>1, LimiterOthers
    <3>2. CASE ~Blocks(w) /\ locked
      BY <2>1, <3>2, Expiring
    <3> QED
      BY <3>1, <3>2
  <2>2. ASSUME NEW w \in Thread, Request(w) \/ ThreadStep(w) PROVE LimiterIInv'
    BY <2>1, <2>2, LimiterOthers, Refusing, Recording, LoginForgets DEF ThreadStep
  <2>3. CASE LimiterTick
    BY <2>3, LimiterAges
  <2>4. CASE UNCHANGED limiterVars
    BY <2>4, LimiterOthers
  <2> QED
    BY <2>2, <2>3, <2>4 DEF LimiterNext
<1>3. LimiterIInv => LimiterInv
  BY LimiterCounts
<1> QED
  BY <1>1, <1>2, <1>3, PTL

-----------------------------------------------------------------------------
(* Donald's reminders. *)

LoopTypes ==
    /\ fired \subseteq Reminder /\ ripe \subseteq Reminder
    /\ rows \in [Daemon -> SUBSET Reminder]
    /\ messages \in [Daemon -> SUBSET Reminder]
    /\ point \in [Daemon -> {"none", "top", "read", "mark", "notify"}]
    /\ sent \in [Reminder -> Nat]

\* What has been told or is about to be is marked, and what a loop holds that
\* another loop holds, or has told, the two had read together.
Marked ==
    /\ \A d \in Daemon : messages[d] \subseteq fired
    /\ \A i \in Reminder : sent[i] > 0 => i \in fired

Overlap ==
    /\ \A d \in Daemon : rows[d] \cap messages[d] = {}
    /\ \A d, e \in Daemon : d # e => Holds(d) \cap Holds(e) \subseteq together
    /\ \A d \in Daemon : \A i \in Holds(d) : sent[i] > 0 => i \in together

OnceInv == LoopTypes /\ Marked /\ Overlap

\* A step of a daemon that lets go of reminders, or only moves on, and tells and
\* marks nothing.
LetsGo(d) ==
    /\ \E where \in {"none", "top", "read", "mark", "notify"} :
       \E todo \in SUBSET rows[d], out \in SUBSET messages[d] : ThreadAt(d, where, todo, out)
    /\ UNCHANGED <<ripe, fired, sent, together>>

\* Letting go keeps the invariant: what is left was held before.
LEMMA LettingGo ==
    ASSUME OnceInv, NEW d \in Daemon, LetsGo(d)
    PROVE  OnceInv'
<1>1. PICK where \in {"none", "top", "read", "mark", "notify"},
           todo \in SUBSET rows[d], out \in SUBSET messages[d] : ThreadAt(d, where, todo, out)
  BY DEF LetsGo
<1>2. UNCHANGED <<ripe, fired, sent, together>>
  BY DEF LetsGo
<1>3. LoopTypes'
  BY <1>1, <1>2 DEF OnceInv, LoopTypes, ThreadAt
<1>4. \A e \in Daemon : rows'[e] \subseteq rows[e] /\ messages'[e] \subseteq messages[e]
  BY <1>1 DEF OnceInv, LoopTypes, ThreadAt
<1>5. Marked'
  BY <1>2, <1>4 DEF OnceInv, Marked
<1>6. Overlap'
  BY <1>2, <1>4 DEF OnceInv, Overlap, Holds
<1> QED
  BY <1>3, <1>5, <1>6 DEF OnceInv

\* Reading: what others hold unmarked is now held together, and what is marked
\* is not read.
LEMMA Reading ==
    ASSUME OnceInv, NEW d \in Daemon, ReadDue(d)
    PROVE  OnceInv'
<1>1. LoopTypes'
  BY DEF OnceInv, LoopTypes, ReadDue, ThreadAt
<1>2. /\ rows'[d] = ripe \ fired /\ messages'[d] = {}
      /\ \A e \in Daemon \ {d} : rows'[e] = rows[e] /\ messages'[e] = messages[e]
      /\ together \subseteq together' /\ fired' = fired /\ sent' = sent
  BY DEF OnceInv, LoopTypes, ReadDue, ThreadAt
<1>3. \A e \in Daemon \ {d} : rows[e] \cap (ripe \ fired) \subseteq together'
  BY DEF ReadDue, OnceInv, LoopTypes
<1>4. Marked'
  BY <1>2 DEF OnceInv, Marked
<1>5. \A e \in Daemon : rows'[e] \cap messages'[e] = {}
  BY <1>2 DEF OnceInv, Overlap
<1>6. \A e \in Daemon \ {d} : Holds(e)' \cap Holds(d)' \subseteq together'
  BY <1>2, <1>3 DEF OnceInv, Marked, Holds
<1>7. \A e \in Daemon : \A i \in Holds(e)' : sent'[i] > 0 => i \in together'
  <2>1. ASSUME NEW i \in Holds(d)' PROVE ~(sent'[i] > 0)
    BY <1>2, <2>1 DEF OnceInv, Marked, LoopTypes, Holds
  <2>2. ASSUME NEW e \in Daemon \ {d}, NEW i \in Holds(e)', sent'[i] > 0 PROVE i \in together'
    BY <1>2, <2>2 DEF OnceInv, Overlap, Holds
  <2> QED
    BY <2>1, <2>2
<1>8. \A e, f \in Daemon : e # f => Holds(e)' \cap Holds(f)' \subseteq together'
  <2> SUFFICES ASSUME NEW e \in Daemon, NEW f \in Daemon, e # f
               PROVE  Holds(e)' \cap Holds(f)' \subseteq together'
    OBVIOUS
  <2>1. CASE e = d \/ f = d
    BY <1>6, <2>1
  <2>2. CASE e # d /\ f # d
    BY <1>2, <2>2 DEF OnceInv, Overlap, Holds
  <2> QED
    BY <2>1, <2>2
<1> QED
  BY <1>1, <1>4, <1>5, <1>7, <1>8 DEF OnceInv, Overlap

\* Marking moves a reminder from the rows of its loop to its messages.
LEMMA Marking ==
    ASSUME OnceInv, NEW d \in Daemon, NEW i \in Reminder, Mark(d, i)
    PROVE  OnceInv'
<1>1. LoopTypes'
  BY DEF OnceInv, LoopTypes, Mark, ThreadAt
<1>2. /\ rows'[d] = rows[d] \ {i} /\ messages'[d] = messages[d] \cup {i} /\ i \in rows[d]
      /\ \A e \in Daemon \ {d} : rows'[e] = rows[e] /\ messages'[e] = messages[e]
      /\ fired' = fired \cup {i} /\ together' = together /\ sent' = sent
  BY DEF OnceInv, LoopTypes, Mark, ThreadAt
<1>3. \A e \in Daemon : Holds(e)' = Holds(e)
  BY <1>2 DEF Holds
<1>4. Marked'
  BY <1>2 DEF OnceInv, Marked
<1>5. Overlap'
  <2>1. \A e \in Daemon : rows'[e] \cap messages'[e] = {}
    BY <1>2 DEF OnceInv, Overlap
  <2> QED
    BY <1>2, <1>3, <2>1 DEF OnceInv, Overlap
<1> QED
  BY <1>1, <1>4, <1>5 DEF OnceInv

\* Telling lets go of the one that is told: whoever else holds it had read it
\* together with this loop.
LEMMA Telling ==
    ASSUME OnceInv, NEW d \in Daemon, NEW i \in Reminder, Notify(d, i)
    PROVE  OnceInv'
<1>1. LoopTypes'
  BY DEF OnceInv, LoopTypes, Notify, ThreadAt
<1>2. /\ rows'[d] = {} /\ messages'[d] = messages[d] \ {i} /\ i \in messages[d]
      /\ \A e \in Daemon \ {d} : rows'[e] = rows[e] /\ messages'[e] = messages[e]
      /\ fired' = fired /\ together' = together
      /\ \A j \in Reminder \ {i} : sent'[j] = sent[j]
  BY DEF OnceInv, LoopTypes, Notify, ThreadAt
<1>3. Marked'
  BY <1>2 DEF OnceInv, Marked, LoopTypes
<1>4. \A e \in Daemon : Holds(e)' \subseteq Holds(e) /\ rows'[e] \cap messages'[e] = {}
  BY <1>2 DEF Holds, OnceInv, Overlap
<1>5. \A e \in Daemon : \A j \in Holds(e)' : sent'[j] > 0 => j \in together'
  <2> SUFFICES ASSUME NEW e \in Daemon, NEW j \in Holds(e)', sent'[j] > 0
               PROVE  j \in together
    BY <1>2
  <2>1. j \in Reminder /\ j \in Holds(e)
    BY <1>4 DEF OnceInv, LoopTypes, Holds
  <2>2. CASE j # i
    BY <1>2, <2>1, <2>2 DEF OnceInv, Overlap
  <2>3. CASE j = i
    <3>1. e # d /\ i \in Holds(d)
      BY <1>2, <2>3 DEF Holds
    <3> QED
      BY <2>1, <2>3, <3>1 DEF OnceInv, Overlap
  <2> QED
    BY <2>2, <2>3
<1> QED
  BY <1>1, <1>2, <1>3, <1>4, <1>5 DEF OnceInv, Overlap

\* Every other step of a daemon lets go, or touches nothing the invariant is
\* about.
LEMMA OtherSteps ==
    ASSUME OnceInv, NEW d \in Daemon,
           \/ Continue(d) \/ AllMarked(d) \/ Wait(d) \/ MarkFails(d) \/ NotifyFails(d)
           \/ Start(d) \/ Stop(d) \/ Boot(d) \/ Exit(d)
    PROVE  LetsGo(d) \/ UNCHANGED <<ripe, fired, rows, messages, point, sent, together>>
<1>1. {} \in SUBSET rows[d] /\ {} \in SUBSET messages[d] /\ messages[d] \in SUBSET messages[d]
  OBVIOUS
<1>2. CASE Continue(d)
  BY <1>1, <1>2 DEF Continue, LetsGo
<1>3. CASE AllMarked(d)
  BY <1>1, <1>3 DEF AllMarked, LetsGo
<1>4. CASE Wait(d)
  BY <1>1, <1>4 DEF Wait, LetsGo
<1>5. CASE MarkFails(d)
  BY <1>1, <1>5 DEF MarkFails, LetsGo
<1>6. CASE NotifyFails(d)
  BY <1>1, <1>6 DEF NotifyFails, LetsGo
<1>7. CASE Start(d)
  BY <1>1, <1>7 DEF Start, LetsGo, thread
<1>8. CASE Stop(d)
  BY <1>8 DEF Stop, thread
<1>9. CASE Boot(d)
  BY <1>9 DEF Boot, thread
<1>10. CASE Exit(d)
  BY <1>1, <1>10 DEF Exit, LetsGo
<1> QED
  BY <1>2, <1>3, <1>4, <1>5, <1>6, <1>7, <1>8, <1>9, <1>10

\* The invariant is kept by a step that leaves its variables alone.
LEMMA Untouched ==
    ASSUME OnceInv, UNCHANGED <<ripe, fired, rows, messages, point, sent, together>>
    PROVE  OnceInv'
BY DEF OnceInv, LoopTypes, Marked, Overlap, Holds

-----------------------------------------------------------------------------
\* Every step keeps the invariant.
LEMMA OnceStep ==
    ASSUME OnceInv, [LoopNext]_loopVars
    PROVE  OnceInv'
<1>1. CASE UNCHANGED loopVars
  BY <1>1, Untouched DEF loopVars
<1>2. ASSUME NEW i \in Reminder, ComeDue(i) PROVE OnceInv'
  <2>1. UNCHANGED <<fired, rows, messages, point, sent, together>> /\ ripe' = ripe \cup {i}
    BY <1>2 DEF ComeDue, thread
  <2> QED
    BY <2>1 DEF OnceInv, LoopTypes, Marked, Overlap, Holds
<1>3. ASSUME NEW d \in Daemon,
             \/ Continue(d) \/ AllMarked(d) \/ Wait(d) \/ MarkFails(d) \/ NotifyFails(d)
             \/ Start(d) \/ Stop(d) \/ Boot(d) \/ Exit(d)
      PROVE  OnceInv'
  BY <1>3, OtherSteps, LettingGo, Untouched
<1> QED
  BY <1>1, <1>2, <1>3, Reading, Marking, Telling DEF LoopNext, LoopStep

\* What the daemons tell maps to what Delivery tells: a message of a reminder
\* that was told before is one that two loops had read together.
LEMMA ToldStep ==
    ASSUME OnceInv, [LoopNext]_loopVars
    PROVE  [(\E i \in Reminder : Told!TellSettledOnce(i)) \/ Told!Settle]_(Told!vars)
<1> DEFINE told == [i \in Reminder |-> ToldOnce(i)]
<1>1. ASSUME NEW d \in Daemon, NEW i \in Reminder, Notify(d, i)
      PROVE  (told' = told /\ fired' = fired) \/ Told!TellSettledOnce(i)
  <2>1. /\ i \in fired /\ i \in Holds(d) /\ fired' = fired /\ together' = together
        /\ sent' = [sent EXCEPT ![i] = @ + 1] /\ sent \in [Reminder -> Nat]
    BY <1>1 DEF Notify, OnceInv, Marked, LoopTypes, Holds
  <2>2. \A j \in Reminder \ {i} : ToldOnce(j)' = ToldOnce(j)
    BY <2>1 DEF ToldOnce
  <2>3. CASE sent[i] = 0
    <3>1. ToldOnce(i) = 0 /\ ToldOnce(i)' = 1
      BY <2>1, <2>3 DEF ToldOnce
    <3>2. told' = [told EXCEPT ![i] = 1]
      BY <2>2, <3>1
    <3> QED
      BY <2>1, <3>1, <3>2 DEF Told!TellSettledOnce
  <2>4. CASE sent[i] > 0
    <3>1. i \in together
      BY <2>1, <2>4 DEF OnceInv, Overlap
    <3>2. ToldOnce(i)' = ToldOnce(i)
      BY <2>1, <2>4, <3>1 DEF ToldOnce
    <3> QED
      BY <2>1, <2>2, <3>2
  <2> QED
    BY <2>1, <2>3, <2>4
<1>2. fired' \subseteq Reminder
  BY OnceStep DEF OnceInv, LoopTypes
<1>3. ASSUME fired \subseteq fired', sent' = sent, together' = together PROVE Told!Settle
  BY <1>2, <1>3 DEF Told!Settle, ToldOnce
<1>4. ASSUME NEW d \in Daemon, ReadDue(d) PROVE Told!Settle
  <2>1. fired' = fired /\ sent' = sent
    BY <1>4 DEF ReadDue
  <2>2. \A j \in Reminder : j \in fired => (j \in together' <=> j \in together)
    BY <1>4 DEF ReadDue
  <2>3. \A j \in Reminder : ToldOnce(j)' = ToldOnce(j)
    BY <2>1, <2>2 DEF ToldOnce, OnceInv, Marked, LoopTypes
  <2> QED
    BY <1>2, <2>1, <2>3 DEF Told!Settle
<1>5. ASSUME NEW d \in Daemon, NEW i \in Reminder, Mark(d, i) PROVE Told!Settle
  BY <1>3, <1>5 DEF Mark
<1>6. ASSUME NEW i \in Reminder, ComeDue(i) PROVE Told!Settle
  BY <1>3, <1>6 DEF ComeDue
<1>7. ASSUME NEW d \in Daemon,
             \/ Continue(d) \/ AllMarked(d) \/ Wait(d) \/ MarkFails(d) \/ NotifyFails(d)
             \/ Start(d) \/ Stop(d) \/ Boot(d) \/ Exit(d)
      PROVE  Told!Settle
  <2>1. UNCHANGED <<fired, sent, together>>
    BY <1>7, OtherSteps DEF LetsGo
  <2> QED
    BY <1>3, <2>1
<1>8. ASSUME UNCHANGED loopVars PROVE Told!Settle
  BY <1>3, <1>8 DEF loopVars
<1>9. CASE \E d \in Daemon, i \in Reminder : Notify(d, i)
  <2>1. PICK d \in Daemon, i \in Reminder : Notify(d, i)
    BY <1>9
  <2>2. (told' = told /\ fired' = fired) \/ Told!TellSettledOnce(i)
    BY <1>1, <2>1
  <2> QED
    BY <2>2 DEF Told!vars
<1> QED
  BY <1>4, <1>5, <1>6, <1>7, <1>8, <1>9 DEF LoopNext, LoopStep

\* A reminder is marked before it is told, and told once, whatever daemons do to
\* each other, and wherever one raises, is stopped or ends (reminder_trigger):
\* only one that two daemons had read before either marked it is told by both.
THEOREM ToldOnceThm == LoopSpec => ToldAtMostOnce
<1>1. LoopInit => OnceInv
  BY DEF LoopInit, OnceInv, LoopTypes, Marked, Overlap, Holds
<1>2. LoopInit => Told!Init
  BY DEF LoopInit, Told!Init, ToldOnce
<1>3. OnceInv /\ [LoopNext]_loopVars => OnceInv'
  BY OnceStep
<1>4. OnceInv /\ [LoopNext]_loopVars
          => [(\E i \in Reminder : Told!TellSettledOnce(i)) \/ Told!Settle]_(Told!vars)
  BY ToldStep
<1> QED
  BY <1>1, <1>2, <1>3, <1>4, PTL DEF LoopSpec, ToldAtMostOnce, Told!AtMostOnce

-----------------------------------------------------------------------------
\* Whoever holds a reminder may still tell it, so what has been told and what
\* may be told count one per daemon; and outside check and the notifying loop
\* nothing is held.
Holders(i) == {d \in Daemon : i \in Holds(d)}

Counted == \A i \in fired : sent[i] + Cardinality(Holders(i)) <= Cardinality(Daemon)

HeldInCheck ==
    \A d \in Daemon :
       /\ point[d] \in {"none", "top", "read"} => rows[d] = {} /\ messages[d] = {}
       /\ point[d] = "notify" => rows[d] = {}

KeptInv ==
    /\ RemindersInv
    /\ Counted
    /\ HeldInCheck
    /\ faults \in Nat

\* Daemons are counted.
LEMMA HoldersFinite ==
    ASSUME NEW S \in SUBSET Daemon
    PROVE  Cardinality(S) \in Nat /\ Cardinality(S) <= Cardinality(Daemon)
           /\ \A T \in SUBSET S : Cardinality(T) \in Nat /\ Cardinality(T) <= Cardinality(S)
<1>1. IsFiniteSet(S) /\ Cardinality(S) <= Cardinality(Daemon)
  BY LoopAssumption, FS_Subset
<1>2. \A T \in SUBSET S : IsFiniteSet(T) /\ Cardinality(T) <= Cardinality(S)
  BY <1>1, FS_Subset
<1> QED
  BY <1>1, <1>2, FS_CardinalityType

\* A reminder that is told again takes a holder away; one newly marked was not
\* told.
LEMMA Counting ==
    ASSUME OnceInv, OnceInv', Counted,
           \A i \in fired' : \/ i \in fired /\ sent'[i] = sent[i] /\ Holders(i)' \subseteq Holders(i)
                             \/ i \notin fired /\ sent'[i] = sent[i]
                             \/ /\ i \in fired /\ sent'[i] = sent[i] + 1
                                /\ \E d \in Holders(i) : Holders(i)' \subseteq Holders(i) \ {d}
    PROVE  Counted' /\ \A i \in fired' : sent'[i] <= Cardinality(Daemon)
<1> SUFFICES ASSUME NEW i \in fired'
             PROVE  sent'[i] + Cardinality(Holders(i)') <= Cardinality(Daemon)
                    /\ sent'[i] <= Cardinality(Daemon)
  BY DEF Counted
<1>1. Holders(i) \in SUBSET Daemon /\ Holders(i)' \in SUBSET Daemon
  BY DEF Holders
<1>2. /\ Cardinality(Holders(i)) \in Nat /\ Cardinality(Holders(i)') \in Nat
      /\ Cardinality(Holders(i)') <= Cardinality(Daemon)
      /\ Cardinality(Daemon) \in Nat
  BY <1>1, HoldersFinite
<1>3. i \in Reminder /\ sent[i] \in Nat /\ sent'[i] \in Nat
  BY DEF OnceInv, LoopTypes
<1>4. CASE i \in fired /\ sent'[i] = sent[i] /\ Holders(i)' \subseteq Holders(i)
  <2>1. Cardinality(Holders(i)') <= Cardinality(Holders(i))
    BY <1>1, <1>4, HoldersFinite
  <2> QED
    BY <1>2, <1>3, <1>4, <2>1 DEF Counted
<1>5. CASE i \notin fired /\ sent'[i] = sent[i]
  <2>1. sent[i] = 0
    BY <1>3, <1>5 DEF OnceInv, Marked
  <2> QED
    BY <1>2, <1>5, <2>1
<1>6. CASE /\ i \in fired /\ sent'[i] = sent[i] + 1
           /\ \E d \in Holders(i) : Holders(i)' \subseteq Holders(i) \ {d}
  <2>1. PICK d \in Holders(i) : Holders(i)' \subseteq Holders(i) \ {d}
    BY <1>6
  <2>2. IsFiniteSet(Holders(i))
    BY <1>1, LoopAssumption, FS_Subset
  <2>3. Cardinality(Holders(i) \ {d}) = Cardinality(Holders(i)) - 1
    BY <2>1, <2>2, FS_RemoveElement
  <2>4. Holders(i) \ {d} \in SUBSET Daemon
    BY <1>1
  <2>5. Cardinality(Holders(i)') <= Cardinality(Holders(i) \ {d})
    BY <2>1, <2>4, HoldersFinite
  <2> QED
    BY <1>2, <1>3, <1>6, <2>3, <2>5 DEF Counted
<1> QED
  BY <1>4, <1>5, <1>6

\* What a step of a daemon may do to what others hold and to the calls.
LEMMA StepTypes ==
    ASSUME OnceInv, KeptInv, NEW d \in Daemon,
           NEW where \in {"none", "top", "read", "mark", "notify"}, NEW todo \in SUBSET Reminder,
           NEW out \in SUBSET Reminder, ThreadAt(d, where, todo, out)
    PROVE  /\ point' \in [Daemon -> {"none", "top", "read", "mark", "notify"}]
           /\ point'[d] = where /\ rows'[d] = todo /\ messages'[d] = out
           /\ \A e \in Daemon \ {d} : point'[e] = point[e] /\ rows'[e] = rows[e] /\ messages'[e] = messages[e]
BY DEF OnceInv, LoopTypes, ThreadAt

\* A thread that moves on without start, stop or the process changing.
LEMMA MovesOn ==
    ASSUME OnceInv, OnceInv', KeptInv, NEW d \in Daemon,
           NEW where \in {"none", "top", "read", "mark", "notify"}, NEW todo \in SUBSET ripe,
           NEW out \in SUBSET fired', ThreadAt(d, where, todo, out),
           ripe' = ripe, fired \subseteq fired', fired' \subseteq ripe, UNCHANGED caller, faults' \in Nat, faults <= faults',
           Alive(d), where = "none" => stopping[d] \/ faults' # 0,
           where \in {"none", "top", "read"} => todo = {} /\ out = {},
           where = "notify" => todo = {},
           \A i \in Reminder : sent'[i] >= sent[i], lost \subseteq lost',
           \A i \in fired' : i \in fired \/ i \in out,
           \A i \in messages[d] : i \in out \/ i \in lost' \/ sent'[i] > 0,
           Counted' /\ \A i \in fired' : sent'[i] <= Cardinality(Daemon)
    PROVE  KeptInv'
<1>1. /\ point' \in [Daemon -> {"none", "top", "read", "mark", "notify"}]
      /\ point'[d] = where /\ rows'[d] = todo /\ messages'[d] = out
      /\ \A e \in Daemon \ {d} : point'[e] = point[e] /\ rows'[e] = rows[e] /\ messages'[e] = messages[e]
  <2>1. todo \in SUBSET Reminder /\ out \in SUBSET Reminder
    BY DEF OnceInv, LoopTypes
  <2> QED
    BY <2>1, StepTypes
<1>2. UNCHANGED <<up, main, stopping>>
  BY DEF caller
<1>3. \A i \in Reminder : sent[i] \in Nat /\ sent'[i] \in Nat /\ (i \notin fired' => sent'[i] = 0)
  BY DEF OnceInv, LoopTypes, Marked
<1>4. Cardinality(Daemon) \in Nat
  BY HoldersFinite
<1>5. \A i \in Reminder : sent'[i] <= Cardinality(Daemon)
  BY <1>3, <1>4
<1>7. LoopTypeOK'
  BY <1>1, <1>2, <1>5 DEF KeptInv, RemindersInv, LoopTypeOK
<1>8. NoneForgotten'
  <2> SUFFICES ASSUME NEW i \in fired'
               PROVE  sent'[i] > 0 \/ i \in lost' \/ \E e \in Daemon : i \in messages'[e]
    BY DEF NoneForgotten
  <2>1. CASE i \in out
    BY <1>1, <2>1
  <2>2. CASE i \in fired /\ i \notin out
    <3>1. i \in Reminder
      BY DEF OnceInv, LoopTypes
    <3>2. sent[i] > 0 \/ i \in lost \/ \E e \in Daemon : i \in messages[e]
      BY <2>2 DEF KeptInv, RemindersInv, NoneForgotten
    <3>3. sent[i] > 0 => sent'[i] > 0
      BY <1>3, <3>1
    <3>4. ASSUME NEW e \in Daemon, i \in messages[e]
          PROVE  sent'[i] > 0 \/ i \in lost' \/ i \in messages'[e]
      BY <1>1, <2>2, <3>4
    <3> QED
      BY <3>2, <3>3, <3>4
  <2> QED
    BY <2>1, <2>2
<1>9. StartRuns'
  <2>1. faults' = 0 => faults = 0
    BY DEF KeptInv
  <2>2. \A e \in Daemon : Alive(e) /\ ~stopping[e] => Alive(e)' \/ faults' # 0
    BY <1>1 DEF Alive
  <2> QED
    BY <1>2, <2>1, <2>2, Zenon DEF KeptInv, RemindersInv, LoopTypeOK, StartRuns
<1>10. HeldInCheck'
  BY <1>1 DEF KeptInv, HeldInCheck
<1> QED
  BY <1>7, <1>8, <1>9, <1>10 DEF KeptInv, RemindersInv

\* What the daemons other than d hold does not change, and d holds no more of
\* what is marked.
LEMMA HoldersShrink ==
    ASSUME NEW d \in Daemon,
           \A e \in Daemon \ {d} : rows'[e] = rows[e] /\ messages'[e] = messages[e],
           NEW i, i \in rows'[d] \cup messages'[d] => i \in Holds(d)
    PROVE  Holders(i)' \subseteq Holders(i) /\ (i \notin Holds(d)' => Holders(i)' \subseteq Holders(i) \ {d})
BY DEF Holders, Holds

\* The steps of check and of the thread that neither mark nor tell.
LEMMA Checking ==
    ASSUME OnceInv, OnceInv', KeptInv, NEW d \in Daemon,
           Continue(d) \/ ReadDue(d) \/ AllMarked(d) \/ Wait(d) \/ MarkFails(d) \/ NotifyFails(d)
    PROVE  KeptInv'
<1>1. /\ fired' = fired /\ sent' = sent /\ UNCHANGED caller /\ ripe' = ripe /\ lost \subseteq lost'
      /\ Alive(d) /\ faults' \in {faults, faults + 1}
  BY DEF Continue, ReadDue, AllMarked, Wait, MarkFails, NotifyFails, Alive
<1>2. faults \in Nat /\ faults' \in Nat /\ faults <= faults'
  BY <1>1 DEF KeptInv
<1>3. PICK where \in {"none", "top", "read", "mark", "notify"}, todo \in SUBSET ripe,
           out \in SUBSET messages[d] :
         /\ ThreadAt(d, where, todo, out)
         /\ todo \cap fired = {}
         /\ where = "none" => stopping[d] \/ faults' # 0
         /\ where \in {"none", "top", "read"} => todo = {} /\ out = {}
         /\ where = "notify" => todo = {}
         /\ \A i \in messages[d] : i \in out \/ i \in lost'
  <2>1. CASE Continue(d)
    <3>1. PICK where \in {"none", "read"} : ThreadAt(d, where, {}, {})
                                           /\ (where = "none" => stopping[d])
      BY <2>1 DEF Continue
    <3>2. messages[d] = {}
      BY <2>1 DEF Continue, KeptInv, HeldInCheck
    <3> QED
      BY <3>1, <3>2
  <2>2. CASE ReadDue(d)
    <3>1. ThreadAt(d, "mark", ripe \ fired, {}) /\ messages[d] = {}
      BY <2>2 DEF ReadDue, KeptInv, HeldInCheck
    <3>2. (ripe \ fired) \cap fired = {} /\ ripe \ fired \in SUBSET ripe
      OBVIOUS
    <3> QED
      BY <3>1, <3>2
  <2>3. CASE AllMarked(d)
    BY <2>3 DEF AllMarked
  <2>4. CASE Wait(d)
    BY <2>4 DEF Wait
  <2>5. CASE MarkFails(d)
    BY <2>5 DEF MarkFails
  <2>6. CASE NotifyFails(d)
    <3>1. faults' = faults + 1 /\ lost' = lost \cup messages[d] /\ ThreadAt(d, "none", {}, {})
      BY <2>6 DEF NotifyFails
    <3>2. faults' # 0
      BY <1>2, <3>1
    <3> QED
      BY <3>1, <3>2
  <2> QED
    BY <2>1, <2>2, <2>3, <2>4, <2>5, <2>6
<1>4. messages[d] \subseteq fired' /\ fired' \subseteq ripe /\ fired \subseteq fired'
  BY <1>1 DEF KeptInv, RemindersInv, LoopTypeOK
<1>5. /\ rows'[d] = todo /\ messages'[d] = out
      /\ \A e \in Daemon \ {d} : rows'[e] = rows[e] /\ messages'[e] = messages[e]
  BY <1>3 DEF OnceInv, LoopTypes, ThreadAt
<1>6. \A i \in fired' : i \in fired /\ sent'[i] = sent[i] /\ Holders(i)' \subseteq Holders(i)
  <2> SUFFICES ASSUME NEW i \in fired PROVE Holders(i)' \subseteq Holders(i)
    BY <1>1
  <2>1. i \in rows'[d] \cup messages'[d] => i \in Holds(d)
    BY <1>3, <1>5 DEF Holds
  <2> QED
    BY <1>5, <2>1, HoldersShrink
<1>7. Counted' /\ \A i \in fired' : sent'[i] <= Cardinality(Daemon)
  BY <1>6, Counting DEF KeptInv
<1>8. \A i \in Reminder : sent'[i] >= sent[i]
  BY <1>1 DEF OnceInv, LoopTypes
<1>9. out \in SUBSET fired'
  BY <1>4
<1> QED
  BY <1>1, <1>2, <1>3, <1>4, <1>6, <1>7, <1>8, <1>9, MovesOn

\* Marking: the loop holds what it marks.
LEMMA MarkedIsKept ==
    ASSUME OnceInv, OnceInv', KeptInv, NEW d \in Daemon, NEW i \in Reminder, Mark(d, i)
    PROVE  KeptInv'
<1>1. /\ fired' = fired \cup {i} /\ sent' = sent /\ UNCHANGED caller /\ ripe' = ripe /\ lost' = lost
      /\ Alive(d) /\ faults' = faults /\ i \in rows[d]
      /\ ThreadAt(d, "mark", rows[d] \ {i}, messages[d] \cup {i})
  BY DEF Mark, Alive
<1>2. messages[d] \subseteq fired /\ fired \subseteq ripe /\ rows[d] \subseteq ripe
  BY DEF KeptInv, RemindersInv, LoopTypeOK
<1>3. /\ rows'[d] = rows[d] \ {i} /\ messages'[d] = messages[d] \cup {i}
      /\ \A e \in Daemon \ {d} : rows'[e] = rows[e] /\ messages'[e] = messages[e]
  BY <1>1 DEF OnceInv, LoopTypes, ThreadAt
<1>4. \A j : Holders(j)' \subseteq Holders(j)
  <2> TAKE j
  <2>1. j \in rows'[d] \cup messages'[d] => j \in Holds(d)
    BY <1>1, <1>3 DEF Holds
  <2> QED
    BY <1>3, <2>1, HoldersShrink
<1>5. Counted' /\ \A j \in fired' : sent'[j] <= Cardinality(Daemon)
  BY <1>1, <1>4, Counting DEF KeptInv
<1>6. \A j \in Reminder : sent'[j] >= sent[j]
  BY <1>1 DEF OnceInv, LoopTypes
<1>7. faults' \in Nat /\ faults <= faults'
  BY <1>1 DEF KeptInv
<1>8. /\ rows[d] \ {i} \in SUBSET ripe /\ messages[d] \cup {i} \in SUBSET fired' /\ fired' \subseteq ripe
      /\ fired \subseteq fired' /\ lost \subseteq lost'
      /\ \A j \in fired' : j \in fired \/ j \in messages[d] \cup {i}
      /\ \A j \in messages[d] : j \in messages[d] \cup {i}
  BY <1>1, <1>2
<1> QED
  BY <1>1, <1>5, <1>6, <1>7, <1>8, MovesOn

\* Telling: one holder less for one message more.
LEMMA ToldIsKept ==
    ASSUME OnceInv, OnceInv', KeptInv, NEW d \in Daemon, NEW i \in Reminder, Notify(d, i)
    PROVE  KeptInv'
<1>1. /\ fired' = fired /\ UNCHANGED caller /\ ripe' = ripe /\ lost' = lost
      /\ Alive(d) /\ faults' = faults /\ i \in messages[d]
      /\ ThreadAt(d, "notify", {}, messages[d] \ {i})
  BY DEF Notify, Alive
<1>2. /\ sent'[i] = sent[i] + 1 /\ sent[i] \in Nat
      /\ \A j \in Reminder \ {i} : sent'[j] = sent[j]
      /\ \A j \in Reminder : sent[j] \in Nat
  BY DEF Notify, OnceInv, LoopTypes
<1>3. messages[d] \subseteq fired /\ fired \subseteq ripe
  BY DEF KeptInv, RemindersInv, LoopTypeOK
<1>4. /\ rows'[d] = {} /\ messages'[d] = messages[d] \ {i}
      /\ \A e \in Daemon \ {d} : rows'[e] = rows[e] /\ messages'[e] = messages[e]
  BY <1>1 DEF OnceInv, LoopTypes, ThreadAt
<1>5. Holders(i)' \subseteq Holders(i) \ {d} /\ d \in Holders(i)
  <2>1. i \notin rows'[d] \cup messages'[d] /\ i \in Holds(d)
    BY <1>1, <1>4 DEF Holds
  <2> QED
    BY <1>4, <2>1, HoldersShrink DEF Holders, Holds
<1>6. \A j : Holders(j)' \subseteq Holders(j)
  <2> TAKE j
  <2>1. j \in rows'[d] \cup messages'[d] => j \in Holds(d)
    BY <1>4 DEF Holds
  <2> QED
    BY <1>4, <2>1, HoldersShrink
<1>7. Counted' /\ \A j \in fired' : sent'[j] <= Cardinality(Daemon)
  <2>1. \A j \in fired' : j \in Reminder
    BY <1>1 DEF OnceInv, LoopTypes
  <2> QED
    BY <1>1, <1>2, <1>5, <1>6, <2>1, Counting DEF KeptInv
<1>8. \A j \in Reminder : sent'[j] >= sent[j]
  BY <1>2
<1>9. faults' \in Nat /\ faults <= faults'
  BY <1>1 DEF KeptInv
<1>10. /\ {} \in SUBSET ripe /\ messages[d] \ {i} \in SUBSET fired' /\ fired' \subseteq ripe
       /\ fired \subseteq fired' /\ lost \subseteq lost'
       /\ \A j \in fired' : j \in fired
  BY <1>1, <1>3
<1>11. sent'[i] > 0
  BY <1>2
<1>12. \A j \in messages[d] : j \in messages[d] \ {i} \/ sent'[j] > 0
  BY <1>11
<1> QED
  BY <1>1, <1>7, <1>8, <1>9, <1>10, <1>12, MovesOn

\* The calls of the main thread, and the process coming and going.
LEMMA CallsKeep ==
    ASSUME OnceInv, OnceInv', KeptInv, NEW d \in Daemon, Start(d) \/ Stop(d) \/ Boot(d) \/ Exit(d)
    PROVE  KeptInv'
<1>1. fired' = fired /\ sent' = sent /\ ripe' = ripe /\ faults' \in {faults, faults + 1} /\ lost \subseteq lost'
  BY DEF Start, Stop, Boot, Exit
<1>2. /\ \/ rows'[d] = {} /\ messages'[d] = {} /\ point'[d] \in {"none", "top"}
         \/ rows'[d] = rows[d] /\ messages'[d] = messages[d] /\ point'[d] = point[d]
      /\ point' \in [Daemon -> {"none", "top", "read", "mark", "notify"}]
      /\ \A e \in Daemon \ {d} : point'[e] = point[e] /\ rows'[e] = rows[e] /\ messages'[e] = messages[e]
      /\ \A i \in messages[d] : i \in messages'[d] \/ i \in lost'
  <2>1. ASSUME NEW where \in {"none", "top"}, ThreadAt(d, where, {}, {})
        PROVE  /\ rows'[d] = {} /\ messages'[d] = {} /\ point'[d] = where
               /\ point' \in [Daemon -> {"none", "top", "read", "mark", "notify"}]
               /\ \A e \in Daemon \ {d} : point'[e] = point[e] /\ rows'[e] = rows[e] /\ messages'[e] = messages[e]
    BY <2>1, StepTypes
  <2>2. CASE Exit(d)
    BY <2>1, <2>2 DEF Exit
  <2>3. CASE UNCHANGED thread
    BY <2>3 DEF thread, OnceInv, LoopTypes
  <2>4. CASE Start(d) /\ ~Alive(d)
    <3>1. messages[d] = {}
      BY <2>4 DEF Alive, KeptInv, HeldInCheck
    <3> QED
      BY <2>1, <2>4, <3>1 DEF Start
  <2> QED
    BY <2>2, <2>3, <2>4 DEF Start, Stop, Boot
<1>3. Counted' /\ \A i \in fired' : sent'[i] <= Cardinality(Daemon)
  <2>1. ASSUME NEW i PROVE Holders(i)' \subseteq Holders(i)
    BY <1>2, HoldersShrink DEF Holds
  <2> QED
    BY <1>1, <2>1, Counting DEF KeptInv
<1>4. faults' \in Nat /\ (faults' = 0 => faults = 0)
  BY <1>1 DEF KeptInv
<1>5. /\ up' \subseteq Daemon /\ main' \in [Daemon -> {"stopped", "started", "ignored"}]
      /\ stopping' \in [Daemon -> BOOLEAN]
      /\ \A e \in Daemon \ {d} : (e \in up' <=> e \in up) /\ main'[e] = main[e] /\ stopping'[e] = stopping[e]
  <2>1. /\ up \subseteq Daemon /\ main \in [Daemon -> {"stopped", "started", "ignored"}]
        /\ stopping \in [Daemon -> BOOLEAN]
    BY DEF KeptInv, RemindersInv, LoopTypeOK
  <2>2. stopping' \in {stopping, [stopping EXCEPT ![d] = FALSE], [stopping EXCEPT ![d] = TRUE]}
    BY DEF Start, Stop, Boot, Exit
  <2>3. /\ \E m \in {"stopped", "started", "ignored"} : main' \in {main, [main EXCEPT ![d] = m]}
        /\ up' \in {up, up \cup {d}, up \ {d}}
    BY DEF Start, Stop, Boot, Exit
  <2> QED
    BY <2>1, <2>2, <2>3
<1>6. d \in up' /\ main'[d] = "started" /\ faults' = 0 => Alive(d)' /\ ~stopping'[d]
  <2>1. CASE Start(d) /\ Alive(d)
    BY <2>1, <1>5 DEF Start, KeptInv, RemindersInv, LoopTypeOK
  <2>2. CASE Start(d) /\ ~Alive(d)
    <3>1. ThreadAt(d, "top", {}, {}) /\ stopping' = [stopping EXCEPT ![d] = FALSE]
      BY <2>2 DEF Start
    <3>2. point'[d] = "top"
      BY <3>1, StepTypes
    <3>3. stopping'[d] = FALSE
      BY <3>1 DEF KeptInv, RemindersInv, LoopTypeOK
    <3> QED
      BY <3>2, <3>3 DEF Alive
  <2>3. CASE Stop(d) \/ Boot(d)
    BY <2>3 DEF Stop, Boot, KeptInv, RemindersInv, LoopTypeOK
  <2>4. CASE Exit(d)
    BY <2>4 DEF Exit
  <2> QED
    BY <2>1, <2>2, <2>3, <2>4
<1>7. StartRuns'
  <2> SUFFICES ASSUME NEW e \in up', main'[e] = "started", faults' = 0
               PROVE  Alive(e)' /\ ~stopping'[e]
    BY DEF StartRuns
  <2>1. CASE e = d
    BY <1>6, <2>1
  <2>2. CASE e # d
    <3>1. e \in Daemon \ {d} /\ e \in up /\ main[e] = "started" /\ faults = 0
      BY <1>4, <1>5, <2>2
    <3>2. Alive(e) /\ ~stopping[e]
      BY <3>1 DEF KeptInv, RemindersInv, StartRuns
    <3> QED
      BY <1>2, <1>5, <3>1, <3>2 DEF Alive
  <2> QED
    BY <2>1, <2>2
<1>8. LoopTypeOK'
  <2>1. \A i \in Reminder : i \notin fired' => sent'[i] = 0 /\ 0 <= Cardinality(Daemon)
    BY HoldersFinite DEF OnceInv, LoopTypes, Marked
  <2>2. \A i \in Reminder : sent'[i] <= Cardinality(Daemon)
    BY <1>3, <2>1
  <2> QED
    BY <1>1, <1>2, <1>5, <2>2 DEF KeptInv, RemindersInv, LoopTypeOK
<1>9. NoneForgotten'
  BY <1>1, <1>2 DEF KeptInv, RemindersInv, NoneForgotten
<1>10. HeldInCheck'
  BY <1>2 DEF KeptInv, HeldInCheck
<1> QED
  BY <1>3, <1>4, <1>7, <1>8, <1>9, <1>10 DEF KeptInv, RemindersInv

\* Every step keeps what is counted.
LEMMA KeptStep ==
    ASSUME OnceInv, KeptInv, [LoopNext]_loopVars
    PROVE  KeptInv'
<1>1. OnceInv'
  BY OnceStep
<1>2. ASSUME UNCHANGED <<fired, caller, thread, faults, sent, lost>>, ripe \subseteq ripe', ripe' \subseteq Reminder
      PROVE  KeptInv'
  <2>1. \A i : Holders(i)' = Holders(i)
    BY <1>2 DEF Holders, Holds, thread
  <2>2. Counted'
    BY <1>2, <2>1 DEF KeptInv, Counted
  <2>3. LoopTypeOK'
    BY <1>2 DEF KeptInv, RemindersInv, LoopTypeOK, thread, caller
  <2>4. StartRuns' /\ NoneForgotten' /\ HeldInCheck'
    BY <1>2 DEF KeptInv, RemindersInv, StartRuns, Alive, NoneForgotten, HeldInCheck, thread, caller
  <2> QED
    BY <1>2, <2>2, <2>3, <2>4 DEF KeptInv, RemindersInv
<1>3. ripe \subseteq Reminder
  BY DEF OnceInv, LoopTypes
<1>4. CASE UNCHANGED loopVars
  BY <1>2, <1>3, <1>4 DEF loopVars, thread, caller
<1>5. ASSUME NEW i \in Reminder, ComeDue(i) PROVE KeptInv'
  BY <1>2, <1>3, <1>5 DEF ComeDue
<1> QED
  BY <1>1, <1>4, <1>5, Checking, MarkedIsKept, ToldIsKept, CallsKeep DEF LoopNext, LoopStep

\* No reminder that was marked is forgotten but in the ways named (an exception,
\* the end of a daemon), none is told more often than there are daemons, and a
\* loop that was started runs.
THEOREM RemindersThm == LoopSpec => []RemindersInv
<1>1. LoopInit => OnceInv
  BY DEF LoopInit, OnceInv, LoopTypes, Marked, Overlap, Holds
<1>2. LoopInit => KeptInv
  <2> SUFFICES ASSUME LoopInit PROVE KeptInv
    OBVIOUS
  <2>1. Counted /\ HeldInCheck /\ NoneForgotten /\ StartRuns
    BY DEF LoopInit, Counted, HeldInCheck, NoneForgotten, StartRuns
  <2>2. LoopTypeOK
    BY HoldersFinite DEF LoopInit, LoopTypeOK
  <2> QED
    BY <2>1, <2>2 DEF LoopInit, KeptInv, RemindersInv
<1>3. OnceInv /\ KeptInv /\ [LoopNext]_loopVars => OnceInv' /\ KeptInv'
  BY OnceStep, KeptStep
<1>4. KeptInv => RemindersInv
  BY DEF KeptInv
<1> QED
  BY <1>1, <1>2, <1>3, <1>4, PTL DEF LoopSpec

-----------------------------------------------------------------------------
(* The registry watcher. *)

Stand == {"free", "refresh", "refresh to poll", "refreshed", "stopping",
          "over", "made", "armed", "arming"}

\* Under the lock the tools are those of before and some of the rows read.
ToolsGrow ==
    /\ known \cup orphans \subseteq tools
    /\ tools \subseteq known \cup orphans \cup seen
    /\ orphans \cap known = {}

\* Only _timer holds a timer that was not started, or, unless one escaped, one
\* that waits; and a tick that has made its successor can start it.
TimersHeld ==
    /\ \A t \in Timer : does[t] = "made" => t = current
    /\ does[Host] = "stopping" => asked = "stopped"
    /\ ~escaped =>
          /\ \A t, u \in Armed \cup Ticking : t = u
          /\ Armed \subseteq {current}
          /\ \A t \in Timer : does[t] = "arming" => current # NoOne /\ does[current] = "made"

WatcherIInv ==
    /\ WatcherInv
    /\ does \in [Actor -> Stand] /\ raises \in Nat /\ orphans \subseteq Slug /\ tools \subseteq Slug
    /\ ToolsGrow
    /\ TimersHeld

\* The host is no timer.
LEMMA Names == Host \in Actor /\ NoOne \notin Actor /\ Host \notin Timer /\ Timer \subseteq Actor
BY WatcherAssumption DEF Actor, Host, NoOne

\* What refresh does not touch, and what the timers do not touch.
LEMMA ToolsQuiet ==
    ASSUME WatcherIInv, UNCHANGED refreshing
    PROVE  /\ ToolsKnown' /\ ToolsGrow' /\ orphans' \subseteq Slug /\ tools' \subseteq Slug
           /\ known' \subseteq Slug /\ seen' \subseteq Slug /\ (holder' = NoOne => seen' = {})
BY DEF WatcherIInv, WatcherInv, WatcherTypeOK, ToolsKnown, ToolsGrow, refreshing

\* A timer that fires, or a tick that refreshes, with the timers as they are.
LEMMA TimersQuiet ==
    ASSUME WatcherIInv, UNCHANGED <<current, asked, escaped>>, raises' = raises,
           does' \in [Actor -> Stand],
           \A t \in Timer : \/ does'[t] = does[t] 
                            \/ does[t] = "armed" /\ does'[t] = "refresh"
                            \/ does[t] = "refresh" /\ does'[t] = "refreshed",
           does'[Host] = "stopping" => does[Host] = "stopping"
    PROVE  TimersHeld' /\ StopStops' /\ PollingGoesOn'
<1> USE Names
<1>1. Ticking' \cup Armed' = Armed \cup Ticking /\ Armed' \subseteq Armed
  BY DEF Ticking, Armed
<1>2. \A t \in Timer : (does'[t] = "made" <=> does[t] = "made")
                    /\ (does'[t] = "arming" <=> does[t] = "arming")
  OBVIOUS
<1>3. current \in Timer \cup {NoOne}
  BY DEF WatcherIInv, WatcherInv, WatcherTypeOK
<1>4. TimersHeld'
  BY <1>1, <1>2, <1>3 DEF WatcherIInv, TimersHeld
<1>5. StopStops' /\ PollingGoesOn'
  BY <1>1 DEF WatcherIInv, WatcherInv, StopStops, PollingGoesOn
<1> QED
  BY <1>4, <1>5

\* The host's calls take nothing away.
LEMMA HostCalls ==
    ASSUME WatcherIInv, CallNotify \/ StartPolling
    PROVE  WatcherIInv'
<1> USE Names
<1>1. PICK to \in {"refresh", "refresh to poll"} : does[Host] = "free" /\ Goes(Host, to)
  BY DEF CallNotify, StartPolling
<1>2. UNCHANGED <<active, refreshing, current, edits, raises, asked, escaped>>
  BY DEF CallNotify, StartPolling
<1>3. /\ does' \in [Actor -> Stand] /\ does'[Host] = to
      /\ \A t \in Timer : does'[t] = does[t]
  BY <1>1 DEF Goes, WatcherIInv, Stand
<1>4. TimersHeld' /\ StopStops' /\ PollingGoesOn'
  BY <1>1, <1>2, <1>3, TimersQuiet
<1>5. WatcherTypeOK'
  BY <1>1, <1>2, <1>3 DEF WatcherIInv, WatcherInv, WatcherTypeOK, refreshing, Actor
<1> QED
  BY <1>2, <1>3, <1>4, <1>5, ToolsQuiet DEF WatcherIInv, WatcherInv

\* SetTimer, for the actors but the one whose timer goes.
LEMMA Setting ==
    ASSUME WatcherIInv, NEW t, NEW others \in [Actor -> Stand], SetTimer(t, others)
    PROVE  /\ current' = t /\ does' \in [Actor -> Stand]
           /\ \A a \in Actor : does'[a] = IF a = current /\ does[a] = "made" /\ a # t
                                          THEN "over" ELSE others[a]
BY DEF SetTimer, Stand

\* start_polling: its timer is the only one, unless one escaped.
LEMMA ArmingFirst ==
    ASSUME WatcherIInv, NEW t \in Timer, ArmFirst(t)
    PROVE  WatcherIInv'
<1> USE Names
<1> DEFINE others == [does EXCEPT ![Host] = "free", ![t] = "armed"]
<1>1. /\ does[Host] = "refreshed" /\ does[t] = "over" /\ SetTimer(t, others)
      /\ escaped' = (escaped \/ Armed # {} \/ Ticking # {}) /\ asked' = "polling"
      /\ UNCHANGED <<active, refreshing, bounds>>
  BY DEF ArmFirst
<1>2. others \in [Actor -> Stand]
  BY DEF WatcherIInv, Stand
<1>3. /\ current' = t /\ does' \in [Actor -> Stand] /\ does'[Host] = "free" /\ does'[t] = "armed"
      /\ \A u \in Timer \ {t} : does'[u] = IF does[u] = "made" THEN "over" ELSE does[u]
  <2>1. /\ current' = t /\ does' \in [Actor -> Stand]
        /\ \A a \in Actor : does'[a] = IF a = current /\ does[a] = "made" /\ a # t
                                          THEN "over" ELSE others[a]
    BY <1>1, <1>2, Setting
  <2> QED
    BY <1>1, <2>1 DEF WatcherIInv, TimersHeld
<1>4. \A u \in Timer : does'[u] # "made"
  BY <1>3
<1>5. ~escaped' => Armed' = {t} /\ Ticking' = {}
  BY <1>1, <1>3 DEF Armed, Ticking
<1>6. TimersHeld'
  <2>1. ~escaped' => \A u \in Timer : does'[u] # "arming"
    BY <1>5 DEF Ticking
  <2> QED
    BY <1>3, <1>4, <1>5, <2>1 DEF TimersHeld
<1>7. StopStops' /\ PollingGoesOn'
  BY <1>1, <1>5 DEF StopStops, PollingGoesOn
<1>8. WatcherTypeOK'
  BY <1>1, <1>3 DEF WatcherIInv, WatcherInv, WatcherTypeOK, refreshing, Actor
<1> QED
  BY <1>1, <1>3, <1>6, <1>7, <1>8, ToolsQuiet DEF WatcherIInv, WatcherInv, bounds

\* stop: what is under way escapes, what waits is cancelled.
LEMMA Stopping ==
    ASSUME WatcherIInv, StopPolling
    PROVE  WatcherIInv'
<1> USE Names
<1>1. /\ does[Host] = "free" /\ asked' = "stopped" /\ escaped' = (escaped \/ Ticking # {})
      /\ UNCHANGED <<active, refreshing, current, edits, raises>>
  BY DEF StopPolling
<1>2. /\ does' \in [Actor -> Stand] /\ does'[Host] = "stopping"
      /\ \A u \in Timer : does'[u] = IF u = current /\ does[u] \in {"armed", "made"} THEN "over" ELSE does[u]
  BY DEF StopPolling, WatcherIInv, Stand
<1>3. Armed' \subseteq Armed /\ Ticking' = Ticking /\ \A u \in Timer : does'[u] # "made"
  BY <1>2 DEF Armed, Ticking, WatcherIInv, TimersHeld
<1>4. ~escaped' => Armed' = {} /\ Ticking' = {}
  BY <1>1, <1>2, <1>3 DEF Armed, WatcherIInv, TimersHeld
<1>5. TimersHeld'
  <2>1. ~escaped' => \A u \in Timer : does'[u] # "arming"
    BY <1>4 DEF Ticking
  <2> QED
    BY <1>1, <1>3, <1>4, <2>1 DEF TimersHeld
<1>6. StopStops' /\ PollingGoesOn'
  BY <1>1, <1>4 DEF StopStops, PollingGoesOn
<1>7. WatcherTypeOK'
  BY <1>1, <1>2 DEF WatcherIInv, WatcherInv, WatcherTypeOK, refreshing, Actor
<1> QED
  BY <1>1, <1>2, <1>5, <1>6, <1>7, ToolsQuiet DEF WatcherIInv, WatcherInv

\* stop, once more under the lock: there is no timer any more.
LEMMA Forgetting ==
    ASSUME WatcherIInv, Forget
    PROVE  WatcherIInv'
<1> USE Names
<1> DEFINE others == [does EXCEPT ![Host] = "free"]
<1>1. /\ does[Host] = "stopping" /\ SetTimer(NoOne, others)
      /\ UNCHANGED <<active, refreshing, bounds, asked, escaped>>
  BY DEF Forget
<1>2. others \in [Actor -> Stand]
  BY DEF WatcherIInv, Stand
<1>3. /\ current' = NoOne /\ does' \in [Actor -> Stand] /\ does'[Host] = "free"
      /\ \A u \in Timer : \/ does'[u] = does[u]
                          \/ u = current /\ does[u] = "made" /\ does'[u] = "over"
  <2>1. /\ current' = NoOne /\ does' \in [Actor -> Stand]
        /\ \A a \in Actor : does'[a] = IF a = current /\ does[a] = "made" /\ a # NoOne
                                          THEN "over" ELSE others[a]
    BY <1>1, <1>2, Setting
  <2> QED
    BY <1>1, <2>1 DEF WatcherIInv
<1>4. Armed' = Armed /\ Ticking' = Ticking
  BY <1>3 DEF Armed, Ticking
<1>5. asked = "stopped" /\ (~escaped => Armed = {} /\ Ticking = {})
  BY <1>1 DEF WatcherIInv, WatcherInv, TimersHeld, StopStops
<1>6. TimersHeld'
  <2>1. \A u \in Timer : does'[u] # "made"
    BY <1>1, <1>3 DEF WatcherIInv, TimersHeld, SetTimer
  <2>2. ~escaped' => \A u \in Timer : does'[u] # "arming"
    BY <1>1, <1>4, <1>5 DEF Ticking
  <2> QED
    BY <1>1, <1>3, <1>4, <1>5, <2>1, <2>2 DEF TimersHeld
<1>7. StopStops' /\ PollingGoesOn'
  BY <1>1, <1>4, <1>5 DEF StopStops, PollingGoesOn
<1>8. WatcherTypeOK'
  BY <1>1, <1>3 DEF WatcherIInv, WatcherInv, WatcherTypeOK, refreshing, Actor
<1> QED
  BY <1>1, <1>3, <1>6, <1>7, <1>8, ToolsQuiet DEF WatcherIInv, WatcherInv, bounds

\* The steps of refresh under the lock.
LEMMA Refreshing ==
    ASSUME WatcherIInv, NEW a \in Actor, RefreshStep(a)
    PROVE  WatcherIInv'
<1> USE Names
<1>1. UNCHANGED <<active, current, bounds, asked, escaped>>
  BY DEF RefreshStep, ReadRows, Reconcile, Register
<1>2. CASE ReadRows(a)
  <2>1. /\ holder = NoOne /\ does[a] \in {"refresh", "refresh to poll"} /\ seen' = active
        /\ holder' = a /\ UNCHANGED <<known, tools, does, orphans>>
    BY <1>2 DEF ReadRows
  <2>2. ToolsGrow' /\ ToolsKnown'
    BY <2>1 DEF WatcherIInv, WatcherInv, WatcherTypeOK, ToolsGrow, ToolsKnown
  <2>3. WatcherTypeOK'
    BY <1>1, <2>1 DEF WatcherIInv, WatcherInv, WatcherTypeOK
  <2>4. TimersHeld' /\ StopStops' /\ PollingGoesOn'
    BY <1>1, <2>1, TimersQuiet DEF WatcherIInv, bounds
  <2> QED
    BY <1>1, <2>1, <2>2, <2>3, <2>4 DEF WatcherIInv, WatcherInv, bounds
<1>3. ASSUME NEW s \in Slug, Register(a, s) PROVE WatcherIInv'
  <2>1. /\ holder = a /\ s \in (seen \ known) \ tools /\ tools' = tools \cup {s}
        /\ UNCHANGED <<known, holder, seen, does, orphans>>
    BY <1>3 DEF Register
  <2>2. ToolsGrow' /\ ToolsKnown'
    BY <2>1 DEF WatcherIInv, WatcherInv, WatcherTypeOK, ToolsGrow, ToolsKnown
  <2>3. WatcherTypeOK'
    BY <1>1, <2>1 DEF WatcherIInv, WatcherInv, WatcherTypeOK
  <2>4. TimersHeld' /\ StopStops' /\ PollingGoesOn'
    BY <1>1, <2>1, TimersQuiet DEF WatcherIInv, bounds
  <2> QED
    BY <1>1, <2>1, <2>2, <2>3, <2>4 DEF WatcherIInv, WatcherInv, bounds
<1>4. CASE Reconcile(a)
  <2>1. /\ holder = a /\ seen \ known \subseteq tools /\ tools' = tools \ (known \ seen)
        /\ orphans' = orphans \ (known \cup seen) /\ known' = seen /\ holder' = NoOne /\ seen' = {}
        /\ Goes(a, AfterRefresh(a))
    BY <1>4 DEF Reconcile
  <2>2. ToolsGrow' /\ ToolsKnown'
    BY <2>1 DEF WatcherIInv, ToolsGrow, ToolsKnown
  <2>3. does[a] \in {"refresh", "refresh to poll"} /\ (a # Host => does[a] = "refresh")
    BY <2>1 DEF WatcherIInv, WatcherInv, WatcherTypeOK, Actor
  <2>4. does' \in [Actor -> Stand] /\ \A b \in Actor \ {a} : does'[b] = does[b]
    BY <2>1 DEF Goes, AfterRefresh, WatcherIInv, Stand
  <2>5. does'[a] \in {"free", "refreshed"} /\ (a # Host => does'[a] = "refreshed")
    BY <2>1 DEF Goes, AfterRefresh, WatcherIInv, Stand
  <2>6. TimersHeld' /\ StopStops' /\ PollingGoesOn'
    BY <1>1, <2>3, <2>4, <2>5, TimersQuiet DEF WatcherIInv, bounds
  <2>7. WatcherTypeOK'
    BY <1>1, <2>1, <2>4, <2>5 DEF WatcherIInv, WatcherInv, WatcherTypeOK, Actor
  <2> QED
    BY <1>1, <2>1, <2>2, <2>4, <2>6, <2>7 DEF WatcherIInv, WatcherInv, bounds
<1> QED
  BY <1>2, <1>3, <1>4 DEF RefreshStep

\* refresh raises: its tools are orphans, and the timer is over.
LEMMA Raising ==
    ASSUME WatcherIInv, NEW a \in Actor, RefreshRaises(a)
    PROVE  WatcherIInv'
<1> USE Names
<1>1. /\ holder = a /\ raises' = raises + 1 /\ orphans' = orphans \cup (tools \ known)
      /\ holder' = NoOne /\ seen' = {} /\ Goes(a, IF a = Host THEN "free" ELSE "over")
      /\ UNCHANGED <<active, known, tools, current, edits, calls, asked, escaped>>
  BY DEF RefreshRaises
<1>2. ToolsGrow' /\ ToolsKnown'
  BY <1>1 DEF WatcherIInv, ToolsGrow, ToolsKnown
<1>3. does[a] \in {"refresh", "refresh to poll"}
  BY <1>1 DEF WatcherIInv, WatcherInv, WatcherTypeOK
<1>4. /\ does' \in [Actor -> Stand] /\ \A b \in Actor \ {a} : does'[b] = does[b]
      /\ does'[a] = IF a = Host THEN "free" ELSE "over"
  BY <1>1 DEF Goes, WatcherIInv, Stand
<1>5. Armed' = Armed /\ Ticking' \subseteq Ticking /\ \A t \in Timer : does'[t] \in {does[t], "over"}
  BY <1>3, <1>4 DEF Armed, Ticking
<1>6. current \in Timer \cup {NoOne}
  BY DEF WatcherIInv, WatcherInv, WatcherTypeOK
<1>7. TimersHeld'
  <2>1. \A t \in Timer : does[t] = "made" <=> does'[t] = "made"
    BY <1>3, <1>4
  <2> QED
    BY <1>1, <1>4, <1>5, <1>6, <2>1 DEF WatcherIInv, TimersHeld
<1>8. raises' \in Nat /\ raises' # 0
  BY <1>1 DEF WatcherIInv
<1>9. StopStops' /\ PollingGoesOn'
  BY <1>1, <1>5, <1>8 DEF WatcherIInv, WatcherInv, StopStops, PollingGoesOn
<1>10. WatcherTypeOK'
  BY <1>1, <1>4 DEF WatcherIInv, WatcherInv, WatcherTypeOK, Actor
<1> QED
  BY <1>1, <1>2, <1>4, <1>7, <1>8, <1>9, <1>10 DEF WatcherIInv, WatcherInv

\* A timer fires, makes its successor, starts it.
LEMMA Ticks ==
    ASSUME WatcherIInv, NEW t \in Timer, Fire(t) \/ StartTimer(t) \/ \E n \in Timer : NewTimer(t, n)
    PROVE  WatcherIInv'
<1> USE Names
<1>1. CASE Fire(t)
  <2>1. /\ does[t] = "armed" /\ Goes(t, "refresh")
        /\ UNCHANGED <<active, refreshing, current, bounds, asked, escaped>>
    BY <1>1 DEF Fire
  <2>2. does' \in [Actor -> Stand] /\ does'[t] = "refresh" /\ \A b \in Actor \ {t} : does'[b] = does[b]
    BY <2>1 DEF Goes, WatcherIInv, Stand
  <2>3. TimersHeld' /\ StopStops' /\ PollingGoesOn'
    BY <2>1, <2>2, TimersQuiet DEF bounds
  <2>4. WatcherTypeOK'
    BY <2>1, <2>2 DEF WatcherIInv, WatcherInv, WatcherTypeOK, refreshing, Actor
  <2> QED
    BY <2>1, <2>2, <2>3, <2>4, ToolsQuiet DEF WatcherIInv, WatcherInv, bounds
<1>2. CASE StartTimer(t)
  <2>1. /\ does[t] = "arming" /\ UNCHANGED <<active, refreshing, current, bounds, asked, escaped>>
    BY <1>2 DEF StartTimer
  <2>2. /\ does' \in [Actor -> Stand] /\ does'[t] = "over" /\ does'[Host] = does[Host]
        /\ \A u \in Timer \ {t} : does'[u] = IF u = current /\ does[u] = "made" THEN "armed" ELSE does[u]
    BY <1>2, WatcherAssumption DEF StartTimer, WatcherIInv, WatcherInv, WatcherTypeOK, Stand, Actor
  <2>3. \A u \in Timer : does'[u] # "made"
    BY <2>1, <2>2 DEF WatcherIInv, TimersHeld
  <2>4. ~escaped => /\ Ticking = {t} /\ Armed = {} /\ current \in Timer \ {t} /\ does[current] = "made"
    <3>1. t \in Ticking
      BY <2>1 DEF Ticking
    <3>2. ~escaped => Ticking = {t} /\ Armed \subseteq {t}
      BY <3>1 DEF WatcherIInv, TimersHeld
    <3>3. t \notin Armed
      BY <2>1 DEF Armed
    <3> QED
      BY <2>1, <3>2, <3>3 DEF WatcherIInv, WatcherInv, WatcherTypeOK, TimersHeld
  <2>5. ~escaped => Armed' = {current} /\ Ticking' = {}
    BY <2>2, <2>4 DEF Armed, Ticking
  <2>6. TimersHeld'
    <3>1. ~escaped' => \A u \in Timer : does'[u] # "arming"
      BY <2>1, <2>5 DEF Ticking
    <3> QED
      BY <2>1, <2>2, <2>3, <2>5, <3>1 DEF WatcherIInv, TimersHeld
  <2>7. StopStops' /\ PollingGoesOn'
    BY <2>1, <2>4, <2>5 DEF WatcherIInv, WatcherInv, StopStops, PollingGoesOn
  <2>8. WatcherTypeOK'
    BY <2>1, <2>2 DEF WatcherIInv, WatcherInv, WatcherTypeOK, refreshing, Actor
  <2> QED
    BY <2>1, <2>2, <2>6, <2>7, <2>8, ToolsQuiet DEF WatcherIInv, WatcherInv, bounds
<1>3. ASSUME NEW n \in Timer, NewTimer(t, n) PROVE WatcherIInv'
  <2> DEFINE others == [does EXCEPT ![t] = "arming", ![n] = "made"]
  <2>1. /\ does[t] = "refreshed" /\ does[n] = "over" /\ SetTimer(n, others)
        /\ UNCHANGED <<active, refreshing, bounds, asked, escaped>>
    BY <1>3 DEF NewTimer
  <2>2. others \in [Actor -> Stand]
    BY DEF WatcherIInv, Stand
  <2>3. /\ current' = n /\ does' \in [Actor -> Stand] /\ does'[Host] = does[Host] /\ does'[n] = "made"
        /\ does'[t] = "arming" /\ n # t
        /\ \A u \in Timer \ {n, t} : does'[u] = IF does[u] = "made" THEN "over" ELSE does[u]
    <3>1. /\ current' = n /\ does' \in [Actor -> Stand]
          /\ \A a \in Actor : does'[a] = IF a = current /\ does[a] = "made" /\ a # n
                                            THEN "over" ELSE others[a]
      BY <2>1, <2>2, Setting
    <3>2. n # t /\ (does[Host] # "made")
      BY <2>1 DEF WatcherIInv, WatcherInv, WatcherTypeOK
    <3> QED
      BY <2>1, <3>1, <3>2 DEF WatcherIInv, TimersHeld
  <2>4. \A u \in Timer : does'[u] = "made" => u = n
    BY <2>3
  <2>5. Armed' = Armed /\ Ticking' = Ticking
    BY <2>1, <2>3 DEF Armed, Ticking
  <2>6. ~escaped => Armed = {} /\ Ticking = {t}
    <3>1. t \in Ticking /\ t \notin Armed
      BY <2>1 DEF Ticking, Armed
    <3> QED
      BY <3>1 DEF WatcherIInv, TimersHeld
  <2>7. TimersHeld'
    BY <2>1, <2>3, <2>4, <2>5, <2>6 DEF WatcherIInv, TimersHeld
  <2>8. StopStops' /\ PollingGoesOn'
    BY <2>1, <2>5 DEF WatcherIInv, WatcherInv, StopStops, PollingGoesOn, bounds
  <2>9. WatcherTypeOK'
    BY <2>1, <2>3 DEF WatcherIInv, WatcherInv, WatcherTypeOK, refreshing, Actor
  <2> QED
    BY <2>1, <2>3, <2>7, <2>8, <2>9, ToolsQuiet DEF WatcherIInv, WatcherInv, bounds
<1> QED
  BY <1>1, <1>2, <1>3

\* Whatever refreshes, raises and calls of stop come between (agent_factory's
\* registry watcher): the tools are those of the rows or orphans of a refresh that
\* raised, stop leaves no timer but one it met under way, and polling goes on.
THEOREM WatcherThm == WatcherInit /\ [][WatcherNext]_watcherVars => []WatcherInv
<1> USE Names
<1>1. WatcherInit => WatcherIInv
  <2> SUFFICES ASSUME WatcherInit PROVE WatcherIInv
    OBVIOUS
  <2>1. /\ does \in [Actor -> Stand] /\ does[Host] = "free" /\ \A t \in Timer : does[t] = "over"
    BY DEF WatcherInit, Stand
  <2>2. Armed = {} /\ Ticking = {}
    BY <2>1 DEF Armed, Ticking
  <2> QED
    BY <2>1, <2>2 DEF WatcherInit, WatcherIInv, WatcherInv, WatcherTypeOK, ToolsKnown, ToolsGrow, StopStops,
       PollingGoesOn, TimersHeld
<1>2. WatcherIInv /\ [WatcherNext]_watcherVars => WatcherIInv'
  <2> SUFFICES ASSUME WatcherIInv, [WatcherNext]_watcherVars PROVE WatcherIInv'
    OBVIOUS
  <2>1. ASSUME UNCHANGED <<refreshing, does, current, raises, asked, escaped>>, active' \subseteq Slug
        PROVE  WatcherIInv'
    <3>1. WatcherTypeOK'
      BY <2>1 DEF WatcherIInv, WatcherInv, WatcherTypeOK, refreshing
    <3>2. TimersHeld' /\ StopStops' /\ PollingGoesOn'
      BY <2>1, TimersQuiet DEF WatcherIInv
    <3> QED
      BY <2>1, <3>1, <3>2, ToolsQuiet DEF WatcherIInv, WatcherInv
  <2>2. ASSUME NEW s \in Slug, Edit(s) PROVE WatcherIInv'
    BY <2>1, <2>2 DEF Edit, WatcherIInv, WatcherInv, WatcherTypeOK
  <2>3. CASE UNCHANGED watcherVars
    BY <2>1, <2>3 DEF watcherVars, refreshing, WatcherIInv, WatcherInv, WatcherTypeOK
  <2> QED
    BY <2>2, <2>3, HostCalls, ArmingFirst, Stopping, Forgetting, Refreshing, Raising, Ticks
       DEF WatcherNext, WatcherStep
<1>3. WatcherIInv => WatcherInv
  BY DEF WatcherIInv
<1> QED
  BY <1>1, <1>2, <1>3, PTL
=============================================================================
