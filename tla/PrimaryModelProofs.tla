------------------------- MODULE PrimaryModelProofs -------------------------
(***************************************************************************)
(* Proofs about PrimaryModel for any set of requests and any failures.     *)
(* Who holds the lock is the key: each of its holders fixes the state that *)
(* is published and what the others may be doing, and a request is only    *)
(* with the engine while the published state is ready.                     *)
(***************************************************************************)
EXTENDS PrimaryModel, TLAPS

(* TypeOK in the parts the provers take one at a time.                     *)
Places ==
  /\ req \in [Requests -> {"idle", "queued", "resetting", "sharing", "refused",
                           "serving", "streaming", "leftover"}]
  /\ lock \in Requests \cup Tasks \cup {None}
  /\ load \in {"none", "pending", "queued", "starting", "hooking", "undoing"}
  /\ evict \in {"sleeping", "pausing", "saving", "stopping", "clearing", "gone"}
  /\ state \in {"ready", "standby", "loading", "unloading", "error"}
  /\ down \in {"up", "draining", "stopping", "stopped"} /\ faults \in 0..MaxFaults

Flags == /\ loaded \in BOOLEAN /\ paused \in BOOLEAN /\ resume \in BOOLEAN
         /\ quiet \in BOOLEAN /\ whole \in BOOLEAN

Evicting == {"pausing", "saving", "stopping", "clearing"}

LoadRuns == {"starting", "hooking", "undoing"}

(* What each holder of the lock means.                                     *)
Holders ==
  /\ lock = "evict" <=> evict \in Evicting
  /\ lock = "load" <=> load \in LoadRuns
  /\ \A r \in Requests : lock = r <=> req[r] = "resetting"

(* What each phase has published and what it relies on.                    *)
Phases ==
  /\ evict \in Evicting => state = "unloading" /\ load = "none"
  /\ down = "up" /\ state = "unloading" => evict \in Evicting
  /\ evict \in {"pausing", "saving", "stopping"} => loaded
  /\ evict = "clearing" => ~loaded
  /\ state = "loading" <=> load \in {"starting", "hooking"}
  /\ load = "undoing" => state = "error"
  /\ lock \in Requests => state = "error" /\ load = "none"
  /\ load \in {"pending", "queued", "starting"} => ~loaded
  /\ load = "hooking" => loaded /\ ~paused
  /\ load # "none" => state # "ready"

(* Admission is closed only by an eviction that will reopen it, or has     *)
(* left that to the next load; requests are with a ready model.            *)
Admission ==
  /\ evict = "gone" <=> down # "up"
  /\ down # "up" => Owners = {}
  /\ down \in {"stopping", "stopped"} => load = "none"
  /\ paused /\ evict # "pausing" => resume
  /\ down = "up" /\ Working # {} => state = "ready"

Truth == down = "up" => Published

IInv == Places /\ Flags /\ WellQueued /\ Holders /\ Phases /\ Admission /\ Truth

USE DEF engine, Steady, Fault, Tasks, Evicting, LoadRuns, Published

LEMMA Typed == TypeOK <=> Places /\ Flags /\ WellQueued
BY Zenon DEF TypeOK, Places, Flags

-----------------------------------------------------------------------------
(* The lock's queue, as it stays, grows, and loses its head or an element. *)
Kept == /\ \A q \in Requests : req[q] = "queued" => req'[q] = "queued"
        /\ load = "queued" => load' = "queued"

LEMMA QueueStays == ASSUME WellQueued, Kept, waitq' = waitq  PROVE WellQueued'
BY DEF WellQueued, Kept

LEMMA QueueGrows ==
  ASSUME WellQueued, Kept, NEW x, \A i \in DOMAIN waitq : waitq[i] # x,
         waitq' = Append(waitq, x),
         \/ x \in Requests /\ req'[x] = "queued"
         \/ x = "load" /\ load' = "queued"
  PROVE  WellQueued'
<1> DEFINE S == Requests \cup {"load"}
           n == Len(waitq)
<1>1. waitq \in Seq(S) /\ x \in S /\ n \in Nat /\ DOMAIN waitq = 1..n
  BY DEF WellQueued
<1>2. Append(waitq, x) \in Seq(S) /\ Len(Append(waitq, x)) = n + 1
  BY <1>1
<1>3. waitq' \in Seq(S) /\ DOMAIN waitq' = 1..(n + 1)
  BY <1>1, <1>2
<1>4. \A i \in 1..n : Append(waitq, x)[i] = waitq[i]
  BY <1>1
<1>5. Append(waitq, x)[n + 1] = x
  BY <1>1
<1>6. ASSUME NEW i \in DOMAIN waitq'
      PROVE  \/ i \in DOMAIN waitq /\ waitq'[i] = waitq[i]
             \/ i = n + 1 /\ i \notin DOMAIN waitq /\ waitq'[i] = x
  <2> HIDE DEF n
  <2>1. CASE i \in 1..n
    BY <1>1, <1>4, <2>1
  <2>2. CASE i = n + 1
    BY <1>1, <1>5, <2>2
  <2> QED BY <1>1, <1>3, <2>1, <2>2
<1> HIDE DEF S, n
<1>7. ASSUME NEW i \in DOMAIN waitq'
      PROVE  \/ waitq'[i] \in Requests /\ req'[waitq'[i]] = "queued"
             \/ waitq'[i] = "load" /\ load' = "queued"
  BY <1>6 DEF WellQueued, Kept
<1>8. ASSUME NEW i \in DOMAIN waitq', NEW j \in DOMAIN waitq', waitq'[i] = waitq'[j]
      PROVE  i = j
  BY <1>6, <1>8 DEF WellQueued
<1> QED BY <1>3, <1>7, <1>8 DEF WellQueued, S

LEMMA QueueShifts ==
  ASSUME WellQueued, NEW x, waitq # <<>>, Head(waitq) = x, waitq' = Tail(waitq),
         \A q \in Requests : req[q] = "queued" /\ q # x => req'[q] = "queued",
         load = "queued" /\ x # "load" => load' = "queued"
  PROVE  WellQueued'
<1>1. waitq' \in Seq(Requests \cup {"load"}) /\ Len(waitq') = Len(waitq) - 1
  BY DEF WellQueued
<1>2. \A i \in DOMAIN waitq' : i + 1 \in DOMAIN waitq /\ waitq'[i] = waitq[i + 1]
  BY <1>1 DEF WellQueued
<1>3. 1 \in DOMAIN waitq /\ waitq[1] = x
  BY DEF WellQueued
<1>4. \A i \in DOMAIN waitq' : waitq'[i] # x
  BY <1>1, <1>2, <1>3 DEF WellQueued
<1> QED BY <1>1, <1>2, <1>4 DEF WellQueued

LEMMA QueueLoses ==
  ASSUME WellQueued, NEW k \in DOMAIN waitq, waitq' = RemoveAt(waitq, k), load' = load,
         waitq[k] # "load",
         \A q \in Requests : req[q] = "queued" /\ q # waitq[k] => req'[q] = "queued"
  PROVE  WellQueued'
<1> DEFINE S == Requests \cup {"load"}
           n == Len(waitq)
           Old(i) == IF i < k THEN i ELSE i + 1
<1>1. waitq \in Seq(S) /\ n \in Nat /\ k \in 1..n /\ DOMAIN waitq = 1..n
  BY DEF WellQueued
<1>2. /\ SubSeq(waitq, 1, k - 1) \in Seq(S) /\ Len(SubSeq(waitq, 1, k - 1)) = k - 1
      /\ \A i \in 1..(k - 1) : SubSeq(waitq, 1, k - 1)[i] = waitq[i]
  BY <1>1
<1>3. /\ SubSeq(waitq, k + 1, n) \in Seq(S) /\ Len(SubSeq(waitq, k + 1, n)) = n - k
      /\ \A i \in 1..(n - k) : SubSeq(waitq, k + 1, n)[i] = waitq[i + k]
  BY <1>1
<1>4. waitq' = SubSeq(waitq, 1, k - 1) \o SubSeq(waitq, k + 1, n)
  BY DEF RemoveAt
<1> HIDE DEF S, n
<1>5. waitq' \in Seq(S) /\ DOMAIN waitq' = 1..(n - 1)
  BY <1>1, <1>2, <1>3, <1>4
<1>6. \A i \in 1..(n - 1) : waitq'[i] = waitq[Old(i)]
  <2> SUFFICES ASSUME NEW i \in 1..(n - 1)  PROVE waitq'[i] = waitq[Old(i)]
    OBVIOUS
  <2>1. CASE i < k
    <3>1. waitq'[i] = SubSeq(waitq, 1, k - 1)[i]
      BY <1>1, <1>2, <1>3, <1>4, <2>1
    <3> QED BY <1>1, <1>2, <2>1, <3>1
  <2>2. CASE i >= k
    <3> DEFINE s == SubSeq(waitq, 1, k - 1)
               t == SubSeq(waitq, k + 1, n)
    <3>1. /\ s \in Seq(S) /\ t \in Seq(S) /\ waitq' = s \o t
          /\ Len(s) = k - 1 /\ Len(t) = n - k /\ i - Len(s) \in 1..Len(t)
      BY <1>1, <1>2, <1>3, <1>4, <2>2
    <3> HIDE DEF s, t
    <3>2. i \in Len(s) + 1..Len(s) + Len(t)
      BY <1>1, <2>2, <3>1
    <3>3. (s \o t)[i] = t[i - Len(s)]
      BY <3>1, <3>2
    <3>4. waitq'[i] = SubSeq(waitq, k + 1, n)[i - (k - 1)]
      BY <3>1, <3>3 DEF t
    <3>5. SubSeq(waitq, k + 1, n)[i - (k - 1)] = waitq[(i - (k - 1)) + k]
      BY <1>1, <1>3, <2>2
    <3> QED BY <1>1, <2>2, <3>4, <3>5
  <2> QED BY <1>1, <2>1, <2>2
<1>7. \A i \in DOMAIN waitq' : /\ Old(i) \in DOMAIN waitq /\ Old(i) # k
                                /\ waitq'[i] = waitq[Old(i)]
  BY <1>1, <1>5, <1>6
<1>8. \A i, j \in DOMAIN waitq' : Old(i) = Old(j) => i = j
  BY <1>1, <1>5
<1> HIDE DEF Old
<1>9. ASSUME NEW i \in DOMAIN waitq'
      PROVE  \/ waitq'[i] \in Requests /\ req'[waitq'[i]] = "queued"
             \/ waitq'[i] = "load" /\ load' = "queued"
  BY <1>7 DEF WellQueued
<1>10. ASSUME NEW i \in DOMAIN waitq', NEW j \in DOMAIN waitq', waitq'[i] = waitq'[j]
       PROVE  i = j
  BY <1>7, <1>8, <1>10 DEF WellQueued
<1> QED BY <1>5, <1>9, <1>10 DEF WellQueued, S

-----------------------------------------------------------------------------
LEMMA CancelStep ==
  ASSUME IInv, NEW r \in Requests, Cancel(r)  PROVE IInv'
<1>1. WellQueued'
  <2>1. CASE req[r] = "sharing" /\ UNCHANGED waitq
    BY <2>1, QueueStays DEF IInv, Places, Cancel, Kept
  <2>2. ASSUME NEW k \in DOMAIN waitq, waitq[k] = r, waitq' = RemoveAt(waitq, k)
        PROVE  WellQueued'
    BY <2>2, QueueLoses, PrimaryAssumption DEF IInv, Places, Cancel
  <2> QED BY <2>1, <2>2 DEF Cancel
<1>2. Places'
  BY DEF IInv, Places, Cancel
<1>3. Flags'
  BY DEF IInv, Flags, Cancel
<1>4. Holders'
  BY DEF IInv, Holders, WellQueued, Cancel
<1>5. Phases'
  BY DEF IInv, Phases, Cancel
<1>6. Admission'
  BY DEF IInv, Admission, Owners, Working, Cancel
<1>7. Truth'
  BY DEF IInv, Truth, Cancel
<1> QED BY <1>1, <1>2, <1>3, <1>4, <1>5, <1>6, <1>7 DEF IInv

LEMMA RefuseStep ==
  ASSUME IInv, NEW r \in Requests, Refuse(r)  PROVE IInv'
<1>1. WellQueued'
  BY QueueStays DEF IInv, Places, Kept, Refuse
<1> QED BY <1>1, PrimaryAssumption DEF IInv, Places, Flags, Holders, Phases,
            Admission, Truth, Owners, Working, Refuse

LEMMA ReleaseStep ==
  ASSUME IInv, NEW r \in Requests, Release(r)  PROVE IInv'
<1>1. WellQueued'
  BY QueueStays DEF IInv, Places, Kept, Release
<1> QED BY <1>1, PrimaryAssumption DEF IInv, Places, Flags, Holders, Phases,
            Admission, Truth, Owners, Working, Release

LEMMA TransferStep ==
  ASSUME IInv, NEW r \in Requests, Transfer(r)  PROVE IInv'
<1>1. WellQueued'
  BY QueueStays DEF IInv, Places, Kept, Transfer
<1> QED BY <1>1, PrimaryAssumption DEF IInv, Places, Flags, Holders, Phases,
            Admission, Truth, Owners, Working, Transfer

LEMMA DrainedStep ==
  ASSUME IInv, NEW r \in Requests, Drained(r)  PROVE IInv'
<1>1. WellQueued'
  BY QueueStays DEF IInv, Places, Kept, Drained
<1> QED BY <1>1, PrimaryAssumption DEF IInv, Places, Flags, Holders, Phases,
            Admission, Truth, Owners, Working, Drained

LEMMA ResetDoneStep ==
  ASSUME IInv, NEW r \in Requests, ResetDone(r)  PROVE IInv'
<1>1. WellQueued'
  BY QueueStays DEF IInv, Places, Kept, Holders, Phases, ResetDone
<1> QED BY <1>1, PrimaryAssumption DEF IInv, Places, Flags, Holders, Phases,
            Admission, Truth, Owners, Working, ResetDone

LEMMA ResetFailsStep ==
  ASSUME IInv, NEW r \in Requests, ResetFails(r)  PROVE IInv'
<1>1. WellQueued'
  BY QueueStays DEF IInv, Places, Kept, ResetFails
<1>2. Places'
  BY PrimaryAssumption DEF IInv, Places, ResetFails
<1>3. Flags'
  BY DEF IInv, Flags, ResetFails
<1>4. Holders'
  BY PrimaryAssumption DEF IInv, Places, Holders, ResetFails
<1>5. Phases'
  BY DEF IInv, Holders, Phases, ResetFails
<1>6. Admission'
  BY DEF IInv, Admission, Owners, Working, ResetFails
<1>7. Truth'
  BY DEF IInv, Holders, Phases, Truth, ResetFails
<1> QED BY <1>1, <1>2, <1>3, <1>4, <1>5, <1>6, <1>7 DEF IInv

LEMMA EnterStep ==
  ASSUME IInv, NEW r \in Requests, Enter(r)  PROVE IInv'
<1>1. WellQueued'
  <2>1. load = "queued" => load' = "queued"
    BY DEF Enter, Decide, Serve, Reset, Share
  <2>2. \A q \in Requests : req[q] = "queued" /\ q # r => req'[q] = "queued"
    BY DEF IInv, Places, Enter, Decide, Serve, Reset, Share
  <2> QED BY <2>1, <2>2, QueueShifts DEF IInv, Enter, Decide, Granted
<1>2. Places'
  BY DEF IInv, Places, Enter, Decide, Serve, Reset, Share, Granted
<1>3. Flags'
  BY DEF IInv, Flags, Enter, Decide, Serve, Reset, Share, Granted
<1>4. Holders'
  BY PrimaryAssumption DEF IInv, Places, Holders, Enter, Decide, Serve, Reset,
      Share, Granted
<1>5. Phases'
  BY PrimaryAssumption DEF IInv, Places, Holders, Phases, Admission, Truth,
      WellQueued, Owners, Enter, Decide, Serve, Reset, Share, Granted
<1>6. Admission'
  BY PrimaryAssumption DEF IInv, Places, Phases, Admission, Owners, Working,
      WellQueued, Enter, Decide, Serve, Reset, Share, Granted
<1>7. Truth'
  BY DEF IInv, Truth, Enter, Decide, Serve, Reset, Share, Granted
<1> QED BY <1>1, <1>2, <1>3, <1>4, <1>5, <1>6, <1>7 DEF IInv

LEMMA ArriveStep ==
  ASSUME IInv, NEW r \in Requests, Arrive(r)  PROVE IInv'
<1>1. WellQueued'
  <2>1. load = "queued" => load' = "queued"
    BY DEF Arrive, Decide, Serve, Reset, Share
  <2>2. \A q \in Requests : req[q] = "queued" => req'[q] = "queued"
    BY DEF IInv, Places, Arrive, Decide, Serve, Reset, Share
  <2>3. \A i \in DOMAIN waitq : waitq[i] # r
    BY PrimaryAssumption DEF IInv, WellQueued, Arrive
  <2>4. CASE waitq' = waitq
    BY <2>1, <2>2, <2>4, QueueStays DEF IInv, Kept
  <2>5. CASE waitq' = Append(waitq, r) /\ req' = [req EXCEPT ![r] = "queued"]
    <3>1. req'[r] = "queued"
      BY <2>5 DEF IInv, Places
    <3>2. Kept /\ WellQueued
      BY <2>1, <2>2 DEF IInv, Kept
    <3> QED BY <2>3, <2>5, <3>1, <3>2, QueueGrows
  <2> QED BY <2>4, <2>5 DEF Arrive, Decide
<1>2. Places'
  BY DEF IInv, Places, Arrive, Decide, Serve, Reset, Share, LockFree
<1>3. Flags'
  BY DEF IInv, Flags, Arrive, Decide, Serve, Reset, Share, LockFree
<1>4. Holders'
  BY PrimaryAssumption DEF IInv, Places, Holders, Arrive, Decide, Serve, Reset,
      Share, LockFree
<1>5. Phases'
  BY PrimaryAssumption DEF IInv, Places, Holders, Phases, Admission, Truth,
      Arrive, Decide, Serve, Reset, Share, LockFree
<1>6. Admission'
  BY DEF IInv, Places, Admission, Owners, Working, Arrive, Decide, Serve,
      Reset, Share, LockFree
<1>7. Truth'
  BY DEF IInv, Truth, Arrive, Decide, Serve, Reset, Share, LockFree
<1> QED BY <1>1, <1>2, <1>3, <1>4, <1>5, <1>6, <1>7 DEF IInv

LEMMA LoadEnterStep ==
  ASSUME IInv, LoadEnter  PROVE IInv'
<1>1. WellQueued'
  <2>1. \A i \in DOMAIN waitq : waitq[i] # "load"
    BY PrimaryAssumption DEF IInv, WellQueued, LoadEnter
  <2>2. CASE LockFree /\ LoadBegin /\ UNCHANGED waitq
    BY <2>2, QueueStays DEF IInv, Kept, LoadEnter, LoadBegin
  <2>3. CASE load' = "queued" /\ waitq' = Append(waitq, "load") /\ UNCHANGED req
    BY <2>1, <2>3, QueueGrows DEF IInv, Kept
  <2> QED BY <2>2, <2>3 DEF LoadEnter
<1> QED BY <1>1, PrimaryAssumption DEF IInv, Places, Flags, Holders, Phases,
            Admission, Truth, Owners, Working, LoadEnter, LockFree, LoadBegin

LEMMA LoadGrantedStep ==
  ASSUME IInv, LoadGranted  PROVE IInv'
<1>1. WellQueued'
  BY QueueShifts DEF IInv, LoadGranted, Granted, LoadBegin
<1>2. Places'
  BY DEF IInv, Places, LoadGranted, Granted, LoadBegin
<1>3. Flags'
  BY DEF IInv, Flags, LoadGranted, Granted, LoadBegin
<1>4. Holders'
  BY PrimaryAssumption DEF IInv, Places, Holders, LoadGranted, Granted,
      LoadBegin
<1>5. Phases'
  BY PrimaryAssumption DEF IInv, Places, Holders, Phases, WellQueued,
      LoadGranted, Granted, LoadBegin
<1>6. Admission'
  BY PrimaryAssumption DEF IInv, Places, Phases, Admission, Owners, Working,
      WellQueued, LoadGranted, Granted, LoadBegin
<1>7. Truth'
  BY DEF IInv, Truth, LoadGranted, Granted, LoadBegin
<1> QED BY <1>1, <1>2, <1>3, <1>4, <1>5, <1>6, <1>7 DEF IInv

LEMMA LoadStartedStep ==
  ASSUME IInv, LoadStarted  PROVE IInv'
<1>1. WellQueued'
  BY QueueStays DEF IInv, Places, Kept, LoadStarted, Started
<1> QED BY <1>1, PrimaryAssumption DEF IInv, Places, Flags, Holders, Phases,
            Admission, Truth, Owners, Working, LoadStarted, Started

LEMMA StartFailsStep ==
  ASSUME IInv, StartFails  PROVE IInv'
<1>1. WellQueued'
  BY QueueStays DEF IInv, Places, Kept, StartFails, LoadEnd
<1> QED BY <1>1, PrimaryAssumption DEF IInv, Places, Flags, Holders, Phases,
            Admission, Truth, Owners, Working, StartFails, LoadEnd

LEMMA ResumeFailsStep ==
  ASSUME IInv, ResumeFails  PROVE IInv'
<1>1. WellQueued'
  BY QueueStays DEF IInv, Places, Kept, ResumeFails, Started
<1> QED BY <1>1, PrimaryAssumption DEF IInv, Places, Flags, Holders, Phases,
            Admission, Truth, Owners, Working, ResumeFails, Started

LEMMA HookFailsStep ==
  ASSUME IInv, HookFails  PROVE IInv'
<1>1. WellQueued'
  BY QueueStays DEF IInv, Places, Kept, HookFails
<1> QED BY <1>1, PrimaryAssumption DEF IInv, Places, Flags, Holders, Phases,
            Admission, Truth, Owners, Working, HookFails

LEMMA UndoneStep ==
  ASSUME IInv, Undone  PROVE IInv'
<1>1. WellQueued'
  BY QueueStays DEF IInv, Places, Kept, Undone, LoadEnd
<1>2. Places'
  BY PrimaryAssumption DEF IInv, Places, Undone, LoadEnd
<1>3. Flags'
  BY DEF IInv, Flags, Undone, LoadEnd
<1>4. Holders'
  BY PrimaryAssumption DEF IInv, Places, Holders, Undone, LoadEnd
<1>5. Phases'
  BY DEF IInv, Phases, Undone, LoadEnd
<1>6. Admission'
  BY DEF IInv, Admission, Owners, Working, Undone, LoadEnd
<1>7. Truth'
  BY DEF IInv, Truth, Undone, LoadEnd
<1> QED BY <1>1, <1>2, <1>3, <1>4, <1>5, <1>6, <1>7 DEF IInv

LEMMA LoadDoneStep ==
  ASSUME IInv, LoadDone  PROVE IInv'
<1>1. WellQueued'
  BY QueueStays DEF IInv, Places, Kept, LoadDone, LoadEnd
<1> QED BY <1>1, PrimaryAssumption DEF IInv, Places, Flags, Holders, Phases,
            Admission, Truth, Owners, Working, LoadDone, LoadEnd

LEMMA StillBusyStep ==
  ASSUME IInv, StillBusy  PROVE IInv'
<1>1. WellQueued'
  BY QueueStays DEF IInv, Places, Kept, StillBusy
<1> QED BY <1>1, PrimaryAssumption DEF IInv, Places, Flags, Holders, Phases,
            Admission, Truth, Owners, Working, StillBusy

LEMMA EvictBeginStep ==
  ASSUME IInv, EvictBegin  PROVE IInv'
<1>1. WellQueued'
  BY QueueStays DEF IInv, Places, Kept, EvictBegin, Idle, Active
<1> QED BY <1>1, PrimaryAssumption DEF IInv, Places, Flags, Holders, Phases,
            Admission, Truth, Owners, Working, EvictBegin, Idle, Active

LEMMA PauseDoneStep ==
  ASSUME IInv, PauseDone  PROVE IInv'
<1>1. WellQueued'
  BY QueueStays DEF IInv, Places, Kept, PauseDone
<1> QED BY <1>1, PrimaryAssumption DEF IInv, Places, Flags, Holders, Phases,
            Admission, Truth, Owners, Working, PauseDone

LEMMA PauseLostStep ==
  ASSUME IInv, PauseLost  PROVE IInv'
<1>1. WellQueued'
  BY QueueStays DEF IInv, Places, Kept, PauseLost, EvictEnd
<1>2. Places'
  BY PrimaryAssumption DEF IInv, Places, PauseLost, EvictEnd
<1>3. Flags'
  BY DEF IInv, Flags, PauseLost, EvictEnd
<1>4. Holders'
  BY PrimaryAssumption DEF IInv, Places, Holders, PauseLost, EvictEnd
<1>5. Phases'
  BY PrimaryAssumption DEF IInv, Places, Holders, Phases, PauseLost, EvictEnd
<1>6. Admission'
  BY PrimaryAssumption DEF IInv, Places, Phases, Admission, Owners, Working,
      PauseLost, EvictEnd
<1>7. Truth'
  BY DEF IInv, Phases, Truth, PauseLost, EvictEnd
<1> QED BY <1>1, <1>2, <1>3, <1>4, <1>5, <1>6, <1>7 DEF IInv

LEMMA PauseFailsStep ==
  ASSUME IInv, PauseFails  PROVE IInv'
<1>1. WellQueued'
  BY QueueStays DEF IInv, Places, Kept, PauseFails, EvictEnd
<1>2. Places'
  BY PrimaryAssumption DEF IInv, Places, PauseFails, EvictEnd
<1>3. Flags'
  BY DEF IInv, Flags, PauseFails, EvictEnd
<1>4. Holders'
  BY PrimaryAssumption DEF IInv, Places, Holders, PauseFails, EvictEnd
<1>5. Phases'
  BY PrimaryAssumption DEF IInv, Places, Holders, Phases, PauseFails, EvictEnd
<1>6. Admission'
  BY PrimaryAssumption DEF IInv, Places, Phases, Admission, Owners, Working,
      PauseFails, EvictEnd
<1>7. Truth'
  BY DEF IInv, Phases, Truth, PauseFails, EvictEnd
<1> QED BY <1>1, <1>2, <1>3, <1>4, <1>5, <1>6, <1>7 DEF IInv

LEMMA SaveDoneStep ==
  ASSUME IInv, SaveDone  PROVE IInv'
<1>1. WellQueued'
  BY QueueStays DEF IInv, Places, Kept, SaveDone
<1> QED BY <1>1, PrimaryAssumption DEF IInv, Places, Flags, Holders, Phases,
            Admission, Truth, Owners, Working, SaveDone

LEMMA StopDoneStep ==
  ASSUME IInv, StopDone  PROVE IInv'
<1>1. WellQueued'
  BY QueueStays DEF IInv, Places, Kept, StopDone
<1> QED BY <1>1, PrimaryAssumption DEF IInv, Places, Flags, Holders, Phases,
            Admission, Truth, Owners, Working, StopDone

LEMMA StopFailsStep ==
  ASSUME IInv, StopFails  PROVE IInv'
<1>1. WellQueued'
  BY QueueStays DEF IInv, Places, Kept, StopFails, EvictEnd
<1>2. Places'
  BY PrimaryAssumption DEF IInv, Places, StopFails, EvictEnd
<1>3. Flags'
  BY DEF IInv, Flags, StopFails, EvictEnd
<1>4. Holders'
  BY PrimaryAssumption DEF IInv, Places, Holders, StopFails, EvictEnd
<1>5. Phases'
  BY PrimaryAssumption DEF IInv, Places, Holders, Phases, StopFails, EvictEnd
<1>6. Admission'
  BY PrimaryAssumption DEF IInv, Places, Phases, Admission, Owners, Working,
      StopFails, EvictEnd
<1>7. Truth'
  BY DEF IInv, Phases, Truth, StopFails, EvictEnd
<1> QED BY <1>1, <1>2, <1>3, <1>4, <1>5, <1>6, <1>7 DEF IInv

LEMMA ClearDoneStep ==
  ASSUME IInv, ClearDone  PROVE IInv'
<1>1. WellQueued'
  BY QueueStays DEF IInv, Places, Kept, ClearDone, EvictEnd
<1>2. Places'
  BY PrimaryAssumption DEF IInv, Places, ClearDone, EvictEnd
<1>3. Flags'
  BY DEF IInv, Flags, ClearDone, EvictEnd
<1>4. Holders'
  BY PrimaryAssumption DEF IInv, Places, Holders, ClearDone, EvictEnd
<1>5. Phases'
  BY PrimaryAssumption DEF IInv, Places, Holders, Phases, ClearDone, EvictEnd
<1>6. Admission'
  BY PrimaryAssumption DEF IInv, Places, Phases, Admission, Owners, Working,
      ClearDone, EvictEnd
<1>7. Truth'
  BY DEF IInv, Phases, Truth, ClearDone, EvictEnd
<1> QED BY <1>1, <1>2, <1>3, <1>4, <1>5, <1>6, <1>7 DEF IInv

LEMMA TickStep ==
  ASSUME IInv, Tick  PROVE IInv'
<1>1. WellQueued'
  BY QueueStays DEF IInv, Places, Kept, Tick
<1> QED BY <1>1, PrimaryAssumption DEF IInv, Places, Flags, Holders, Phases,
            Admission, Truth, Owners, Working, Tick

LEMMA ShutdownStep ==
  ASSUME IInv, Shutdown  PROVE IInv'
<1>1. WellQueued'
  BY QueueStays DEF IInv, Places, Kept, Shutdown
<1> QED BY <1>1, PrimaryAssumption DEF IInv, Places, Flags, Holders, Phases,
            Admission, Truth, Owners, Working, Shutdown

LEMMA DetachStep ==
  ASSUME IInv, Detach  PROVE IInv'
<1>1. WellQueued'
  BY QueueStays DEF IInv, Places, Kept, Detach, Transitioning
<1> QED BY <1>1, PrimaryAssumption DEF IInv, Places, Flags, Holders, Phases,
            Admission, Truth, Owners, Working, Detach, Transitioning

LEMMA TeardownStep ==
  ASSUME IInv, Teardown  PROVE IInv'
<1>1. WellQueued'
  BY QueueStays DEF IInv, Places, Kept, Teardown
<1> QED BY <1>1, PrimaryAssumption DEF IInv, Places, Flags, Holders, Phases,
            Admission, Truth, Owners, Working, Teardown

LEMMA StoppedStep ==
  ASSUME IInv, Stopped  PROVE IInv'
<1>1. WellQueued'
  BY QueueStays DEF IInv, Places, Kept, Stopped
<1> QED BY <1>1, PrimaryAssumption DEF IInv, Places, Flags, Holders, Phases,
            Admission, Truth, Owners, Working, Stopped

-----------------------------------------------------------------------------
LEMMA InitHolds == Init => IInv
<1> SUFFICES ASSUME Init  PROVE IInv
  OBVIOUS
<1>1. Places
  BY PrimaryAssumption DEF Init, Places
<1>2. Flags
  BY DEF Init, Flags
<1>3. WellQueued
  BY DEF Init, WellQueued
<1>4. Holders
  BY PrimaryAssumption DEF Init, Holders
<1>5. Phases
  BY PrimaryAssumption DEF Init, Phases
<1>6. Admission
  BY DEF Init, Admission, Owners, Working
<1>7. Truth
  BY DEF Init, Truth
<1> QED BY <1>1, <1>2, <1>3, <1>4, <1>5, <1>6, <1>7 DEF IInv

LEMMA StutterKeeps == ASSUME IInv, UNCHANGED vars  PROVE IInv'
<1>1. Places' /\ Holders'
  BY DEF IInv, vars, Places, Holders
<1>2. Flags'
  BY DEF IInv, vars, Flags
<1>3. WellQueued'
  BY QueueStays DEF IInv, vars, Kept
<1>4. Phases'
  BY DEF IInv, vars, Phases
<1>5. Admission'
  BY DEF IInv, vars, Admission, Owners, Working
<1>6. Truth'
  BY DEF IInv, vars, Truth
<1> QED BY <1>1, <1>2, <1>3, <1>4, <1>5, <1>6 DEF IInv

LEMMA NextPreserves == IInv /\ [Next]_vars => IInv'
<1> SUFFICES ASSUME IInv, [Next]_vars  PROVE IInv'
  OBVIOUS
<1>1. CASE UNCHANGED vars
  BY <1>1, StutterKeeps
<1>2. ASSUME NEW r \in Requests,
             \/ Arrive(r) \/ Cancel(r) \/ Release(r) \/ Transfer(r) \/ Drained(r) \/ Waiter(r)
      PROVE  IInv'
  BY <1>2, ArriveStep, CancelStep, ReleaseStep, TransferStep, DrainedStep, EnterStep,
     ResetDoneStep, ResetFailsStep, RefuseStep DEF Waiter
<1>3. CASE Loader
  BY <1>3, LoadEnterStep, LoadGrantedStep, LoadStartedStep, StartFailsStep,
     ResumeFailsStep, HookFailsStep, UndoneStep, LoadDoneStep DEF Loader
<1>4. CASE Monitor
  BY <1>4, StillBusyStep, EvictBeginStep, PauseDoneStep, PauseLostStep, PauseFailsStep,
     SaveDoneStep, StopDoneStep, StopFailsStep, ClearDoneStep DEF Monitor
<1>5. CASE Tick \/ Lifespan
  BY <1>5, TickStep, ShutdownStep, DetachStep, TeardownStep, StoppedStep DEF Lifespan
<1> QED BY <1>1, <1>2, <1>3, <1>4, <1>5 DEF Next

LEMMA Invariance == Spec => []IInv
<1> QED BY InitHolds, NextPreserves, PTL DEF Spec

-----------------------------------------------------------------------------
(* The fields of the coordinator keep their types, and the lock's queue    *)
(* never holds a request twice, or one that no longer waits (ensure_loaded *)
(* and its cancellation).                                                  *)
THEOREM TypeCorrect == Spec => []TypeOK
<1>1. IInv => TypeOK
  BY Typed DEF IInv
<1> QED BY <1>1, Invariance, PTL

(* No step of a load, an eviction or a reset, and no failure of one, takes *)
(* the model away from a request that got past ensure_loaded.              *)
THEOREM Served == Spec => []UsersAreServed
<1>1. ASSUME IInv, down = "up", Working # {}  PROVE loaded /\ ~paused /\ ~Stopping
  <2>1. state = "ready" /\ lock = None /\ load = "none" /\ loaded /\ ~paused
    BY <1>1 DEF IInv, Admission, Truth
  <2>2. evict # "stopping" /\ \A r \in Requests : req[r] # "resetting"
    BY <1>1, <2>1, PrimaryAssumption DEF IInv, Holders
  <2> QED BY <1>1, <2>1, <2>2 DEF Stopping
<1>2. IInv => UsersAreServed
  BY <1>1 DEF UsersAreServed
<1> QED BY <1>2, Invariance, PTL

(* The engine's start and stop exclude each other, whoever calls them.     *)
THEOREM TransitionsExclude == Spec => []OneTransition
<1>1. ASSUME IInv, load \in {"starting", "hooking"}  PROVE ~Stopping
  <2>1. lock = "load"
    BY <1>1 DEF IInv, Holders
  <2>2. evict # "stopping" /\ \A r \in Requests : req[r] # "resetting"
    BY <1>1, <2>1, PrimaryAssumption DEF IInv, Holders
  <2>3. down # "stopping"
    BY <1>1 DEF IInv, Admission
  <2> QED BY <1>1, <2>2, <2>3 DEF Stopping
<1>2. IInv => OneTransition
  BY <1>1 DEF OneTransition
<1> QED BY <1>2, Invariance, PTL

(* What lifecycle_status reports is what the engine and the lock are in,   *)
(* so the monitor that finds an idle ready model never has to wait.        *)
THEOREM Truthful == Spec => []StateIsTruthful
<1>1. ASSUME IInv, down = "up", state = "ready", Owners = {}  PROVE waitq = <<>>
  <2>1. waitq \in Seq(Requests \cup {"load"})
    BY <1>1 DEF IInv, WellQueued
  <2>2. SUFFICES ASSUME waitq # <<>>  PROVE FALSE
    OBVIOUS
  <2>3. 1 \in DOMAIN waitq
    BY <2>1, <2>2
  <2>4. CASE waitq[1] \in Requests /\ req[waitq[1]] = "queued"
    BY <1>1, <2>4 DEF Owners
  <2>5. CASE waitq[1] = "load" /\ load = "queued"
    BY <1>1, <2>5 DEF IInv, Phases
  <2> QED BY <1>1, <2>3, <2>4, <2>5 DEF IInv, WellQueued
<1>2. IInv => StateIsTruthful
  BY <1>1 DEF IInv, Truth, StateIsTruthful
<1> QED BY <1>2, Invariance, PTL
=============================================================================
