--------------------------- MODULE ChatTurnsProofs ---------------------------
(***************************************************************************)
(* Proofs about ChatTurns for any turns, helpers, readers and branches and *)
(* any number of kills and failing writes.  The invariant says at which    *)
(* stage an admission, a task and a cancellation may meet (Stages), who is *)
(* left to end a running turn (Owners), which helpers have still to be     *)
(* published (Children), what a log holds (Logs) and how far its readers   *)
(* have come (Followers).                                                  *)
(***************************************************************************)
EXTENDS ChatTurns, FiniteSetTheorems, SequenceTheorems, TLAPS

Events == {"started", "text", "terminal"} \cup Helpers

(* TypeOK in the parts the provers take one at a time.                     *)
Rows ==
  /\ status \in [Turns -> {"none", "running", "completed", "cancelled", "error"}]
  /\ rev \in [Turns -> Nat] /\ branchRev \in [Branches -> Nat]
  /\ child \in [Helpers -> {"none", "live", "ended"}]
  /\ log \in [Turns -> Seq(Events)]

Places ==
  /\ owner \in {"serving", "closing", "draining", "exited", "killed"}
  /\ admission \in [Turns -> {"none", "queued", "admitting", "committed"}]
  /\ expected \in [Turns -> Nat]
  /\ task \in [Turns -> {"none", "new", "work", "failing", "cancelling",
                         "leaving", "dropped", "done"}]
  /\ helper \in [Helpers -> {"none", "new", "live", "publish", "done"}]
  /\ stop \subseteq Turns /\ sweep \subseteq Turns
  /\ reader \in [Readers -> {"away", "replay", "check", "tail", "wait", "over"}]
  /\ cursor \in [Readers -> Nat]

Used == used \in [crashes : Nat, faults : Nat]

Signals == signal \in [Turns -> BOOLEAN]

(* A turn is queued, then durable, then has a task, and only then can it   *)
(* be cancelled or swept; nothing of a dead owner is left.                 *)
Stages ==
  /\ \A t \in Turns :
       /\ admission[t] \in {"queued", "admitting"} => status[t] = "none"
       /\ admission[t] = "committed" =>
            status[t] = "running" /\ task[t] = "none" /\ t \notin stop \cup sweep
       /\ status[t] = "none" => task[t] = "none" /\ t \notin stop \cup sweep
  /\ owner \in {"draining", "exited", "killed"} => \A t \in Turns : admission[t] = "none"
  /\ owner \in {"serving", "closing"} => sweep = {}
  /\ owner = "draining" => stop \subseteq sweep /\ \A t \in Turns : Running(t) => t \in sweep
  /\ ~Up => /\ \A t \in Turns : task[t] = "none"
            /\ stop = {} /\ sweep = {}
            /\ \A h \in Helpers : helper[h] = "none"

(* The tasks that no longer end their turn themselves are being cancelled. *)
Left(t) == task[t] \in {"leaving", "dropped"} /\ status[t] = "running"

Owners == used.faults = 0 =>
  /\ NoTurnIsOrphaned
  /\ \A t \in Turns : Left(t) => t \in stop \cup sweep
  /\ owner = "exited" => \A t \in Turns : status[t] # "running"

Has(s, x) == \E i \in DOMAIN s : s[i] = x

Once(s, x) == \A i, j \in DOMAIN s : s[i] = x /\ s[j] = x => i = j

Children ==
  \A h \in Helpers :
    /\ child[h] = "live" => status[ParentOf[h]] = "running"
    /\ child[h] # "none" => status[ParentOf[h]] # "none"
    /\ UnderWay(h) => child[h] # "none"
    /\ UnderWay(h) /\ status[ParentOf[h]] = "running"
         => ~Has(log[ParentOf[h]], h)

Logs ==
  /\ \A t \in Turns :
       /\ Has(log[t], "terminal") <=> Ended(t)
       /\ Once(log[t], "terminal")
       /\ Ended(t) => log[t] # <<>> /\ log[t][Len(log[t])] = "terminal"
  /\ \A h \in Helpers :
       /\ Once(log[ParentOf[h]], h)
       /\ Has(log[ParentOf[h]], h) => child[h] # "none"
       /\ Ended(ParentOf[h]) /\ child[h] # "none"
            => Has(log[ParentOf[h]], h) /\ child[h] = "ended"

Follows(r) ==
  /\ cursor[r] <= Len(log[Followed[r]])
  /\ reader[r] \in {"replay", "check", "tail", "wait"} => status[Followed[r]] # "none"
  /\ reader[r] = "tail" => Ended(Followed[r])
  /\ reader[r] = "over" => Ended(Followed[r]) /\ cursor[r] = Len(log[Followed[r]])

Followers == \A r \in Readers : Follows(r)

IInv == /\ Rows /\ Places /\ Used /\ Signals /\ Stages /\ RunningTurnOwnsBranch
        /\ Owners /\ Children /\ Logs /\ Followers

LEMMA Typed == IInv => TypeOK
BY Zenon DEF IInv, TypeOK, Rows, Places, Used, Signals, Stages, Events

-----------------------------------------------------------------------------
(* Events of a log as it grows.                                            *)
LEMMA Appended ==
  ASSUME NEW s \in Seq(Events), NEW e \in Events
  PROVE  /\ Append(s, e) \in Seq(Events) /\ Append(s, e) # <<>>
         /\ Len(Append(s, e)) = Len(s) + 1 /\ Append(s, e)[Len(s) + 1] = e
         /\ \A x : Has(Append(s, e), x) <=> Has(s, x) \/ x = e
         /\ \A x : Once(s, x) /\ (x = e => ~Has(s, x)) => Once(Append(s, e), x)
<1> DEFINE u == Append(s, e)
<1>1. /\ u \in Seq(Events) /\ Len(u) = Len(s) + 1 /\ u[Len(s) + 1] = e
      /\ Len(s) \in Nat /\ DOMAIN s = 1..Len(s) /\ DOMAIN u = 1..(Len(s) + 1)
      /\ \A i \in 1..Len(s) : u[i] = s[i]
  OBVIOUS
<1> HIDE DEF u
<1>2. \A i \in DOMAIN u : \/ i \in DOMAIN s /\ u[i] = s[i]
                          \/ i = Len(s) + 1 /\ u[i] = e
  BY <1>1
<1>3. \A x : Has(u, x) <=> Has(s, x) \/ x = e
  BY <1>1, <1>2 DEF Has
<1>4. \A x : Once(s, x) /\ (x = e => ~Has(s, x)) => Once(u, x)
  BY <1>1, <1>2 DEF Has, Once
<1> QED BY <1>1, <1>3, <1>4 DEF u

LEMMA Joined ==
  ASSUME NEW s \in Seq(Events), NEW u \in Seq(Events)
  PROVE  /\ s \o u \in Seq(Events) /\ Len(s \o u) = Len(s) + Len(u)
         /\ \A x : Has(s \o u, x) <=> Has(s, x) \/ Has(u, x)
         /\ \A x : Once(s, x) /\ Once(u, x) /\ ~(Has(s, x) /\ Has(u, x)) => Once(s \o u, x)
<1> DEFINE v == s \o u
<1>1. /\ v \in Seq(Events) /\ Len(v) = Len(s) + Len(u) /\ Len(s) \in Nat /\ Len(u) \in Nat
      /\ DOMAIN s = 1..Len(s) /\ DOMAIN u = 1..Len(u) /\ DOMAIN v = 1..(Len(s) + Len(u))
  BY ConcatProperties, LenProperties
<1>2. \A i \in DOMAIN s : i \in DOMAIN v /\ v[i] = s[i]
  BY <1>1, ConcatProperties
<1>3. \A i \in DOMAIN u : i + Len(s) \in DOMAIN v /\ v[i + Len(s)] = u[i]
  <2> SUFFICES ASSUME NEW i \in DOMAIN u  PROVE i + Len(s) \in DOMAIN v /\ v[i + Len(s)] = u[i]
    OBVIOUS
  <2>1. i + Len(s) \in 1..Len(s) + Len(u) /\ ~(i + Len(s) <= Len(s)) /\ i + Len(s) - Len(s) = i
    BY <1>1
  <2> QED BY <1>1, <2>1, ConcatProperties
<1> HIDE DEF v
<1>4. \A i \in DOMAIN v : \/ i \in DOMAIN s
                          \/ \E j \in DOMAIN u : i = j + Len(s)
  <2> SUFFICES ASSUME NEW i \in DOMAIN v, i \notin DOMAIN s
               PROVE  \E j \in DOMAIN u : i = j + Len(s)
    OBVIOUS
  <2>1. i - Len(s) \in DOMAIN u /\ i = (i - Len(s)) + Len(s)
    BY <1>1
  <2> QED BY <2>1
<1>5. \A x : Has(v, x) <=> Has(s, x) \/ Has(u, x)
  BY <1>2, <1>3, <1>4 DEF Has
<1>6. ASSUME NEW x, Once(s, x), Once(u, x), ~(Has(s, x) /\ Has(u, x)),
             NEW i \in DOMAIN v, NEW j \in DOMAIN v, v[i] = x, v[j] = x
      PROVE  i = j
  <2>1. CASE i \in DOMAIN s /\ j \in DOMAIN s
    BY <1>2, <1>6, <2>1 DEF Once
  <2>2. CASE i \in DOMAIN s /\ j \notin DOMAIN s
    BY <1>2, <1>3, <1>4, <1>6, <2>2 DEF Has
  <2>3. CASE i \notin DOMAIN s /\ j \in DOMAIN s
    BY <1>2, <1>3, <1>4, <1>6, <2>3 DEF Has
  <2>4. CASE i \notin DOMAIN s /\ j \notin DOMAIN s
    <3>1. PICK k \in DOMAIN u : i = k + Len(s)
      BY <1>4, <2>4
    <3>2. PICK l \in DOMAIN u : j = l + Len(s)
      BY <1>4, <2>4
    <3> QED BY <1>3, <1>6, <3>1, <3>2 DEF Once
  <2> QED BY <2>1, <2>2, <2>3, <2>4
<1> QED BY <1>1, <1>5, <1>6 DEF v, Once

LEMMA Listed ==
  ASSUME NEW S \in SUBSET Helpers
  PROVE  /\ SetToSeq(S) \in Seq(Events)
         /\ \A x : Has(SetToSeq(S), x) <=> x \in S
         /\ \A x : Once(SetToSeq(S), x)
<1> DEFINE n == Cardinality(S)
           f == SetToSeq(S)
<1>1. IsFiniteSet(S)
  BY ConstantsAssumption, FS_Subset
<1>2. n \in Nat /\ ExistsBijection(1..n, S)
  BY <1>1, FS_CardinalityType
<1>3. PICK g \in [1..n -> S] : IsInjective(g)
  BY <1>2 DEF ExistsBijection, Bijection, Injection
<1>4. f \in [1..n -> S] /\ IsInjective(f)
  BY <1>3 DEF SetToSeq
<1>5. \A x \in S : \E i \in 1..n : f[i] = x
  <2>1. IsFiniteSet(1..n) /\ Cardinality(1..n) = n
    BY <1>2, FS_Interval
  <2>2. f \in Surjection(1..n, S)
    BY <1>1, <1>4, <2>1, FS_Injection DEF Injection
  <2> QED BY <2>2 DEF Surjection
<1> HIDE DEF n, f
<1>6. f \in Seq(Events)
  BY <1>2, <1>4 DEF Events
<1>7. DOMAIN f = 1..n /\ \A i \in 1..n : f[i] \in S
  BY <1>4
<1>8. \A x : Has(f, x) <=> x \in S
  BY <1>5, <1>7 DEF Has
<1>9. \A x : Once(f, x)
  BY <1>4, <1>7 DEF Once, IsInjective
<1> QED BY <1>6, <1>8, <1>9 DEF f

(* An event that a log holds once is counted once.                         *)
LEMMA Counted ==
  ASSUME NEW t \in Turns, log[t] \in Seq(Events), NEW x, Once(log[t], x)
  PROVE  Count(t, x) = IF Has(log[t], x) THEN 1 ELSE 0
<1> DEFINE P == {i \in DOMAIN log[t] : log[t][i] = x}
<1>1. CASE Has(log[t], x)
  <2>1. PICK i \in DOMAIN log[t] : log[t][i] = x
    BY <1>1 DEF Has
  <2>2. P = {i}
    BY <2>1 DEF Once
  <2> QED BY <1>1, <2>2, FS_Singleton DEF Count
<1>2. CASE ~Has(log[t], x)
  <2>1. P = {}
    BY <1>2 DEF Has
  <2> QED BY <1>2, <2>1, FS_EmptySet DEF Count
<1> QED BY <1>1, <1>2

-----------------------------------------------------------------------------
(* What every step does to the past: ended turns keep their log and end.   *)
Onward ==
  \A t \in Turns :
    /\ Len(log[t]) <= Len(log'[t])
    /\ status[t] # "none" => status'[t] # "none"
    /\ Ended(t) => Ended(t)' /\ log'[t] = log[t]

Trailing ==
  \A r \in Readers :
    /\ cursor'[r] = cursor[r]
    /\ \/ reader'[r] \in {reader[r], "away"}
       \/ reader[r] = "wait" /\ reader'[r] = "replay"

LEMMA FollowersStay == ASSUME IInv, Onward, Trailing, Rows'  PROVE Followers'
<1> SUFFICES ASSUME NEW r \in Readers  PROVE Follows(r)'
  BY DEF Followers
<1> DEFINE t == Followed[r]
<1>1. t \in Turns /\ cursor[r] \in Nat /\ Len(log[t]) \in Nat /\ Len(log'[t]) \in Nat
  BY ConstantsAssumption DEF IInv, Rows, Places
<1> HIDE DEF t
<1>2. cursor[r] <= Len(log[t]) /\ (reader[r] = "tail" => Ended(t))
      /\ (reader[r] \in {"replay", "check", "tail", "wait"} => status[t] # "none")
      /\ (reader[r] = "over" => Ended(t) /\ cursor[r] = Len(log[t]))
  BY DEF IInv, Followers, Follows, t
<1> QED BY <1>1, <1>2 DEF Onward, Trailing, Follows, t

(* Helpers begin under a running turn, and end.                            *)
LEMMA LogsStay ==
  ASSUME IInv, UNCHANGED <<status, log>>,
         \A h \in Helpers :
           \/ child'[h] = child[h]
           \/ child[h] = "none" /\ status[ParentOf[h]] = "running"
           \/ child[h] # "none" /\ child'[h] = "ended"
  PROVE  Logs' /\ Onward /\ log' \in [Turns -> Seq(Events)]
<1>1. \A t \in Turns : Len(log[t]) \in Nat
  BY DEF IInv, Rows
<1>2. Onward
  BY <1>1 DEF Onward, Ended
<1>3. ASSUME NEW h \in Helpers
      PROVE  /\ Has(log'[ParentOf[h]], h) => child'[h] # "none"
             /\ Ended(ParentOf[h])' /\ child'[h] # "none"
                  => Has(log'[ParentOf[h]], h) /\ child'[h] = "ended"
  <2>1. Ended(ParentOf[h])' <=> Ended(ParentOf[h])
    BY DEF Ended
  <2>2. status[ParentOf[h]] = "running" => ~Ended(ParentOf[h])
    BY DEF Ended
  <2>3. CASE child[h] = "none" /\ status[ParentOf[h]] = "running"
    BY <2>1, <2>2, <2>3 DEF IInv, Logs
  <2> QED BY <2>1, <2>2, <2>3 DEF IInv, Logs
<1> QED BY <1>2, <1>3 DEF IInv, Rows, Logs, Ended

(* Texts, and the ends of helpers, go to the log of a running turn.        *)
LEMMA LogsGrow ==
  ASSUME IInv, NEW t \in Turns, NEW e \in Events \ {"terminal"}, Append1(t, e),
         status[t] = "running" \/ (status[t] = "none" /\ e = "started"),
         status' = [status EXCEPT ![t] = "running"], UNCHANGED child,
         e \in Helpers => ParentOf[e] = t /\ ~Has(log[t], e) /\ child[e] # "none"
  PROVE  /\ Logs' /\ Onward /\ log' \in [Turns -> Seq(Events)]
         /\ \A u \in Turns : \A x : Has(log'[u], x) <=> Has(log[u], x) \/ (u = t /\ x = e)
<1>1. log[t] \in Seq(Events) /\ log' = [log EXCEPT ![t] = Append(log[t], e)]
      /\ log \in [Turns -> Seq(Events)] /\ DOMAIN status = Turns
  BY DEF IInv, Rows, Append1
<1>2. /\ log'[t] = Append(log[t], e) /\ \A u \in Turns : u # t => log'[u] = log[u]
      /\ status'[t] = "running" /\ \A u \in Turns : u # t => status'[u] = status[u]
  BY <1>1
<1>3. /\ log'[t] \in Seq(Events) /\ Len(log'[t]) = Len(log[t]) + 1
      /\ \A x : Has(log'[t], x) <=> Has(log[t], x) \/ x = e
      /\ \A x : Once(log[t], x) /\ (x = e => ~Has(log[t], x)) => Once(log'[t], x)
  BY <1>1, <1>2, Appended
<1>4. log' \in [Turns -> Seq(Events)]
  BY <1>1, <1>3
<1>5. Onward
  <2>1. \A u \in Turns : Len(log[u]) \in Nat
    BY <1>1
  <2> QED BY <1>2, <1>3, <2>1 DEF Onward, Ended
<1>6. ASSUME NEW u \in Turns
      PROVE  /\ Has(log'[u], "terminal") <=> Ended(u)'
             /\ Once(log'[u], "terminal")
             /\ Ended(u)' => log'[u] # <<>> /\ log'[u][Len(log'[u])] = "terminal"
  <2>1. CASE u = t
    <3>1. ~Has(log[t], "terminal") /\ Once(log[t], "terminal")
      BY DEF IInv, Logs, Ended
    <3>2. ~Has(log'[t], "terminal") /\ Once(log'[t], "terminal") /\ ~Ended(t)'
      BY <1>2, <1>3, <3>1 DEF Ended
    <3> QED BY <2>1, <3>2
  <2>2. CASE u # t
    <3>1. log'[u] = log[u] /\ (Ended(u)' <=> Ended(u))
      BY <1>2, <2>2 DEF Ended
    <3> QED BY <3>1 DEF IInv, Logs
  <2> QED BY <2>1, <2>2
<1>7. ASSUME NEW h \in Helpers
      PROVE  /\ Once(log'[ParentOf[h]], h)
             /\ Has(log'[ParentOf[h]], h) => child'[h] # "none"
             /\ Ended(ParentOf[h])' /\ child'[h] # "none"
                  => Has(log'[ParentOf[h]], h) /\ child'[h] = "ended"
  <2>1. ParentOf[h] \in Turns /\ h # "started" /\ h # "text"
    BY ConstantsAssumption
  <2>2. CASE ParentOf[h] # t
    BY <1>2, <2>1, <2>2 DEF IInv, Logs, Ended
  <2>3. CASE ParentOf[h] = t
    <3>1. Once(log[t], h) /\ (Has(log[t], h) => child[h] # "none")
      BY <2>3 DEF IInv, Logs
    <3>2. (h = e => ~Has(log[t], h) /\ child[h] # "none") /\ ~Ended(t)'
      BY <1>2 DEF Ended
    <3> QED BY <1>3, <2>3, <3>1, <3>2
  <2> QED BY <2>2, <2>3
<1> QED BY <1>2, <1>3, <1>4, <1>5, <1>6, <1>7 DEF Logs

(* Ending turns publishes what their helpers did not, then the terminal.   *)
LEMMA LogsClose ==
  ASSUME IInv, NEW S \in SUBSET Turns, NEW outcome \in {"completed", "cancelled", "error"},
         Finish(S, outcome)
  PROVE  /\ Logs' /\ Onward /\ log' \in [Turns -> Seq(Events)]
         /\ \A t \in Turns : status'[t] = "running" => log'[t] = log[t]
         /\ status' = [t \in Turns |-> IF t \in S /\ status[t] = "running"
                                         THEN outcome ELSE status[t]]
         /\ child' = [h \in Helpers |-> IF /\ ParentOf[h] \in S
                                           /\ status[ParentOf[h]] = "running"
                                           /\ child[h] = "live"
                                          THEN "ended" ELSE child[h]]
<1> DEFINE Ending(t) == t \in S /\ status[t] = "running"
           Rest(t) == SetToSeq(Unpublished(t)) \o <<"terminal">>
<1>1. /\ status' = [t \in Turns |-> IF Ending(t) THEN outcome ELSE status[t]]
      /\ child' = [h \in Helpers |-> IF Ending(ParentOf[h]) /\ child[h] = "live"
                                       THEN "ended" ELSE child[h]]
      /\ log' = [t \in Turns |-> IF Ending(t)
                   THEN log[t] \o SetToSeq(Unpublished(t)) \o <<"terminal">> ELSE log[t]]
  BY DEF Finish
<1>2. ASSUME NEW t \in Turns, Ending(t)
      PROVE  /\ log'[t] \in Seq(Events) /\ Len(log[t]) < Len(log'[t])
             /\ log'[t] # <<>> /\ log'[t][Len(log'[t])] = "terminal"
             /\ \A x : Has(log'[t], x) <=>
                         Has(log[t], x) \/ x \in Unpublished(t) \/ x = "terminal"
             /\ \A h \in Helpers : Once(log[t], h) => Once(log'[t], h)
             /\ Once(log'[t], "terminal")
  <2> DEFINE new == SetToSeq(Unpublished(t))
             s == log[t] \o new
  <2>1. log[t] \in Seq(Events) /\ Unpublished(t) \in SUBSET Helpers
    BY DEF IInv, Rows, Unpublished, HelpersOf
  <2>2. /\ new \in Seq(Events) /\ \A x : Once(new, x)
        /\ \A x : Has(new, x) <=> x \in Unpublished(t)
    BY <2>1, Listed
  <2>3. \A x : x \in Unpublished(t) => ~Has(log[t], x)
    BY <2>1 DEF Unpublished, Range, Has
  <2> HIDE DEF new
  <2>4. /\ s \in Seq(Events) /\ Len(s) = Len(log[t]) + Len(new)
        /\ \A x : Has(s, x) <=> Has(log[t], x) \/ Has(new, x)
        /\ \A x : Once(log[t], x) /\ Once(new, x) /\ ~(Has(log[t], x) /\ Has(new, x)) => Once(s, x)
    BY <2>1, <2>2, Joined
  <2> HIDE DEF s
  <2>5. s \o <<"terminal">> = Append(s, "terminal") /\ "terminal" \in Events
    BY <2>4 DEF Events
  <2>6. log'[t] = Append(s, "terminal")
    BY <1>1, <1>2, <2>5 DEF s, new
  <2>7. /\ log'[t] \in Seq(Events) /\ log'[t] # <<>> /\ Len(log'[t]) = Len(s) + 1
        /\ log'[t][Len(s) + 1] = "terminal"
        /\ \A x : Has(log'[t], x) <=> Has(s, x) \/ x = "terminal"
        /\ \A x : Once(s, x) /\ (x = "terminal" => ~Has(s, x)) => Once(log'[t], x)
    BY <2>4, <2>5, <2>6, Appended
  <2>8. Len(log[t]) \in Nat /\ Len(new) \in Nat
    BY <2>1, <2>2
  <2>9. "terminal" \notin Helpers
    BY ConstantsAssumption
  <2>10. ~Has(log[t], "terminal") /\ Once(log[t], "terminal")
    BY <1>2 DEF IInv, Logs, Ended
  <2>11. ~Has(s, "terminal") /\ Once(s, "terminal")
    BY <2>1, <2>2, <2>4, <2>9, <2>10
  <2>12. \A h \in Helpers : Once(log[t], h) => Once(log'[t], h)
    BY <2>2, <2>3, <2>4, <2>7, <2>9
  <2> QED BY <2>2, <2>4, <2>7, <2>8, <2>11, <2>12
<1>3. \A t \in Turns : ~Ending(t) => log'[t] = log[t] /\ status'[t] = status[t]
  BY <1>1
<1>4. \A t \in Turns : Ending(t) => status'[t] = outcome
  BY <1>1
<1>5. \A h \in Helpers : child'[h] = IF Ending(ParentOf[h]) /\ child[h] = "live"
                                       THEN "ended" ELSE child[h]
  BY <1>1
<1>6. log' \in [Turns -> Seq(Events)]
  BY <1>1, <1>2, <1>3 DEF IInv, Rows
<1>7. \A t \in Turns : Ending(t) => ~Ended(t) /\ Ended(t)'
  BY <1>4 DEF Ended
<1>8. \A t \in Turns : ~Ending(t) => (Ended(t) <=> Ended(t)')
  BY <1>3 DEF Ended
<1>9. \A t \in Turns : Len(log[t]) \in Nat /\ Len(log'[t]) \in Nat
  BY <1>6 DEF IInv, Rows
<1>10. \A h \in Helpers : ParentOf[h] \in Turns
  BY ConstantsAssumption
<1>11. \A h \in Helpers : /\ h \in Unpublished(ParentOf[h]) <=>
                               child[h] # "none" /\ ~Has(log[ParentOf[h]], h)
                          /\ h # "terminal"
  BY ConstantsAssumption DEF Unpublished, HelpersOf, Range, Has
<1>12. \A h \in Helpers : child[h] \in {"none", "live", "ended"}
  BY DEF IInv, Rows
<1> HIDE DEF Ending
<1>13. Onward
  BY <1>2, <1>3, <1>4, <1>7, <1>8, <1>9 DEF Onward
<1>14. ASSUME NEW t \in Turns
       PROVE  /\ Has(log'[t], "terminal") <=> Ended(t)'
              /\ Once(log'[t], "terminal")
              /\ Ended(t)' => log'[t] # <<>> /\ log'[t][Len(log'[t])] = "terminal"
  <2>1. CASE Ending(t)
    BY <1>2, <1>7, <2>1
  <2>2. CASE ~Ending(t)
    BY <1>3, <1>8, <2>2 DEF IInv, Logs
  <2> QED BY <2>1, <2>2
<1>15. ASSUME NEW h \in Helpers
       PROVE  /\ Once(log'[ParentOf[h]], h)
              /\ Has(log'[ParentOf[h]], h) => child'[h] # "none"
              /\ Ended(ParentOf[h])' /\ child'[h] # "none"
                   => Has(log'[ParentOf[h]], h) /\ child'[h] = "ended"
  <2>1. CASE Ending(ParentOf[h])
    <3>1. Once(log[ParentOf[h]], h) /\ (Has(log[ParentOf[h]], h) => child[h] # "none")
      BY DEF IInv, Logs
    <3> QED BY <1>2, <1>5, <1>10, <1>11, <1>12, <2>1, <3>1
  <2>2. CASE ~Ending(ParentOf[h])
    BY <1>3, <1>5, <1>8, <1>10, <2>2 DEF IInv, Logs
  <2> QED BY <2>1, <2>2
<1>16. \A t \in Turns : status'[t] = "running" => log'[t] = log[t]
  BY <1>3, <1>4
<1> QED BY <1>1, <1>6, <1>13, <1>14, <1>15, <1>16 DEF Logs, Ending

-----------------------------------------------------------------------------
(* Each action keeps the invariant.                                        *)
USE DEF rows, live, readers, Goto, Move, Running, Up, UnderWay

LEMMA SubmitStep ==
  ASSUME IInv, NEW t \in Turns, Submit(t)  PROVE IInv'
<1>1. Logs' /\ Onward /\ log' \in [Turns -> Seq(Events)]
  BY LogsStay DEF Submit
<1>2. Used' /\ RunningTurnOwnsBranch' /\ Children' /\ Stages'
  BY DEF IInv, Used, RunningTurnOwnsBranch, Children, Stages, Submit
<1>3. Rows'
  BY <1>1 DEF IInv, Rows, Submit
<1>4. Places'
  BY ConstantsAssumption DEF IInv, Places, Rows, Submit
<1>5. Signals'
  BY DEF IInv, Signals, Submit
<1>6. Owners'
  BY DEF IInv, Owners, NoTurnIsOrphaned, Left, Submit
<1>7. Followers'
  <2>1. Trailing
    BY DEF Trailing, Submit
  <2> QED BY <1>1, <1>3, <2>1, FollowersStay
<1> QED BY <1>1, <1>2, <1>3, <1>4, <1>5, <1>6, <1>7 DEF IInv

LEMMA EnterStep ==
  ASSUME IInv, NEW t \in Turns, Enter(t)  PROVE IInv'
<1>1. Logs' /\ Onward /\ log' \in [Turns -> Seq(Events)]
  BY LogsStay DEF Enter
<1>2. Used' /\ RunningTurnOwnsBranch' /\ Children' /\ Places' /\ Stages'
  BY DEF IInv, Used, RunningTurnOwnsBranch, Children, Places, Stages, Enter
<1>3. Rows'
  BY <1>1 DEF IInv, Rows, Enter
<1>4. Signals'
  BY DEF IInv, Signals, Enter
<1>5. Owners'
  BY DEF IInv, Owners, NoTurnIsOrphaned, Left, Enter
<1>6. Followers'
  <2>1. Trailing
    BY DEF Trailing, Enter
  <2> QED BY <1>1, <1>3, <2>1, FollowersStay
<1> QED BY <1>1, <1>2, <1>3, <1>4, <1>5, <1>6 DEF IInv

LEMMA CommitStep ==
  ASSUME IInv, NEW t \in Turns, NEW added \in {0, 1}, Commit(t, added)  PROVE IInv'
<1>1. /\ Logs' /\ Onward /\ log' \in [Turns -> Seq(Events)]
      /\ \A u \in Turns : \A x : Has(log'[u], x) <=> Has(log[u], x) \/ (u = t /\ x = "started")
  <2>1. "started" \in Events \ {"terminal"} /\ "started" \notin Helpers
    BY ConstantsAssumption DEF Events
  <2> QED BY <2>1, LogsGrow DEF IInv, Stages, Commit
<1>2. Used' /\ Places'
  BY DEF IInv, Used, Places, Commit, Busy
<1>3. Rows'
  <2> DEFINE b == BranchOf[t]
  <2>1. b \in Branches /\ branchRev[b] \in Nat /\ branchRev[b] + added \in Nat
    BY ConstantsAssumption DEF IInv, Rows
  <2>2. branchRev' = [branchRev EXCEPT ![b] = branchRev[b] + added]
    BY DEF Commit
  <2>3. branchRev' \in [Branches -> Nat]
    BY <2>1, <2>2 DEF IInv, Rows
  <2>4. rev' \in [Turns -> Nat]
    BY <2>1 DEF IInv, Rows, Commit
  <2> HIDE DEF b
  <2> QED BY <1>1, <2>3, <2>4 DEF IInv, Rows, Commit
<1>4. Signals'
  BY DEF IInv, Signals, Commit, Busy
<1>5. Stages'
  BY DEF IInv, Stages, Places, Rows, Commit, Busy
<1>6. RunningTurnOwnsBranch'
  BY ConstantsAssumption DEF IInv, RunningTurnOwnsBranch, Rows, Commit, Busy
<1>7. Owners'
  BY DEF IInv, Owners, NoTurnIsOrphaned, Left, Places, Stages, Commit, Busy
<1>8. Children'
  <2>1. \A u \in Turns : u # t => status'[u] = status[u] /\ status[t] = "none"
    BY DEF IInv, Rows, Stages, Commit
  <2>2. \A h \in Helpers : ParentOf[h] \in Turns /\ h # "started"
    BY ConstantsAssumption
  <2>3. UNCHANGED <<child, helper>> /\ status[t] = "none"
    BY DEF IInv, Stages, Commit
  <2> QED BY <1>1, <2>1, <2>2, <2>3 DEF IInv, Children
<1>9. Followers'
  <2>1. Trailing
    BY DEF Trailing, Commit, Busy
  <2> QED BY <1>1, <1>3, <2>1, FollowersStay
<1> QED BY <1>1, <1>2, <1>3, <1>4, <1>5, <1>6, <1>7, <1>8, <1>9 DEF IInv

LEMMA RefuseStep ==
  ASSUME IInv, NEW t \in Turns, Refuse(t)  PROVE IInv'
<1>1. Logs' /\ Onward /\ log' \in [Turns -> Seq(Events)]
  BY LogsStay DEF Refuse
<1>2. Used' /\ RunningTurnOwnsBranch' /\ Children' /\ Places' /\ Stages'
  BY DEF IInv, Used, RunningTurnOwnsBranch, Children, Places, Stages, Refuse
<1>3. Rows'
  BY <1>1 DEF IInv, Rows, Refuse
<1>4. Signals'
  BY DEF IInv, Signals, Refuse
<1>5. Owners'
  BY DEF IInv, Owners, NoTurnIsOrphaned, Left, Refuse
<1>6. Followers'
  <2>1. Trailing
    BY DEF Trailing, Refuse
  <2> QED BY <1>1, <1>3, <2>1, FollowersStay
<1> QED BY <1>1, <1>2, <1>3, <1>4, <1>5, <1>6 DEF IInv

LEMMA StartStep ==
  ASSUME IInv, NEW t \in Turns, Start(t)  PROVE IInv'
<1>1. Logs' /\ Onward /\ log' \in [Turns -> Seq(Events)]
  BY LogsStay DEF Start
<1>2. Used' /\ RunningTurnOwnsBranch' /\ Children' /\ Places'
  BY DEF IInv, Used, RunningTurnOwnsBranch, Children, Places, Start
<1>3. Rows'
  BY <1>1 DEF IInv, Rows, Start
<1>4. Signals'
  BY DEF IInv, Signals, Start
<1>5. Stages'
  BY DEF IInv, Stages, Places, Start
<1>6. Owners'
  BY DEF IInv, Owners, NoTurnIsOrphaned, Left, Places, Start
<1>7. Followers'
  <2>1. Trailing
    BY DEF Trailing, Start
  <2> QED BY <1>1, <1>3, <2>1, FollowersStay
<1> QED BY <1>1, <1>2, <1>3, <1>4, <1>5, <1>6, <1>7 DEF IInv

LEMMA BeginStep ==
  ASSUME IInv, NEW t \in Turns, Begin(t)  PROVE IInv'
<1>1. Logs' /\ Onward /\ log' \in [Turns -> Seq(Events)]
  BY LogsStay DEF Begin
<1>2. Used' /\ RunningTurnOwnsBranch' /\ Children' /\ Places' /\ Stages'
  BY DEF IInv, Used, RunningTurnOwnsBranch, Children, Places, Stages, Begin
<1>3. Rows'
  BY <1>1 DEF IInv, Rows, Begin
<1>4. Signals'
  BY DEF IInv, Signals, Begin
<1>5. Owners'
  BY DEF IInv, Owners, NoTurnIsOrphaned, Left, Begin
<1>6. Followers'
  <2>1. Trailing
    BY DEF Trailing, Begin
  <2> QED BY <1>1, <1>3, <2>1, FollowersStay
<1> QED BY <1>1, <1>2, <1>3, <1>4, <1>5, <1>6 DEF IInv

LEMMA EmitStep ==
  ASSUME IInv, NEW t \in Turns, Emit(t)  PROVE IInv'
<1>1. /\ Logs' /\ Onward /\ log' \in [Turns -> Seq(Events)]
      /\ \A u \in Turns : \A x : Has(log'[u], x) <=> Has(log[u], x) \/ (u = t /\ x = "text")
  <2>1. "text" \in Events \ {"terminal"} /\ "text" \notin Helpers
    BY ConstantsAssumption DEF Events
  <2> QED BY <2>1, LogsGrow DEF IInv, Rows, Emit
<1>2. Used' /\ RunningTurnOwnsBranch' /\ Places' /\ Stages'
  BY DEF IInv, Used, RunningTurnOwnsBranch, Places, Stages, Emit, Wake
<1>3. Rows'
  BY <1>1 DEF IInv, Rows, Emit, Wake
<1>4. Signals'
  BY DEF IInv, Signals, Emit, Wake
<1>5. Owners'
  BY DEF IInv, Owners, NoTurnIsOrphaned, Left, Emit, Wake
<1>6. Children'
  <2>1. \A h \in Helpers : ParentOf[h] \in Turns /\ h # "text"
    BY ConstantsAssumption
  <2>2. UNCHANGED <<status, child, helper>>
    BY DEF Emit
  <2> QED BY <1>1, <2>1, <2>2 DEF IInv, Children
<1>7. Followers'
  <2>1. Trailing
    BY DEF Trailing, Emit, Wake
  <2> QED BY <1>1, <1>3, <2>1, FollowersStay
<1> QED BY <1>1, <1>2, <1>3, <1>4, <1>5, <1>6, <1>7 DEF IInv

LEMMA CompactStep ==
  ASSUME IInv, NEW b \in Branches, Compact(b)  PROVE IInv'
<1>1. Logs' /\ Onward /\ log' \in [Turns -> Seq(Events)]
  BY LogsStay DEF Compact
<1>2. Used' /\ Children' /\ Places' /\ Stages'
  BY DEF IInv, Used, Children, Places, Stages, Compact
<1>3. Rows'
  BY <1>1 DEF IInv, Rows, Compact
<1>4. Signals'
  BY DEF IInv, Signals, Compact
<1>5. RunningTurnOwnsBranch'
  BY DEF IInv, RunningTurnOwnsBranch, Rows, Compact
<1>6. Owners'
  BY DEF IInv, Owners, NoTurnIsOrphaned, Left, Compact
<1>7. Followers'
  <2>1. Trailing
    BY DEF Trailing, Compact
  <2> QED BY <1>1, <1>3, <2>1, FollowersStay
<1> QED BY <1>1, <1>2, <1>3, <1>4, <1>5, <1>6, <1>7 DEF IInv

LEMMA DelegateStep ==
  ASSUME IInv, NEW h \in Helpers, Delegate(h)  PROVE IInv'
<1>1. Logs' /\ Onward /\ log' \in [Turns -> Seq(Events)]
  BY LogsStay DEF IInv, Rows, Children, Delegate
<1>2. Rows'
  BY <1>1 DEF IInv, Rows, Delegate
<1>3. Places'
  BY DEF IInv, Places, Delegate
<1>4. Used'
  BY DEF IInv, Used, Delegate
<1>5. Signals'
  BY DEF IInv, Signals, Delegate
<1>6. Stages'
  BY ConstantsAssumption DEF IInv, Stages, Places, Rows, Children, Delegate
<1>7. RunningTurnOwnsBranch'
  BY DEF IInv, RunningTurnOwnsBranch, Delegate
<1>8. Owners'
  BY DEF IInv, Owners, NoTurnIsOrphaned, Left, Delegate
<1>9. Children'
  BY ConstantsAssumption DEF IInv, Children, Places, Rows, Logs, Stages, Ended,
      Delegate
<1>10. Followers'
  <2>1. Trailing
    BY DEF Trailing, Delegate
  <2> QED BY <1>1, <1>2, <2>1, FollowersStay
<1> QED BY <1>1, <1>2, <1>3, <1>4, <1>5, <1>6, <1>7, <1>8, <1>9, <1>10 DEF IInv

LEMMA HelperBeginsStep ==
  ASSUME IInv, NEW h \in Helpers, HelperBegins(h)  PROVE IInv'
<1>1. Logs' /\ Onward /\ log' \in [Turns -> Seq(Events)]
  BY LogsStay DEF IInv, Rows, Children, HelperBegins
<1>2. Used' /\ RunningTurnOwnsBranch' /\ Children' /\ Places' /\ Stages'
  BY DEF IInv, Used, RunningTurnOwnsBranch, Children, Places, Stages,
      HelperBegins
<1>3. Rows'
  BY <1>1 DEF IInv, Rows, HelperBegins
<1>4. Signals'
  BY DEF IInv, Signals, HelperBegins
<1>5. Owners'
  BY DEF IInv, Owners, NoTurnIsOrphaned, Left, HelperBegins
<1>6. Followers'
  <2>1. Trailing
    BY DEF Trailing, HelperBegins
  <2> QED BY <1>1, <1>3, <2>1, FollowersStay
<1> QED BY <1>1, <1>2, <1>3, <1>4, <1>5, <1>6 DEF IInv

LEMMA HelperEndsStep ==
  ASSUME IInv, NEW h \in Helpers, HelperEnds(h)  PROVE IInv'
<1>1. Logs' /\ Onward /\ log' \in [Turns -> Seq(Events)]
  BY LogsStay DEF IInv, Rows, Children, HelperEnds
<1>2. Used' /\ RunningTurnOwnsBranch' /\ Children' /\ Places' /\ Stages'
  BY DEF IInv, Used, RunningTurnOwnsBranch, Children, Places, Stages,
      HelperEnds
<1>3. Rows'
  BY <1>1 DEF IInv, Rows, HelperEnds
<1>4. Signals'
  BY DEF IInv, Signals, HelperEnds
<1>5. Owners'
  BY DEF IInv, Owners, NoTurnIsOrphaned, Left, HelperEnds
<1>6. Followers'
  <2>1. Trailing
    BY DEF Trailing, HelperEnds
  <2> QED BY <1>1, <1>3, <2>1, FollowersStay
<1> QED BY <1>1, <1>2, <1>3, <1>4, <1>5, <1>6 DEF IInv

LEMMA PublishStep ==
  ASSUME IInv, NEW h \in Helpers, Publish(h)  PROVE IInv'
<1>1. /\ Logs' /\ Onward /\ log' \in [Turns -> Seq(Events)]
      /\ \A u \in Turns : \A x : Has(log'[u], x) => Has(log[u], x) \/ x = h
  <2>1. h \in Events \ {"terminal"} /\ ParentOf[h] \in Turns
    BY ConstantsAssumption DEF Events
  <2>2. CASE status[ParentOf[h]] = "running"
    <3>1. /\ Append1(ParentOf[h], h) /\ UNCHANGED <<status, child>>
          /\ child[h] # "none" /\ ~Has(log[ParentOf[h]], h)
      BY <2>2 DEF IInv, Children, Publish
    <3>2. status' = [status EXCEPT ![ParentOf[h]] = "running"]
      BY <2>2, <3>1 DEF IInv, Rows
    <3> QED BY <2>1, <2>2, <3>1, <3>2, LogsGrow
  <2>3. CASE status[ParentOf[h]] # "running"
    BY <2>3, LogsStay DEF Publish
  <2> QED BY <2>2, <2>3
<1>2. Used' /\ RunningTurnOwnsBranch' /\ Places' /\ Stages'
  BY DEF IInv, Used, RunningTurnOwnsBranch, Places, Stages, Publish, Wake
<1>3. Rows'
  BY <1>1 DEF IInv, Rows, Publish, Wake
<1>4. Signals'
  BY DEF IInv, Signals, Publish, Wake
<1>5. Owners'
  BY DEF IInv, Owners, NoTurnIsOrphaned, Left, Publish, Wake
<1>6. Children'
  <2>1. \A k \in Helpers : ParentOf[k] \in Turns
    BY ConstantsAssumption
  <2>2. UNCHANGED <<status, child>>
    BY DEF Publish
  <2>3. helper'[h] = "done" /\ \A k \in Helpers : k # h => helper'[k] = helper[k]
    BY DEF IInv, Places, Publish
  <2> QED BY <1>1, <2>1, <2>2, <2>3 DEF IInv, Children
<1>7. Followers'
  <2>1. Trailing
    BY DEF Trailing, Publish, Wake
  <2> QED BY <1>1, <1>3, <2>1, FollowersStay
<1> QED BY <1>1, <1>2, <1>3, <1>4, <1>5, <1>6, <1>7 DEF IInv

LEMMA VanishStep ==
  ASSUME IInv, NEW h \in Helpers, Vanish(h)  PROVE IInv'
<1>1. Logs' /\ Onward /\ log' \in [Turns -> Seq(Events)]
  BY LogsStay DEF Vanish, Faulty
<1>2. Used' /\ RunningTurnOwnsBranch' /\ Children' /\ Places' /\ Stages'
  BY DEF IInv, Used, RunningTurnOwnsBranch, Children, Places, Stages, Vanish,
      Faulty
<1>3. Rows'
  BY <1>1 DEF IInv, Rows, Vanish, Faulty
<1>4. Signals'
  BY DEF IInv, Signals, Vanish, Faulty
<1>5. Owners'
  BY DEF IInv, Owners, NoTurnIsOrphaned, Left, Places, Used, Vanish, Faulty
<1>6. Followers'
  <2>1. Trailing
    BY DEF Trailing, Vanish, Faulty
  <2> QED BY <1>1, <1>3, <2>1, FollowersStay
<1> QED BY <1>1, <1>2, <1>3, <1>4, <1>5, <1>6 DEF IInv

LEMMA CompleteStep ==
  ASSUME IInv, NEW t \in Turns, Complete(t)  PROVE IInv'
<1>1. Finish({t}, "completed")
  BY DEF Complete, FinishWithMessages
<1>2. /\ Logs' /\ Onward /\ log' \in [Turns -> Seq(Events)]
      /\ \A u \in Turns : status'[u] = "running" => log'[u] = log[u]
      /\ status' = [u \in Turns |-> IF u \in {t} /\ status[u] = "running"
                                      THEN "completed" ELSE status[u]]
      /\ child' = [k \in Helpers |-> IF /\ ParentOf[k] \in {t}
                                        /\ status[ParentOf[k]] = "running"
                                        /\ child[k] = "live"
                                       THEN "ended" ELSE child[k]]
  BY <1>1, LogsClose
<1>3. Rows'
  <2> DEFINE b == BranchOf[t]
  <2>1. b \in Branches /\ branchRev[b] \in Nat /\ branchRev[b] + (IF status[t] = "running" THEN 1 ELSE 0) \in Nat
    BY ConstantsAssumption DEF IInv, Rows
  <2>2. branchRev' = [branchRev EXCEPT ![b] = branchRev[b] + (IF status[t] = "running" THEN 1 ELSE 0)]
    BY DEF Complete, FinishWithMessages
  <2>3. branchRev' \in [Branches -> Nat]
    BY <2>1, <2>2 DEF IInv, Rows
  <2> HIDE DEF b
  <2> QED BY <1>2, <2>3 DEF IInv, Rows, Complete, FinishWithMessages
<1>4. Places'
  BY DEF IInv, Places, Complete, FinishWithMessages
<1>5. Used'
  BY DEF IInv, Used, Complete, FinishWithMessages
<1>6. Signals'
  BY DEF IInv, Signals, Complete, FinishWithMessages
<1>7. Stages'
  BY <1>2 DEF IInv, Stages, Complete, FinishWithMessages
<1>8. RunningTurnOwnsBranch'
  BY <1>2 DEF IInv, RunningTurnOwnsBranch, Complete, FinishWithMessages
<1>9. Owners'
  BY <1>2 DEF IInv, Owners, NoTurnIsOrphaned, Left, Complete,
      FinishWithMessages
<1>10. Children'
  <2>1. \A k \in Helpers : ParentOf[k] \in Turns /\ child[k] \in {"none", "live", "ended"}
    BY ConstantsAssumption DEF IInv, Rows
  <2>2. \A k \in Helpers : helper'[k] \in {helper[k], "none"}
    BY DEF Complete, FinishWithMessages
  <2>3. \A u \in Turns : /\ status'[u] = "running" => status[u] = "running"
                         /\ status[u] # "none" => status'[u] # "none"
    BY <1>2
  <2>4. \A k \in Helpers : /\ child'[k] = "live" => /\ child[k] = "live"
                                                   /\ status'[ParentOf[k]] = "running"
                           /\ child'[k] = "none" <=> child[k] = "none"
    BY <1>2, <2>1 DEF IInv, Children
  <2> QED BY <1>2, <2>1, <2>2, <2>3, <2>4 DEF IInv, Children
<1>11. Followers'
  <2>1. Trailing
    BY DEF Trailing, Complete, FinishWithMessages
  <2> QED BY <1>2, <1>3, <2>1, FollowersStay
<1> QED BY <1>2, <1>3, <1>4, <1>5, <1>6, <1>7, <1>8, <1>9, <1>10, <1>11 DEF IInv

LEMMA FailStep ==
  ASSUME IInv, NEW t \in Turns, Fail(t)  PROVE IInv'
<1>1. Logs' /\ Onward /\ log' \in [Turns -> Seq(Events)]
  BY LogsStay DEF Fail
<1>2. Used' /\ RunningTurnOwnsBranch' /\ Children' /\ Places' /\ Stages'
  BY DEF IInv, Used, RunningTurnOwnsBranch, Children, Places, Stages, Fail
<1>3. Rows'
  BY <1>1 DEF IInv, Rows, Fail
<1>4. Signals'
  BY DEF IInv, Signals, Fail
<1>5. Owners'
  BY DEF IInv, Owners, NoTurnIsOrphaned, Left, Fail
<1>6. Followers'
  <2>1. Trailing
    BY DEF Trailing, Fail
  <2> QED BY <1>1, <1>3, <2>1, FollowersStay
<1> QED BY <1>1, <1>2, <1>3, <1>4, <1>5, <1>6 DEF IInv

LEMMA FailFinishStep ==
  ASSUME IInv, NEW t \in Turns, FailFinish(t)  PROVE IInv'
<1>1. Finish({t}, "error")
  BY DEF FailFinish, FinishWithMessages
<1>2. /\ Logs' /\ Onward /\ log' \in [Turns -> Seq(Events)]
      /\ \A u \in Turns : status'[u] = "running" => log'[u] = log[u]
      /\ status' = [u \in Turns |-> IF u \in {t} /\ status[u] = "running"
                                      THEN "error" ELSE status[u]]
      /\ child' = [k \in Helpers |-> IF /\ ParentOf[k] \in {t}
                                        /\ status[ParentOf[k]] = "running"
                                        /\ child[k] = "live"
                                       THEN "ended" ELSE child[k]]
  BY <1>1, LogsClose
<1>3. Rows'
  <2> DEFINE b == BranchOf[t]
  <2>1. b \in Branches /\ branchRev[b] \in Nat /\ branchRev[b] + (IF status[t] = "running" THEN 1 ELSE 0) \in Nat
    BY ConstantsAssumption DEF IInv, Rows
  <2>2. branchRev' = [branchRev EXCEPT ![b] = branchRev[b] + (IF status[t] = "running" THEN 1 ELSE 0)]
    BY DEF FailFinish, FinishWithMessages
  <2>3. branchRev' \in [Branches -> Nat]
    BY <2>1, <2>2 DEF IInv, Rows
  <2> HIDE DEF b
  <2> QED BY <1>2, <2>3 DEF IInv, Rows, FailFinish, FinishWithMessages
<1>4. Places'
  BY DEF IInv, Places, FailFinish, FinishWithMessages
<1>5. Used'
  BY DEF IInv, Used, FailFinish, FinishWithMessages
<1>6. Signals'
  BY DEF IInv, Signals, FailFinish, FinishWithMessages
<1>7. Stages'
  BY <1>2 DEF IInv, Stages, FailFinish, FinishWithMessages
<1>8. RunningTurnOwnsBranch'
  BY <1>2 DEF IInv, RunningTurnOwnsBranch, Rows, FailFinish, FinishWithMessages
<1>9. Owners'
  BY <1>2 DEF IInv, Owners, NoTurnIsOrphaned, Left, FailFinish,
      FinishWithMessages
<1>10. Children'
  <2>1. \A k \in Helpers : ParentOf[k] \in Turns /\ child[k] \in {"none", "live", "ended"}
    BY ConstantsAssumption DEF IInv, Rows
  <2>2. \A k \in Helpers : helper'[k] \in {helper[k], "none"}
    BY DEF FailFinish, FinishWithMessages
  <2>3. \A u \in Turns : /\ status'[u] = "running" => status[u] = "running"
                         /\ status[u] # "none" => status'[u] # "none"
    BY <1>2
  <2>4. \A k \in Helpers : /\ child'[k] = "live" => /\ child[k] = "live"
                                                   /\ status'[ParentOf[k]] = "running"
                           /\ child'[k] = "none" <=> child[k] = "none"
    BY <1>2, <2>1 DEF IInv, Children
  <2> QED BY <1>2, <2>1, <2>2, <2>3, <2>4 DEF IInv, Children
<1>11. Followers'
  <2>1. Trailing
    BY DEF Trailing, FailFinish, FinishWithMessages
  <2> QED BY <1>2, <1>3, <2>1, FollowersStay
<1> QED BY <1>2, <1>3, <1>4, <1>5, <1>6, <1>7, <1>8, <1>9, <1>10, <1>11 DEF IInv

LEMMA CancelFinishStep ==
  ASSUME IInv, NEW t \in Turns, CancelFinish(t)  PROVE IInv'
<1>1. Finish({t}, "cancelled")
  BY DEF CancelFinish, FinishBare
<1>2. /\ Logs' /\ Onward /\ log' \in [Turns -> Seq(Events)]
      /\ \A u \in Turns : status'[u] = "running" => log'[u] = log[u]
      /\ status' = [u \in Turns |-> IF u \in {t} /\ status[u] = "running"
                                      THEN "cancelled" ELSE status[u]]
      /\ child' = [k \in Helpers |-> IF /\ ParentOf[k] \in {t}
                                        /\ status[ParentOf[k]] = "running"
                                        /\ child[k] = "live"
                                       THEN "ended" ELSE child[k]]
  BY <1>1, LogsClose
<1>3. Rows'
  BY <1>2 DEF IInv, Rows, CancelFinish, FinishBare
<1>4. Places'
  BY DEF IInv, Places, CancelFinish, FinishBare
<1>5. Used'
  BY DEF IInv, Used, CancelFinish, FinishBare
<1>6. Signals'
  BY DEF IInv, Signals, CancelFinish, FinishBare
<1>7. Stages'
  BY <1>2 DEF IInv, Stages, CancelFinish, FinishBare
<1>8. RunningTurnOwnsBranch'
  BY <1>2 DEF IInv, RunningTurnOwnsBranch, CancelFinish, FinishBare
<1>9. Owners'
  BY <1>2 DEF IInv, Owners, NoTurnIsOrphaned, Left, CancelFinish, FinishBare
<1>10. Children'
  <2>1. \A k \in Helpers : ParentOf[k] \in Turns /\ child[k] \in {"none", "live", "ended"}
    BY ConstantsAssumption DEF IInv, Rows
  <2>2. \A k \in Helpers : helper'[k] \in {helper[k], "none"}
    BY DEF CancelFinish, FinishBare
  <2>3. \A u \in Turns : /\ status'[u] = "running" => status[u] = "running"
                         /\ status[u] # "none" => status'[u] # "none"
    BY <1>2
  <2>4. \A k \in Helpers : /\ child'[k] = "live" => /\ child[k] = "live"
                                                   /\ status'[ParentOf[k]] = "running"
                           /\ child'[k] = "none" <=> child[k] = "none"
    BY <1>2, <2>1 DEF IInv, Children
  <2> QED BY <1>2, <2>1, <2>2, <2>3, <2>4 DEF IInv, Children
<1>11. Followers'
  <2>1. Trailing
    BY DEF Trailing, CancelFinish, FinishBare
  <2> QED BY <1>2, <1>3, <2>1, FollowersStay
<1> QED BY <1>2, <1>3, <1>4, <1>5, <1>6, <1>7, <1>8, <1>9, <1>10, <1>11 DEF IInv

LEMMA HandlerFailsStep ==
  ASSUME IInv, NEW t \in Turns, HandlerFails(t)  PROVE IInv'
<1>1. Logs' /\ Onward /\ log' \in [Turns -> Seq(Events)]
  BY LogsStay DEF HandlerFails, Faulty
<1>2. Used' /\ RunningTurnOwnsBranch' /\ Children' /\ Places' /\ Stages'
  BY DEF IInv, Used, RunningTurnOwnsBranch, Children, Places, Stages,
      HandlerFails, Faulty
<1>3. Rows'
  BY <1>1 DEF IInv, Rows, HandlerFails, Faulty
<1>4. Signals'
  BY DEF IInv, Signals, HandlerFails, Faulty
<1>5. Owners'
  BY DEF IInv, Owners, NoTurnIsOrphaned, Left, Places, Used, HandlerFails,
      Faulty
<1>6. Followers'
  <2>1. Trailing
    BY DEF Trailing, HandlerFails, Faulty
  <2> QED BY <1>1, <1>3, <2>1, FollowersStay
<1> QED BY <1>1, <1>2, <1>3, <1>4, <1>5, <1>6 DEF IInv

LEMMA LeaveStep ==
  ASSUME IInv, NEW t \in Turns, Leave(t)  PROVE IInv'
<1>1. Logs' /\ Onward /\ log' \in [Turns -> Seq(Events)]
  BY LogsStay DEF Leave, Wake
<1>2. Used' /\ RunningTurnOwnsBranch' /\ Children' /\ Places' /\ Stages'
  BY DEF IInv, Used, RunningTurnOwnsBranch, Children, Places, Stages, Leave,
      Wake
<1>3. Rows'
  BY <1>1 DEF IInv, Rows, Leave, Wake
<1>4. Signals'
  BY DEF IInv, Signals, Leave, Wake
<1>5. Owners'
  BY DEF IInv, Owners, NoTurnIsOrphaned, Left, Leave, Wake
<1>6. Followers'
  <2>1. Trailing
    BY DEF Trailing, Leave, Wake
  <2> QED BY <1>1, <1>3, <2>1, FollowersStay
<1> QED BY <1>1, <1>2, <1>3, <1>4, <1>5, <1>6 DEF IInv

LEMMA CancelStep ==
  ASSUME IInv, NEW t \in Turns, Cancel(t)  PROVE IInv'
<1>1. Logs' /\ Onward /\ log' \in [Turns -> Seq(Events)]
  BY LogsStay DEF Cancel, AfterCancel
<1>2. Used' /\ RunningTurnOwnsBranch' /\ Children' /\ Places' /\ Stages'
  BY DEF IInv, Used, RunningTurnOwnsBranch, Children, Places, Stages, Cancel,
      AfterCancel
<1>3. Rows'
  BY <1>1 DEF IInv, Rows, Cancel, AfterCancel
<1>4. Signals'
  BY DEF IInv, Signals, Cancel, AfterCancel
<1>5. Owners'
  BY DEF IInv, Owners, NoTurnIsOrphaned, Left, Cancel, AfterCancel
<1>6. Followers'
  <2>1. Trailing
    BY DEF Trailing, Cancel, AfterCancel
  <2> QED BY <1>1, <1>3, <2>1, FollowersStay
<1> QED BY <1>1, <1>2, <1>3, <1>4, <1>5, <1>6 DEF IInv

LEMMA StopFinishStep ==
  ASSUME IInv, NEW t \in Turns, StopFinish(t)  PROVE IInv'
<1>1. Finish({t}, "cancelled")
  BY DEF StopFinish, FinishBare, Wake
<1>2. /\ Logs' /\ Onward /\ log' \in [Turns -> Seq(Events)]
      /\ \A u \in Turns : status'[u] = "running" => log'[u] = log[u]
      /\ status' = [u \in Turns |-> IF u \in {t} /\ status[u] = "running"
                                      THEN "cancelled" ELSE status[u]]
      /\ child' = [k \in Helpers |-> IF /\ ParentOf[k] \in {t}
                                        /\ status[ParentOf[k]] = "running"
                                        /\ child[k] = "live"
                                       THEN "ended" ELSE child[k]]
  BY <1>1, LogsClose
<1>3. Rows'
  BY <1>2 DEF IInv, Rows, StopFinish, FinishBare, Wake
<1>4. Places'
  BY DEF IInv, Places, StopFinish, FinishBare, Wake
<1>5. Used'
  BY DEF IInv, Used, StopFinish, FinishBare, Wake
<1>6. Signals'
  BY DEF IInv, Signals, StopFinish, FinishBare, Wake
<1>7. Stages'
  BY <1>2 DEF IInv, Stages, StopFinish, FinishBare, Wake
<1>8. RunningTurnOwnsBranch'
  BY <1>2 DEF IInv, RunningTurnOwnsBranch, StopFinish, FinishBare, Wake
<1>9. Owners'
  BY <1>2 DEF IInv, Owners, NoTurnIsOrphaned, Left, StopFinish, FinishBare,
      Wake
<1>10. Children'
  <2>1. \A k \in Helpers : ParentOf[k] \in Turns /\ child[k] \in {"none", "live", "ended"}
    BY ConstantsAssumption DEF IInv, Rows
  <2>2. \A k \in Helpers : helper'[k] \in {helper[k], "none"}
    BY DEF StopFinish, FinishBare
  <2>3. \A u \in Turns : /\ status'[u] = "running" => status[u] = "running"
                         /\ status[u] # "none" => status'[u] # "none"
    BY <1>2
  <2>4. \A k \in Helpers : /\ child'[k] = "live" => /\ child[k] = "live"
                                                   /\ status'[ParentOf[k]] = "running"
                           /\ child'[k] = "none" <=> child[k] = "none"
    BY <1>2, <2>1 DEF IInv, Children
  <2> QED BY <1>2, <2>1, <2>2, <2>3, <2>4 DEF IInv, Children
<1>11. Followers'
  <2>1. Trailing
    BY DEF Trailing, StopFinish, FinishBare, Wake
  <2> QED BY <1>2, <1>3, <2>1, FollowersStay
<1> QED BY <1>2, <1>3, <1>4, <1>5, <1>6, <1>7, <1>8, <1>9, <1>10, <1>11 DEF IInv

LEMMA StopFailsStep ==
  ASSUME IInv, NEW t \in Turns, StopFails(t)  PROVE IInv'
<1>1. Logs' /\ Onward /\ log' \in [Turns -> Seq(Events)]
  BY LogsStay DEF StopFails, Faulty
<1>2. Used' /\ RunningTurnOwnsBranch' /\ Children' /\ Places' /\ Stages'
  BY DEF IInv, Used, RunningTurnOwnsBranch, Children, Places, Stages,
      StopFails, Faulty
<1>3. Rows'
  BY <1>1 DEF IInv, Rows, StopFails, Faulty
<1>4. Signals'
  BY DEF IInv, Signals, StopFails, Faulty
<1>5. Owners'
  BY DEF IInv, Owners, NoTurnIsOrphaned, Left, Places, Used, StopFails, Faulty
<1>6. Followers'
  <2>1. Trailing
    BY DEF Trailing, StopFails, Faulty
  <2> QED BY <1>1, <1>3, <2>1, FollowersStay
<1> QED BY <1>1, <1>2, <1>3, <1>4, <1>5, <1>6 DEF IInv

LEMMA CloseStep ==
  ASSUME IInv, Close  PROVE IInv'
<1>1. Logs' /\ Onward /\ log' \in [Turns -> Seq(Events)]
  BY LogsStay DEF Close
<1>2. Used' /\ RunningTurnOwnsBranch' /\ Children' /\ Places' /\ Stages'
  BY DEF IInv, Used, RunningTurnOwnsBranch, Children, Places, Stages, Close
<1>3. Rows'
  BY <1>1 DEF IInv, Rows, Close
<1>4. Signals'
  BY DEF IInv, Signals, Close
<1>5. Owners'
  BY DEF IInv, Owners, NoTurnIsOrphaned, Left, Close
<1>6. Followers'
  <2>1. Trailing
    BY DEF Trailing, Close
  <2> QED BY <1>1, <1>3, <2>1, FollowersStay
<1> QED BY <1>1, <1>2, <1>3, <1>4, <1>5, <1>6 DEF IInv

LEMMA DrainStep ==
  ASSUME IInv, Drain  PROVE IInv'
<1>1. Logs' /\ Onward /\ log' \in [Turns -> Seq(Events)]
  BY LogsStay DEF Drain, AfterCancel
<1>2. Used' /\ RunningTurnOwnsBranch' /\ Children' /\ Places' /\ Stages'
  BY DEF IInv, Used, RunningTurnOwnsBranch, Children, Places, Stages, Drain,
      AfterCancel
<1>3. Rows'
  BY <1>1 DEF IInv, Rows, Drain, AfterCancel
<1>4. Signals'
  BY DEF IInv, Signals, Drain, AfterCancel
<1>5. Owners'
  BY DEF IInv, Owners, NoTurnIsOrphaned, Left, Places, Stages, Drain,
      AfterCancel
<1>6. Followers'
  <2>1. Trailing
    BY DEF Trailing, Drain, AfterCancel
  <2> QED BY <1>1, <1>3, <2>1, FollowersStay
<1> QED BY <1>1, <1>2, <1>3, <1>4, <1>5, <1>6 DEF IInv

LEMMA ExitStep ==
  ASSUME IInv, Exit  PROVE IInv'
<1>1. Finish(sweep, "cancelled")
  BY DEF Exit, FinishBare, Gone
<1>2. /\ Logs' /\ Onward /\ log' \in [Turns -> Seq(Events)]
      /\ \A u \in Turns : status'[u] = "running" => log'[u] = log[u]
      /\ status' = [u \in Turns |-> IF u \in sweep /\ status[u] = "running"
                                      THEN "cancelled" ELSE status[u]]
      /\ child' = [k \in Helpers |-> IF /\ ParentOf[k] \in sweep
                                        /\ status[ParentOf[k]] = "running"
                                        /\ child[k] = "live"
                                       THEN "ended" ELSE child[k]]
  BY <1>1, LogsClose DEF IInv, Places
<1>3. Rows'
  BY <1>2 DEF IInv, Rows, Exit, FinishBare, Gone
<1>4. Places'
  BY DEF IInv, Places, Exit, FinishBare, Gone
<1>5. Used'
  BY DEF IInv, Used, Exit, FinishBare, Gone
<1>6. Signals'
  BY DEF IInv, Signals, Exit, FinishBare, Gone
<1>7. Stages'
  BY <1>2 DEF IInv, Stages, Exit, FinishBare, Gone
<1>8. RunningTurnOwnsBranch'
  BY <1>2 DEF IInv, RunningTurnOwnsBranch, Exit, FinishBare, Gone
<1>9. Owners'
  BY <1>2 DEF IInv, Owners, NoTurnIsOrphaned, Left, Places, Stages, Exit,
      FinishBare, Gone
<1>10. Children'
  <2>1. \A k \in Helpers : ParentOf[k] \in Turns /\ child[k] \in {"none", "live", "ended"}
    BY ConstantsAssumption DEF IInv, Rows
  <2>2. \A k \in Helpers : helper'[k] \in {helper[k], "none"}
    BY DEF Exit, FinishBare, Gone
  <2>3. \A u \in Turns : /\ status'[u] = "running" => status[u] = "running"
                         /\ status[u] # "none" => status'[u] # "none"
    BY <1>2
  <2>4. \A k \in Helpers : /\ child'[k] = "live" => /\ child[k] = "live"
                                                   /\ status'[ParentOf[k]] = "running"
                           /\ child'[k] = "none" <=> child[k] = "none"
    BY <1>2, <2>1 DEF IInv, Children
  <2> QED BY <1>2, <2>1, <2>2, <2>3, <2>4 DEF IInv, Children
<1>11. Followers'
  <2>1. Trailing
    BY DEF Trailing, Exit, FinishBare, Gone
  <2> QED BY <1>2, <1>3, <2>1, FollowersStay
<1> QED BY <1>2, <1>3, <1>4, <1>5, <1>6, <1>7, <1>8, <1>9, <1>10, <1>11 DEF IInv

LEMMA CrashStep ==
  ASSUME IInv, Crash  PROVE IInv'
<1>1. Logs' /\ Onward /\ log' \in [Turns -> Seq(Events)]
  BY LogsStay DEF Crash, Gone
<1>2. Used' /\ RunningTurnOwnsBranch' /\ Children' /\ Places' /\ Stages'
  BY DEF IInv, Used, RunningTurnOwnsBranch, Children, Places, Stages, Crash,
      Gone
<1>3. Rows'
  BY <1>1 DEF IInv, Rows, Crash, Gone
<1>4. Signals'
  BY DEF IInv, Signals, Crash, Gone
<1>5. Owners'
  BY DEF IInv, Owners, NoTurnIsOrphaned, Left, Crash, Gone
<1>6. Followers'
  <2>1. Trailing
    BY DEF Trailing, Crash, Gone
  <2> QED BY <1>1, <1>3, <2>1, FollowersStay
<1> QED BY <1>1, <1>2, <1>3, <1>4, <1>5, <1>6 DEF IInv

LEMMA RecoverStep ==
  ASSUME IInv, Recover  PROVE IInv'
<1>1. Finish(Turns, "error")
  BY DEF Recover, FinishBare
<1>2. /\ Logs' /\ Onward /\ log' \in [Turns -> Seq(Events)]
      /\ \A u \in Turns : status'[u] = "running" => log'[u] = log[u]
      /\ status' = [u \in Turns |-> IF u \in Turns /\ status[u] = "running"
                                      THEN "error" ELSE status[u]]
      /\ child' = [k \in Helpers |-> IF /\ ParentOf[k] \in Turns
                                        /\ status[ParentOf[k]] = "running"
                                        /\ child[k] = "live"
                                       THEN "ended" ELSE child[k]]
  BY <1>1, LogsClose
<1>3. Rows'
  BY <1>2 DEF IInv, Rows, Recover, FinishBare
<1>4. Places'
  BY DEF IInv, Places, Recover, FinishBare
<1>5. Used'
  BY DEF IInv, Used, Recover, FinishBare
<1>6. Signals'
  BY DEF IInv, Signals, Recover, FinishBare
<1>7. Stages'
  BY <1>2 DEF IInv, Stages, Places, Recover, FinishBare
<1>8. RunningTurnOwnsBranch'
  BY <1>2 DEF IInv, RunningTurnOwnsBranch, Recover, FinishBare
<1>9. Owners'
  BY <1>2 DEF IInv, Owners, NoTurnIsOrphaned, Left, Recover, FinishBare
<1>10. Children'
  <2>1. \A k \in Helpers : ParentOf[k] \in Turns /\ child[k] \in {"none", "live", "ended"}
    BY ConstantsAssumption DEF IInv, Rows
  <2>2. \A k \in Helpers : helper'[k] \in {helper[k], "none"}
    BY DEF Recover, FinishBare
  <2>3. \A u \in Turns : /\ status'[u] = "running" => status[u] = "running"
                         /\ status[u] # "none" => status'[u] # "none"
    BY <1>2
  <2>4. \A k \in Helpers : /\ child'[k] = "live" => /\ child[k] = "live"
                                                   /\ status'[ParentOf[k]] = "running"
                           /\ child'[k] = "none" <=> child[k] = "none"
    BY <1>2, <2>1 DEF IInv, Children
  <2> QED BY <1>2, <2>1, <2>2, <2>3, <2>4 DEF IInv, Children
<1>11. Followers'
  <2>1. Trailing
    BY DEF Trailing, Recover, FinishBare
  <2> QED BY <1>2, <1>3, <2>1, FollowersStay
<1> QED BY <1>2, <1>3, <1>4, <1>5, <1>6, <1>7, <1>8, <1>9, <1>10, <1>11 DEF IInv

(* Steps of a reader change nothing but what it has seen.                  *)
LEMMA ReaderStep ==
  ASSUME IInv, NEW r \in Readers,
         Attach(r) \/ Replay(r) \/ Check(r) \/ LastReplay(r) \/ Heartbeat(r)
  PROVE  IInv'
<1> DEFINE t == Followed[r]
<1>1. t \in Turns /\ log[t] \in Seq(Events) /\ Len(log[t]) \in Nat
  BY ConstantsAssumption DEF IInv, Rows
<1>2. UNCHANGED <<rows, owner, admission, expected, live, used>>
  BY DEF Attach, Replay, Check, LastReplay, Heartbeat
<1>3. Rows' /\ Used' /\ Stages' /\ RunningTurnOwnsBranch'
  BY <1>2 DEF IInv, Rows, Used, Stages, RunningTurnOwnsBranch
<1>4. Owners' /\ Children' /\ Logs'
  BY <1>2 DEF IInv, Owners, NoTurnIsOrphaned, Left, Children, Logs, Ended
<1>5. Places'
  BY <1>1, <1>2 DEF IInv, Places, Attach, Replay, Check, LastReplay, Heartbeat
<1>6. Signals'
  BY DEF IInv, Signals, Attach, Replay, Check, LastReplay, Heartbeat
<1>7. ASSUME NEW q \in Readers, q # r
      PROVE  cursor'[q] = cursor[q] /\ reader'[q] = reader[q]
  BY <1>7 DEF IInv, Places, Attach, Replay, Check, LastReplay, Heartbeat
<1>8. \A q \in Readers : q # r => Follows(q)'
  BY <1>2, <1>7 DEF IInv, Followers, Follows, Ended
<1>9. /\ Follows(r) /\ cursor[r] \in Nat
      /\ log'[t] = log[t] /\ status'[t] = status[t] /\ (Ended(t)' <=> Ended(t))
  BY <1>2 DEF IInv, Places, Followers, Ended
<1>10. ASSUME Attach(r)  PROVE Follows(r)'
  BY <1>9, <1>10 DEF IInv, Places, Follows, Attach
<1>11. ASSUME Replay(r)  PROVE Follows(r)'
  <2>1. /\ reader[r] = "replay" /\ cursor'[r] = Len(log[t])
        /\ reader'[r] = IF \E i \in cursor[r] + 1 .. Len(log[t]) : log[t][i] = "terminal"
                          THEN "over" ELSE "check"
    BY <1>11 DEF IInv, Places, Replay
  <2>2. ASSUME NEW i \in cursor[r] + 1 .. Len(log[t]), log[t][i] = "terminal"
        PROVE  Ended(t)
    <3>1. Has(log[t], "terminal")
      BY <1>1, <1>9, <2>2 DEF Has
    <3> QED BY <1>1, <3>1 DEF IInv, Logs
  <2>3. reader'[r] = "over" => Ended(t)
    BY <2>1, <2>2
  <2> QED BY <1>1, <1>2, <1>9, <2>1, <2>3 DEF Follows
<1>12. ASSUME Check(r)  PROVE Follows(r)'
  <2>1. /\ reader[r] = "check" /\ cursor'[r] = cursor[r]
        /\ \/ reader'[r] = "tail" /\ status[t] # "running"
           \/ reader'[r] \in {"replay", "wait"}
    BY <1>12 DEF IInv, Places, Check
  <2>2. status[t] \in {"none", "running", "completed", "cancelled", "error"}
    BY <1>1 DEF IInv, Rows
  <2>3. status[t] # "none" /\ (status[t] # "running" => Ended(t))
    BY <1>9, <2>1, <2>2 DEF Follows, Ended
  <2> QED BY <1>2, <1>9, <2>1, <2>3 DEF Follows
<1>13. ASSUME LastReplay(r)  PROVE Follows(r)'
  <2>1. reader[r] = "tail" /\ cursor'[r] = Len(log[t]) /\ reader'[r] = "over"
    BY <1>13 DEF IInv, Places, LastReplay
  <2> QED BY <1>1, <1>2, <1>9, <2>1 DEF Follows
<1>14. ASSUME Heartbeat(r)  PROVE Follows(r)'
  BY <1>2, <1>9, <1>14 DEF IInv, Places, Follows, Heartbeat
<1>15. Followers'
  BY <1>8, <1>10, <1>11, <1>12, <1>13, <1>14 DEF Followers
<1> QED BY <1>3, <1>4, <1>5, <1>6, <1>15 DEF IInv

-----------------------------------------------------------------------------
LEMMA InitHolds == Init => IInv
<1> SUFFICES ASSUME Init  PROVE IInv
  OBVIOUS
<1>1. Rows /\ Places /\ Used
  BY DEF Init, Rows, Places, Used
<1>2. Signals
  BY DEF Init, Signals
<1>3. Stages /\ Owners /\ RunningTurnOwnsBranch
  BY DEF Init, Stages, Owners, NoTurnIsOrphaned, Left, RunningTurnOwnsBranch
<1>4. \A t \in Turns : \A x : Once(log[t], x) /\ ~Has(log[t], x)
  BY DEF Init, Once, Has
<1>5. Children /\ Logs
  BY <1>4, ConstantsAssumption DEF Init, Children, Logs, Ended
<1>6. Followers
  BY ConstantsAssumption DEF Init, Followers, Follows
<1> QED BY <1>1, <1>2, <1>3, <1>5, <1>6 DEF IInv

LEMMA StutterKeeps == ASSUME IInv, UNCHANGED vars  PROVE IInv'
<1> USE DEF vars
<1>1. Rows' /\ Places' /\ Used' /\ Stages' /\ RunningTurnOwnsBranch'
  BY DEF IInv, Rows, Places, Used, Stages, RunningTurnOwnsBranch
<1>2. Signals'
  BY DEF IInv, Signals
<1>3. Owners' /\ Children' /\ Logs'
  BY DEF IInv, Owners, NoTurnIsOrphaned, Left, Children, Logs, Ended
<1>4. Followers'
  BY DEF IInv, Followers, Follows, Ended
<1> QED BY <1>1, <1>2, <1>3, <1>4 DEF IInv

LEMMA NextPreserves == IInv /\ [Next]_vars => IInv'
<1> SUFFICES ASSUME IInv, [Next]_vars  PROVE IInv'
  OBVIOUS
<1>1. CASE UNCHANGED vars
  BY <1>1, StutterKeeps
<1>2. ASSUME NEW t \in Turns, Turn(t)  PROVE IInv'
  BY <1>2, SubmitStep, EnterStep, CommitStep, RefuseStep, StartStep, BeginStep, EmitStep,
     CompleteStep, FailStep, FailFinishStep, CancelFinishStep, HandlerFailsStep,
     LeaveStep, CancelStep, StopFinishStep, StopFailsStep DEF Turn
<1>3. ASSUME NEW h \in Helpers, \/ Delegate(h) \/ HelperBegins(h) \/ HelperEnds(h)
                                  \/ Publish(h) \/ Vanish(h)
      PROVE  IInv'
  BY <1>3, DelegateStep, HelperBeginsStep, HelperEndsStep, PublishStep, VanishStep
<1>4. ASSUME NEW b \in Branches, Compact(b)  PROVE IInv'
  BY <1>4, CompactStep
<1>5. CASE Close \/ Drain \/ Exit \/ Crash \/ Recover
  BY <1>5, CloseStep, DrainStep, ExitStep, CrashStep, RecoverStep
<1>6. ASSUME NEW r \in Readers,
             Attach(r) \/ Replay(r) \/ Check(r) \/ LastReplay(r) \/ Heartbeat(r)
      PROVE  IInv'
  BY <1>6, ReaderStep
<1> QED BY <1>1, <1>2, <1>3, <1>4, <1>5, <1>6 DEF Next

LEMMA Invariance == Spec => []IInv
<1> QED BY InitHolds, NextPreserves, PTL DEF Spec

-----------------------------------------------------------------------------
(* The rows of the store, the owner's tasks and the readers keep their     *)
(* types, and a turn has a task only once it is durable (_admit).          *)
THEOREM TypeCorrect == Spec => []TypeOK
<1> QED BY Invariance, Typed, PTL

(* While every write of a handler succeeds, a running turn has somebody    *)
(* who will end it, and an owner that has closed left nothing open         *)
(* (_admit, _cancel, close and the handlers of _run).                      *)
THEOREM Owned == Spec => []TurnsHaveOwners
<1>1. ASSUME IInv, used.faults = 0, owner = "exited"
      PROVE  CleanExit
  <2>1. \A t \in Turns : status[t] # "running"
    BY <1>1 DEF IInv, Owners
  <2>2. \A h \in Helpers : child[h] # "live"
    BY <2>1, ConstantsAssumption, <1>1 DEF IInv, Children
  <2> QED BY <2>1, <2>2 DEF CleanExit
<1>2. IInv => TurnsHaveOwners
  BY <1>1 DEF IInv, Owners, TurnsHaveOwners, CleanExit
<1> QED BY <1>2, Invariance, PTL

(* At most one turn runs on a branch and it holds the branch's revision,   *)
(* through its own compactions (begin_turn, save_summary, _finish).        *)
THEOREM BranchOwned == Spec => []RunningTurnOwnsBranch
<1>1. IInv => RunningTurnOwnsBranch
  BY DEF IInv
<1> QED BY <1>1, Invariance, PTL

(* However a turn, its helpers, its cancellation and the owner end, the    *)
(* log gets one terminal event, as its last, and one end of each helper    *)
(* before it (_finish, _finish_subruns).                                   *)
THEOREM LogsEnd == Spec => []LogsEndOnce
<1>1. ASSUME IInv, NEW t \in Turns
      PROVE  /\ Count(t, "terminal") = (IF Ended(t) THEN 1 ELSE 0)
             /\ Ended(t) => Last(log[t]) = "terminal"
             /\ \A h \in HelpersOf(t) :
                  /\ Count(t, h) <= 1
                  /\ Ended(t) /\ child[h] # "none" => Count(t, h) = 1 /\ child[h] = "ended"
  <2>1. log[t] \in Seq(Events)
    BY <1>1 DEF IInv, Rows
  <2>2. /\ Has(log[t], "terminal") <=> Ended(t)
        /\ Once(log[t], "terminal")
        /\ Ended(t) => log[t][Len(log[t])] = "terminal"
    BY <1>1 DEF IInv, Logs
  <2>3. Count(t, "terminal") = (IF Ended(t) THEN 1 ELSE 0)
    BY <2>1, <2>2, Counted
  <2>4. ASSUME NEW h \in HelpersOf(t)
        PROVE  /\ Count(t, h) <= 1
               /\ Ended(t) /\ child[h] # "none" => Count(t, h) = 1 /\ child[h] = "ended"
    <3>1. /\ Once(log[t], h)
          /\ Ended(t) /\ child[h] # "none" => Has(log[t], h) /\ child[h] = "ended"
      BY <1>1, <2>4 DEF IInv, Logs, HelpersOf
    <3>2. Count(t, h) = IF Has(log[t], h) THEN 1 ELSE 0
      BY <2>1, <3>1, Counted
    <3> QED BY <3>1, <3>2
  <2> QED BY <2>2, <2>3, <2>4 DEF Last
<1>2. IInv => LogsEndOnce
  BY <1>1 DEF LogsEndOnce
<1> QED BY <1>2, Invariance, PTL

(* A stream that ended by itself has passed on the whole log of an ended   *)
(* turn (_events: replay, status check, last replay).                      *)
THEOREM ReadersComplete == Spec => []ReadersSeeTheEnd
<1>1. IInv => ReadersSeeTheEnd
  BY DEF IInv, Followers, Follows, ReadersSeeTheEnd
<1> QED BY <1>1, Invariance, PTL
=============================================================================
