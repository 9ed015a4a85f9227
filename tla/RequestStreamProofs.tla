------------------------ MODULE RequestStreamProofs ------------------------
(***************************************************************************)
(* Theorems about RequestLifecycle, for any requests with ids of their own *)
(* and any limits: what clients get, on top of where their requests are    *)
(* (RequestLifecycleProofs).                                               *)
(*                                                                         *)
(* 1. Tokens on their way to a client are never more than were made        *)
(*    (Flowing) and, unless the request is cancelled, never less until it  *)
(*    is failed (Delivering): hence the refinement of TokenStream.         *)
(* 2. A request is admitted again only before its cap, and then makes no   *)
(*    more than its cap again (Bounded): hence the types.                  *)
(* 3. While a client waits its request is queued, running, being admitted  *)
(*    or left to a recovery, or answered (Awaited): hence nobody waits for *)
(*    nothing.                                                             *)
(***************************************************************************)
EXTENDS RequestLifecycleProofs

(* The tokens of a request on their way to its client.                     *)
OutType == [n: Nat, total: Nat, fin: Reasons, err: Errors]

OutOrNone == OutType \cup {None}

Count(o) == IF o = None THEN 0 ELSE o.n

Total(o) == IF o = None THEN 0 ELSE o.total

MadeFor(x) == sched.made[Obj(x)]

Fails(o) == o # None /\ o.err = "failure"

OnTheWay(x) == Count(stream[x].out) + Count(stream[x].buf) + Count(produced[x])

Streaming(x) == client[x].at = "reading" /\ x \notin Generating

(* None is counted twice, whatever the faults, except that a retried       *)
(* generate() is told the total.                                           *)
Flows(x) ==
  LET s == stream[x]
      p == produced[x]
  IN  /\ {s.out, s.buf, p} \subseteq OutOrNone
      /\ MadeFor(x) \in Nat /\ client[x].got \in 0..MadeFor(x) /\ s.sent \in 0..MadeFor(x)
      /\ {Total(s.out), Total(s.buf), Total(p)} \subseteq 0..MadeFor(x)
      /\ OnTheWay(x) <= MadeFor(x)
      /\ Streaming(x) => client[x].got + OnTheWay(x) <= MadeFor(x)
      /\ sched.commits[x] = 0 => MadeFor(x) = 0 /\ p = None
      /\ s.buf # None => s.buf.err = "none"
      /\ Interval = 1 => s.buf = None
      /\ p # None => /\ p.err # "none" => Finished(p)
                     /\ p.err = "failure" => p.n = 0

Flowing == StreamShape(stream) /\ \A x \in Ids : Flows(x)

(* Nothing more will be decoded for a request.                             *)
Closed(x) == ~Occupies(x) \/ (x \in sched.pending /\ step.at \in {"free", "add", "drain"})

NoMore(x) == Closed(x) /\ (produced[x] # None => Fails(produced[x]))

(* Without cancellations, a stream has all its tokens on the way until it  *)
(* is failed, and a last output that is not a failure comes after them.    *)
Faithful(x) ==
  LET s == stream[x]
      p == produced[x]
      c == client[x]
  IN  /\ p # None /\ ~Fails(p) => p.total = MadeFor(x) /\ (Finished(p) => Closed(x))
      /\ p # None /\ loop = "failed" => Fails(p) /\ (c.at = "reading" => Closed(x))
      /\ c.fate = "done" => sched.commits[x] = 1 /\ Closed(x)
      /\ c.at = "adding" => s.buf = None /\ (s.event <=> s.out # None) /\ (s.event => Fails(s.out))
      /\ c.at = "reading" =>
           /\ s.event => s.out # None
           /\ s.out # None /\ Finished(s.out) => s.event
           /\ s.event /\ ~Fails(s.out) => /\ Finished(s.out) /\ s.out.total = MadeFor(x)
                                          /\ s.buf = None /\ NoMore(x)
      /\ Streaming(x) => \/ client[x].got + OnTheWay(x) = MadeFor(x)
                         \/ s.event /\ Fails(s.out) /\ NoMore(x)

Delivering == \A x \in Ids : Faithful(x)

NeverCancelled == "cancel" \notin Faults

-----------------------------------------------------------------------------
(* What the worker does to tokens, outputs and clients.                    *)
LEMMA TurnedFate ==
  ASSUME ClientShape(client), NEW r \in Ids, Turned(r)
  PROVE  /\ client'[r].got = client[r].got
         /\ client'[r].fate = IF client[r].fate = "none" THEN "failed" ELSE client[r].fate
<1> DEFINE f == IF client[r].fate = "none" THEN "failed" ELSE client[r].fate
<1>1. client' = [client EXCEPT ![r] = [client[r] EXCEPT !.at = "closing", !.fate = f]]
  BY DEF Turned, ClientShape
<1> HIDE DEF f
<1>2. client'[r] = [client[r] EXCEPT !.at = "closing", !.fate = f]
  BY <1>1 DEF ClientShape
<1>3. client'[r].got = client[r].got /\ client'[r].fate = f
  BY <1>2 DEF ClientShape, ClientRecord
<1> QED  BY <1>3 DEF f

(* The steps of the worker that produce nothing and admit nobody.          *)
Quiet == \/ AddRefused \/ AddStart \/ AddRaises \/ StepStart \/ DrainEnd \/ StepRaises
         \/ AdmitEnd \/ Reconcile \/ Insert \/ Corrupt
         \/ \E i \in DOMAIN sched.waiting : Admit(i) \/ Defer(i)
         \/ \E r \in Ids : Drain(r)
         \/ FailJob /\ loop' # "failed"

(* Some clients may be turned away.                                        *)
Returned(x) ==
  /\ client'[x].got = client[x].got
  /\ \/ client'[x].at = client[x].at /\ client'[x].fate = client[x].fate
     \/ /\ client'[x].at = "closing"
        /\ client'[x].fate = IF client[x].fate = "none" THEN "failed" ELSE client[x].fate

QuietOutcome ==
  /\ UNCHANGED <<stream, produced>> /\ sched'.made = sched.made /\ sched'.commits = sched.commits
  /\ loop' = "failed" => loop = "failed"
  /\ \A x \in Ids : Returned(x) /\ (Closed(x) => Closed(x)')

LEMMA AddingQuiet ==
  ASSUME IInv, Orderly, OwnIds, AddRefused \/ AddStart \/ AddRaises
  PROVE  QuietOutcome
<1>1. /\ UNCHANGED <<stream, loop, produced>> /\ step'.admitting = step.admitting
      /\ Between /\ Between'
  <2>1. CASE AddRefused  BY <2>1 DEF AddRefused, Taking, Between
  <2>2. CASE AddStart  BY <2>2, OrderlyFacts DEF AddStart, Taking, Between, StepType
  <2>3. CASE AddRaises  BY <2>3, OrderlyFacts DEF AddRaises, Between, StepType
  <2> QED  BY <2>1, <2>2, <2>3
<1>2. /\ sched'.made = sched.made /\ sched'.commits = sched.commits
      /\ sched'.pending = sched.pending /\ sched'.waiting = sched.waiting
      /\ sched'.running = sched.running
  <2>1. CASE AddRefused \/ AddRaises  BY <2>1 DEF AddRefused, AddRaises
  <2>2. CASE AddStart
    <3>1. PICK r \in Ids : jobs[1].obj = Obj(r)  BY <2>2, FirstAdd DEF AddStart
    <3> QED  BY <2>2, <3>1, AddStartEffect, OrderlyFacts DEF Kept
  <2> QED  BY <2>1, <2>2
<1>3. \A x \in Ids : Occupies(x)' <=> Occupies(x)  BY <1>1, <1>2 DEF Occupies, InHand, Queued
<1>4. \A x \in Ids : Closed(x) => Closed(x)'  BY <1>1, <1>2, <1>3 DEF Closed, Between
<1>5. \A x \in Ids : Returned(x)
  <2>1. CASE AddStart  BY <2>1 DEF AddStart, Returned
  <2>2. CASE AddRefused \/ AddRaises
    <3>1. PICK r \in Ids : Turned(r)
      <4>1. CASE AddRefused
        <5>1. PICK r \in Ids : jobs[1].obj = Obj(r)  BY <4>1, FirstAdd DEF AddRefused
        <5> QED  BY <4>1, <5>1, ObjFacts DEF AddRefused
      <4>2. CASE AddRaises
        <5>1. step.adding[1] \in Ids  BY <4>2, ObjectIds DEF AddRaises, IInv, Shape
        <5> QED  BY <4>2, <5>1 DEF AddRaises
      <4> QED  BY <2>2, <4>1, <4>2
    <3>2. /\ \A x \in Ids \ {r} : client'[x] = client[x]
          /\ client'[r].at = "closing"
      BY <3>1, TurnedClient, OrderlyFacts
    <3>3. Returned(r)  BY <3>1, <3>2, TurnedFate, OrderlyFacts DEF Returned
    <3>4. \A x \in Ids \ {r} : Returned(x)  BY <3>2 DEF Returned
    <3> QED  BY <3>3, <3>4
  <2> QED  BY <2>1, <2>2
<1> QED  BY <1>1, <1>2, <1>4, <1>5 DEF QuietOutcome

LEMMA QuietEffect ==
  ASSUME IInv, Orderly, OwnIds, Quiet
  PROVE  QuietOutcome
<1>1. CASE AddRefused \/ AddStart \/ AddRaises  BY <1>1, AddingQuiet
<1>2. CASE \/ AdmitEnd \/ Reconcile \/ Insert \/ Corrupt
           \/ \E i \in DOMAIN sched.waiting : Admit(i) \/ Defer(i)
  <2>1. /\ UNCHANGED <<client, stream, loop, produced>> /\ ~Between /\ step.at # "drain"
        /\ sched'.made = sched.made /\ sched'.commits = sched.commits
        /\ \A x \in Ids : Occupies(x)' => Occupies(x)
    BY <1>2, MovesEffect
  <2>2. \A x \in Ids : Closed(x) => Closed(x)'  BY <2>1 DEF Closed, Between
  <2> QED  BY <2>1, <2>2 DEF QuietOutcome, Returned
<1>3. ASSUME NEW r \in Ids, Drain(r)  PROVE QuietOutcome
  <2>1. UNCHANGED <<client, stream, step, loop, produced>>  BY <1>3 DEF Drain
  <2>2. /\ Kept(sched, sched') /\ sched'.pending = sched.pending \ {r} /\ ~Occupies(r)'
        /\ \A x \in Ids : Occupies(x)' => Occupies(x)
    BY <1>3, DrainEffect
  <2>3. \A x \in Ids : Closed(x) => Closed(x)'  BY <2>1, <2>2 DEF Closed
  <2> QED  BY <2>1, <2>2, <2>3 DEF QuietOutcome, Returned, Kept
<1>4. CASE DrainEnd \/ StepStart \/ StepRaises
  <2>1. UNCHANGED <<client, stream, sched, produced>> /\ (loop' = "failed" => loop = "failed")
    BY <1>4 DEF DrainEnd, StepStart, StepRaises
  <2>2. step'.admitting \in {None, step.admitting}
    BY <1>4, OrderlyFacts DEF DrainEnd, StepStart, StepRaises, StepType, Free
  <2>3. \A x \in Ids : Occupies(x)' => Occupies(x)
    BY <2>1, <2>2, ObjFacts DEF Occupies, InHand
  <2>4. \/ sched.pending = {} \/ step'.at \in {"free", "add", "drain"}
    BY <1>4, OrderlyFacts DEF DrainEnd, StepStart, StepRaises, StepType, Free
  <2>5. \A x \in Ids : Closed(x) => Closed(x)'  BY <2>1, <2>3, <2>4 DEF Closed
  <2> QED  BY <2>1, <2>5 DEF QuietOutcome, Returned
<1>5. CASE FailJob /\ loop' # "failed"
  <2>1. /\ UNCHANGED <<client, stream, produced, step>> /\ loop' # "failed"
        /\ sched' = [sched EXCEPT !.failures = Counted(sched)]
    BY <1>5 DEF FailJob
  <2>2. /\ sched'.made = sched.made /\ sched'.commits = sched.commits
        /\ sched'.pending = sched.pending /\ sched'.waiting = sched.waiting
        /\ sched'.running = sched.running
    BY <2>1, OrderlyFacts DEF SchedulerType
  <2>3. \A x \in Ids : Closed(x) => Closed(x)'
    BY <2>1, <2>2 DEF Closed, Occupies, InHand, Queued
  <2> QED  BY <2>1, <2>2, <2>3 DEF QuietOutcome, Returned
<1> QED  BY <1>1, <1>2, <1>3, <1>4, <1>5 DEF Quiet

LEMMA MadeIsInt ==
  ASSUME IInv, Orderly, OwnIds, NEW x \in Ids
  PROVE  MadeFor(x) \in Int /\ sched.commits[x] \in Nat
BY OrderlyFacts, ObjFacts DEF MadeFor, SchedulerType

(* A step of the batch: a token for each row past its prompt.              *)
LEMMA DecodeFlow ==
  ASSUME IInv, Orderly, OwnIds, Decode \/ DecodeNothing
  PROVE  /\ UNCHANGED <<client, stream>> /\ sched'.commits = sched.commits
         /\ loop' = "delivering" /\ step.at = "decode"
         /\ \A x \in Ids :
              /\ Occupies(x)' => Occupies(x)
              /\ Decoding(x) =>
                   /\ Occupies(x) /\ sched.commits[x] # 0 /\ MadeFor(x)' = MadeFor(x) + 1
                   /\ \E e \in {"no", "stop", "length", "repetition"} :
                        /\ produced'[x] = TokenOutput(Obj(x), e)
                        /\ e # "no" => ~Occupies(x)'
              /\ ~Decoding(x) => MadeFor(x)' = MadeFor(x) /\ produced'[x] = None
<1>1. CASE Decode
  <2>1. PICK ends \in [Rows -> {"no", "stop", "length", "repetition"}] :
          LET Done(x) == Decoding(x) /\ ends[Obj(x)] # "no" IN
          /\ sched'.commits = sched.commits /\ sched'.waiting = sched.waiting
          /\ \A x \in Ids :
               /\ produced'[x] = IF Decoding(x) THEN TokenOutput(Obj(x), ends[Obj(x)]) ELSE None
               /\ sched'.running[x] = IF Done(x) THEN None ELSE sched.running[x]
               /\ sched'.made[Obj(x)] = sched.made[Obj(x)] + IF Decoding(x) THEN 1 ELSE 0
    BY <1>1, DecodeEffect, OrderlyFacts
  <2>2. /\ UNCHANGED <<client, stream>> /\ loop' = "delivering" /\ step' = Free
        /\ step.at = "decode"
    BY <1>1 DEF Decode, EndStep
  <2>3. \A x \in Ids : ~InHand(x)'  BY <2>2, ObjFacts DEF InHand, Free
  <2>4. \A x \in Ids : Queued(sched', x) <=> Queued(sched, x)  BY <2>1 DEF Queued
  <2>5. \A x \in Ids : Decoding(x) => Obj(x) \in Rows  BY RowsAreDecoding, OrderlyFacts
  <2>6. ASSUME NEW x \in Ids
        PROVE  /\ Occupies(x)' => Occupies(x)
               /\ Decoding(x) =>
                    /\ Occupies(x) /\ sched.commits[x] # 0 /\ MadeFor(x)' = MadeFor(x) + 1
                    /\ \E e \in {"no", "stop", "length", "repetition"} :
                         /\ produced'[x] = TokenOutput(Obj(x), e)
                         /\ e # "no" => ~Occupies(x)'
               /\ ~Decoding(x) => MadeFor(x)' = MadeFor(x) /\ produced'[x] = None
    <3>1. Occupies(x)' => Occupies(x)  BY <2>1, <2>3, <2>4 DEF Occupies
    <3>2. CASE Decoding(x)
      <4>1. Occupies(x) /\ sched.commits[x] # 0 /\ ~Queued(sched, x)
        BY <3>2, OrderlyFacts DEF Decoding, Place, Occupies
      <4>2. MadeFor(x)' = MadeFor(x) + 1  BY <2>1, <3>2 DEF MadeFor
      <4>3. ends[Obj(x)] \in {"no", "stop", "length", "repetition"}  BY <2>5, <3>2
      <4>4. ends[Obj(x)] # "no" => ~Occupies(x)'
        BY <2>1, <2>3, <2>4, <3>2, <4>1 DEF Occupies
      <4>5. produced'[x] = TokenOutput(Obj(x), ends[Obj(x)])  BY <2>1, <3>2
      <4> QED  BY <3>1, <3>2, <4>1, <4>2, <4>3, <4>4, <4>5
    <3>3. CASE ~Decoding(x)
      <4>1. sched'.made[Obj(x)] = sched.made[Obj(x)] + 0 /\ produced'[x] = None
        BY <2>1, <3>3
      <4>2. MadeFor(x)' = MadeFor(x)  BY <4>1, MadeIsInt DEF MadeFor
      <4> QED  BY <3>1, <3>3, <4>1, <4>2
    <3> QED  BY <3>2, <3>3
  <2> QED  BY <2>1, <2>2, <2>6
<1>2. CASE DecodeNothing
  <2>1. /\ UNCHANGED <<client, stream>> /\ sched' = [sched EXCEPT !.failures = 0]
        /\ produced' = Nothing /\ loop' = "delivering" /\ step' = Free /\ step.at = "decode"
        /\ Running(sched) = {}
    BY <1>2 DEF DecodeNothing, EndStep
  <2>2. /\ sched'.commits = sched.commits /\ sched'.waiting = sched.waiting
        /\ sched'.running = sched.running /\ sched'.made = sched.made
    BY <2>1, OrderlyFacts DEF SchedulerType
  <2>3. \A x \in Ids : ~InHand(x)'  BY <2>1, ObjFacts DEF InHand, Free
  <2>4. \A x \in Ids : /\ Occupies(x)' => Occupies(x)
                       /\ ~Decoding(x) /\ MadeFor(x)' = MadeFor(x) /\ produced'[x] = None
    BY <2>1, <2>2, <2>3 DEF Occupies, Queued, Decoding, Running, MadeFor, Nothing
  <2> QED  BY <2>1, <2>2, <2>4
<1> QED  BY <1>1, <1>2

LEMMA TokenFacts ==
  ASSUME NEW x \in Ids, MadeFor(x) \in Nat, NEW e \in {"no", "stop", "length", "repetition"}
  PROVE  LET p == TokenOutput(Obj(x), e)
         IN  /\ p \in OutType /\ p.n = 1 /\ p.total = MadeFor(x) + 1 /\ p # None
             /\ Finished(p) <=> e # "no"
             /\ p.err # "none" => Finished(p)
             /\ p.err # "failure" /\ ~Fails(p)
<1> DEFINE p == TokenOutput(Obj(x), e)
<1>1. /\ p \in OutType /\ p.n = 1 /\ p.total = MadeFor(x) + 1
      /\ Finished(p) <=> e # "no"
      /\ p.err # "none" => Finished(p)
      /\ p.err # "failure"
  BY DEF TokenOutput, MadeFor, OutType, Out, Finished, Reasons, Errors
<1> HIDE DEF p
<1>2. p # None  BY <1>1, NoneAssumption DEF OutType
<1> QED  BY <1>1, <1>2 DEF Fails, p

(* Failures: of the request being admitted, of the batch, of a step.       *)
LEMMA ErrorFacts ==
  ASSUME IInv, Orderly, OwnIds, \A x \in Ids : MadeFor(x) \in Nat, NEW R
  PROVE  LET outs == ErrorOutputs(sched, R)
         IN  \A x \in Ids : \/ x \notin R /\ outs[x] = None
                            \/ /\ x \in R /\ outs[x] \in OutType /\ Fails(outs[x])
                               /\ Finished(outs[x]) /\ outs[x].n = 0
                               /\ outs[x].total \in 0..MadeFor(x)
<1> DEFINE outs == ErrorOutputs(sched, R)
<1>1. SUFFICES ASSUME NEW x \in Ids
               PROVE  \/ x \notin R /\ outs[x] = None
                      \/ /\ x \in R /\ outs[x] \in OutType /\ Fails(outs[x])
                         /\ Finished(outs[x]) /\ outs[x].n = 0
                         /\ outs[x].total \in 0..MadeFor(x)
  OBVIOUS
<1>2. CASE x \notin R  BY <1>2 DEF ErrorOutputs
<1>3. CASE x \in R
  <2> DEFINE t == IF sched.requests[x] = None THEN 0 ELSE sched.made[sched.requests[x]]
             o == Out(0, t, "abort", "failure")
  <2>1. t \in 0..MadeFor(x)
    BY OrderlyFacts DEF Life, MadeFor
  <2>2. outs[x] = o  BY <1>3 DEF ErrorOutputs
  <2> HIDE DEF t, outs
  <2>3. o \in OutType /\ o.n = 0 /\ o.total = t /\ o.err = "failure" /\ Finished(o)
    BY <2>1 DEF OutType, Out, Finished, Reasons, Errors
  <2> HIDE DEF o
  <2>4. o # None  BY <2>3, NoneAssumption DEF OutType
  <2> QED  BY <1>3, <2>1, <2>2, <2>3, <2>4 DEF Fails
<1> QED  BY <1>2, <1>3

LEMMA FailFlow ==
  ASSUME IInv, Orderly, OwnIds, \A x \in Ids : MadeFor(x) \in Nat,
         FailOwn \/ FailStep \/ (FailJob /\ loop' = "failed")
  PROVE  /\ UNCHANGED <<client, stream>> /\ sched'.commits = sched.commits
         /\ sched'.made = sched.made /\ loop' \in {"delivering", "failed"}
         /\ \A x \in Ids :
              /\ Closed(x) => Closed(x)'
              /\ \/ produced'[x] = None
                 \/ /\ produced'[x] \in OutType /\ Fails(produced'[x]) /\ Finished(produced'[x])
                    /\ produced'[x].n = 0 /\ produced'[x].total \in 0..MadeFor(x)
                    /\ sched.commits[x] # 0
                    /\ loop' = "failed" => Closed(x)'
<1> DEFINE F == Failing(sched, step.admitting)
<1>1. CASE FailOwn
  <2>1. step.at = "insert"  BY <1>1 DEF FailOwn
  <2>2. PICK r \in Ids : InHand(r)  BY <2>1, Inserted
  <2>3. step.admitting[1] = r /\ sched.commits[r] = 1
    BY <2>2, ObjFacts, OrderlyFacts DEF InHand, Place, Occupies
  <2> DEFINE t == AbortAll(sched, {r})
             outs == ErrorOutputs(sched, {r})
  <2>4. EndStep(t, outs)  BY <1>1, <2>3 DEF FailOwn
  <2>5. \A x \in Ids : Queued(sched, x) => sched.status[Obj(x)] = "waiting"
    BY OrderlyFacts DEF Place
  <2>6. /\ Kept(sched, t)
        /\ \A x \in Ids :
             /\ t.running[x] = IF x \in Taken(sched, {r}) THEN None ELSE sched.running[x]
             /\ Queued(t, x) <=> Queued(sched, x) /\ x \notin Taken(sched, {r})
    BY <2>5, AbortAllEffect, OrderlyFacts
  <2>7. \A x \in Ids : \/ outs[x] = None
                        \/ /\ x = r /\ outs[x] \in OutType /\ Fails(outs[x])
                           /\ Finished(outs[x]) /\ outs[x].n = 0
                           /\ outs[x].total \in 0..MadeFor(x)
    BY ErrorFacts
  <2> HIDE DEF t, outs
  <2>8. /\ UNCHANGED <<client, stream>> /\ sched' = t /\ produced' = outs /\ loop' = "delivering"
        /\ step' = Free
    BY <2>4 DEF EndStep
  <2>9. \A x \in Ids : ~InHand(x)'  BY <2>8, ObjFacts DEF InHand, Free
  <2>10. \A x \in Ids : Closed(x) => Closed(x)'
    BY <2>1, <2>6, <2>8, <2>9 DEF Closed, Occupies
  <2> QED  BY <2>3, <2>6, <2>7, <2>8, <2>10 DEF Kept
<1>2. CASE FailStep \/ (FailJob /\ loop' = "failed")
  <2>1. /\ UNCHANGED <<client, stream>> /\ sched' = FailShared(sched, step.admitting)
        /\ produced' = ErrorOutputs(sched, F)
        /\ loop' \in {"delivering", "failed"}
        /\ step' = Free \/ (step.at = "free" /\ step' = [step EXCEPT !.admitting = None])
    BY <1>2 DEF FailStep, FailJob, EndStep, Taking
  <2>2. step'.admitting = None /\ step'.at = "free"
    BY <2>1, OrderlyFacts DEF StepType, Free
  <2>3. \A x \in Ids : ~InHand(x)'  BY <2>2, ObjFacts DEF InHand
  <2>4. /\ Kept(sched, sched') /\ sched'.pending = sched.pending
        /\ \A x \in Ids : /\ Occupies(x)' => Occupies(x)
                          /\ x \in F => sched.commits[x] # 0 /\ ~Occupies(x)'
    BY <2>1, <2>3, FailSharedPlaces
  <2> HIDE DEF F
  <2>5. \A x \in Ids : Closed(x) => Closed(x)'  BY <2>2, <2>4 DEF Closed
  <2>6. ASSUME NEW x \in Ids
        PROVE  \/ produced'[x] = None
               \/ /\ produced'[x] \in OutType /\ Fails(produced'[x]) /\ Finished(produced'[x])
                  /\ produced'[x].n = 0 /\ produced'[x].total \in 0..MadeFor(x)
                  /\ sched.commits[x] # 0 /\ Closed(x)'
    <3>1. x \in F => sched.commits[x] # 0 /\ Closed(x)'  BY <2>4 DEF Closed
    <3> QED  BY <2>1, <3>1, ErrorFacts
  <2> QED  BY <2>1, <2>4, <2>5, <2>6 DEF Kept
<1> QED  BY <1>1, <1>2

-----------------------------------------------------------------------------
(* What merging does to outputs on their way.                              *)
LEMMA OutFacts ==
  /\ None \notin OutType
  /\ \A o \in OutOrNone : Count(o) \in Nat /\ Total(o) \in Nat /\ (o # None => o \in OutType)
BY NoneAssumption DEF OutType, OutOrNone, Count, Total

LEMMA PutFacts ==
  ASSUME NEW a \in OutOrNone, NEW b \in OutType
  PROVE  LET d == Put(a, b)
         IN  /\ d \in OutType /\ d # None /\ d.n = Count(a) + b.n /\ d.total = b.total
             /\ Finished(d) <=> Finished(b)
             /\ Fails(d) <=> b.err = "failure" \/ (b.err = "none" /\ Fails(a))
<1>1. Put(a, b) \in OutType
  BY DEF Put, MergeOutputs, Out, OutType, OutOrNone
<1>2. Put(a, b) # None  BY <1>1, OutFacts
<1> QED  BY <1>1, <1>2 DEF Put, MergeOutputs, Out, OutType, Count, Finished, Fails

LEMMA BufferFacts ==
  ASSUME NEW a \in OutOrNone, a # None => a.err = "none", NEW b \in OutType
  PROVE  LET d == MergeStreamBuffer(a, b)
         IN  /\ d \in OutType /\ d # None /\ d.n = Count(a) + b.n /\ d.total = b.total
             /\ Finished(d) <=> Finished(b)
             /\ d.err = IF b.err # "none" THEN "failure" ELSE "none"
<1>1. MergeStreamBuffer(a, b) \in OutType
  BY DEF MergeStreamBuffer, Out, OutType, OutOrNone, Errors
<1>2. MergeStreamBuffer(a, b) # None  BY <1>1, OutFacts
<1> QED  BY <1>1, <1>2 DEF MergeStreamBuffer, Out, OutType, Count, Finished

(* A collector and a buffer that may receive an output.                    *)
Ready(s) == /\ StreamRecord(s) /\ {s.out, s.buf} \subseteq OutOrNone
            /\ s.buf # None => s.buf.err = "none"
            /\ Interval = 1 => s.buf = None

LEMMA DeliveredFlow ==
  ASSUME NEW s, Ready(s), NEW o \in OutType, o.err # "none" => Finished(o)
  PROVE  LET d == Delivered(s, o)
         IN  /\ Ready(d)
             /\ Count(d.out) + Count(d.buf) = Count(s.out) + Count(s.buf) + o.n
             /\ Total(d.out) \in {Total(s.out), o.total} /\ Total(d.buf) \in {0, o.total}
             /\ d.sent \in {s.sent, 0, o.total}
             /\ d.event <=> s.event \/ Finished(o)
             /\ d.out = s.out \/ (d.out # None /\ (Finished(d.out) <=> Finished(o)))
             /\ Finished(o) => /\ d.out # None /\ Finished(d.out)
                               /\ d.out.total = o.total /\ d.buf = None
             /\ Fails(o) => Fails(d.out)
             /\ s.out # None => d.out # None
             /\ Fails(s.out) /\ (o.err = "none" \/ Fails(o)) => Fails(d.out)
<1> DEFINE merged == IF Interval = 1 THEN o ELSE MergeStreamBuffer(s.buf, o)
           ended == s.event \/ Finished(o)
           now == IF Interval = 1 THEN 0 ELSE o.total
           p == Put(s.out, merged)
           d1 == [out |-> p, buf |-> None, event |-> ended, sent |-> now]
           d2 == [s EXCEPT !.buf = merged]
           d3 == [d2 EXCEPT !.event = ended]
           now1 == Interval = 1 \/ ShouldSend(s.sent, o.total, Finished(o), Interval)
<1>1. Delivered(s, o) = IF now1 THEN d1 ELSE d3
  BY DEF Delivered
<1>2. ~now1 => Interval # 1 /\ ~Finished(o)
  BY DEF ShouldSend
<1> HIDE DEF now1
<1>3. StreamRecord(s) /\ s.event \in BOOLEAN /\ s.out \in OutOrNone /\ s.buf \in OutOrNone
  BY StreamOut DEF Ready
<1>4. ended \in BOOLEAN /\ (ended <=> s.event \/ Finished(o))  BY <1>3 DEF Finished
<1>5. /\ merged \in OutType /\ merged # None /\ merged.total = o.total
      /\ merged.n = Count(s.buf) + o.n /\ (Finished(merged) <=> Finished(o))
      /\ merged.err = "none" <=> o.err = "none"
      /\ o.err = "failure" => merged.err = "failure"
  <2>1. CASE Interval = 1
    <3>1. merged = o /\ Count(s.buf) = 0  BY <2>1 DEF Ready, Count
    <3>2. o # None /\ o.n \in Nat  BY OutFacts DEF OutType
    <3> QED  BY <3>1, <3>2
  <2>2. CASE Interval # 1
    <3>1. merged = MergeStreamBuffer(s.buf, o)  BY <2>2
    <3> HIDE DEF merged
    <3> QED  BY <1>3, <3>1, BufferFacts DEF Ready
  <2> QED  BY <2>1, <2>2
<1>6. now \in {0, o.total}  OBVIOUS
<1> HIDE DEF merged, ended, now
<1>7. /\ p \in OutType /\ p # None /\ p.n = Count(s.out) + merged.n /\ p.total = o.total
      /\ Finished(p) <=> Finished(o)
      /\ Fails(p) <=> merged.err = "failure" \/ (merged.err = "none" /\ Fails(s.out))
  BY <1>3, <1>5, PutFacts
<1> HIDE DEF p
<1>8. CASE now1
  <2>1. d1 = [out |-> p, buf |-> None, sent |-> now, event |-> ended]  OBVIOUS
  <2>2. d1.out = p /\ d1.event = ended /\ d1.buf = None /\ d1.sent = now  OBVIOUS
  <2> HIDE DEF d1
  <2>3. StreamRecord(d1)  BY <1>4, <2>1, Zenon DEF StreamRecord
  <2>4. Ready(d1)  BY <1>7, <2>2, <2>3 DEF Ready, OutOrNone
  <2>5. Count(p) = p.n /\ Total(p) = o.total /\ Count(None) = 0 /\ Total(None) = 0
    BY <1>7 DEF Count, Total
  <2>6. Count(s.out) \in Nat /\ Count(s.buf) \in Nat /\ o.n \in Nat
    BY <1>3, OutFacts DEF OutType
  <2>7. Count(d1.out) + Count(d1.buf) = Count(s.out) + Count(s.buf) + o.n
    BY <1>5, <1>7, <2>2, <2>5, <2>6
  <2>8. Fails(o) => Fails(p)  BY <1>5, <1>7 DEF Fails
  <2>9. Fails(s.out) /\ (o.err = "none" \/ Fails(o)) => Fails(p)
    BY <1>5, <1>7 DEF Fails
  <2>10. Delivered(s, o) = d1  BY <1>1, <1>8
  <2> QED  BY <1>4, <1>6, <1>7, <2>2, <2>4, <2>5, <2>7, <2>8, <2>9, <2>10
<1>9. CASE ~now1
  <2>1. /\ StreamRecord(d2) /\ d2.out = s.out /\ d2.buf = merged /\ d2.sent = s.sent
    BY <1>3, StreamBuf
  <2> HIDE DEF d2
  <2>2. /\ StreamRecord(d3) /\ d3.out = s.out /\ d3.buf = merged /\ d3.sent = s.sent
        /\ d3.event = ended
    BY <1>4, <2>1, StreamEvent
  <2> HIDE DEF d3
  <2>3. Interval # 1 /\ ~Finished(o) /\ merged.err = "none" /\ ~Fails(o)
    BY <1>2, <1>5, <1>9 DEF Fails
  <2>4. Ready(d3)  BY <1>3, <1>5, <2>2, <2>3 DEF Ready, OutOrNone
  <2>5. Count(merged) = merged.n /\ Total(merged) = o.total  BY <1>5 DEF Count, Total
  <2>6. Count(s.out) \in Nat /\ Count(s.buf) \in Nat /\ o.n \in Nat
    BY <1>3, OutFacts DEF OutType
  <2>7. Count(d3.out) + Count(d3.buf) = Count(s.out) + Count(s.buf) + o.n
    BY <1>5, <2>2, <2>5, <2>6
  <2>8. Delivered(s, o) = d3  BY <1>1, <1>9
  <2> QED  BY <1>4, <2>2, <2>3, <2>4, <2>5, <2>7, <2>8
<1> QED  BY <1>8, <1>9

LEMMA AnsweredFlow ==
  ASSUME NEW s, Ready(s), NEW o \in OutType
  PROVE  LET d == Answered(s, o)
         IN  /\ Ready(d) /\ d.out \in OutType /\ d.out # None /\ d.event = TRUE
             /\ Count(d.out) = Count(s.out) + o.n /\ Total(d.out) = o.total
             /\ d.buf = None /\ d.sent = s.sent /\ (Fails(o) => Fails(d.out))
<1> DEFINE d == Answered(s, o)
           q == Put(s.out, o)
<1>1. /\ StreamRecord(d) /\ d.out = q /\ d.buf = None /\ d.sent = s.sent /\ d.event = TRUE
  BY AnsweredFacts DEF Ready
<1> HIDE DEF d
<1>2. /\ q \in OutType /\ q # None /\ q.n = Count(s.out) + o.n /\ q.total = o.total
      /\ Fails(o) => Fails(q)
  BY PutFacts DEF Ready, Fails
<1> HIDE DEF q
<1>3. Count(q) = q.n /\ Total(q) = o.total  BY <1>2 DEF Count, Total
<1>4. Ready(d)  BY <1>1, <1>2 DEF Ready, OutOrNone
<1>5. d = Answered(s, o)  BY DEF d
<1> QED  BY <1>1, <1>2, <1>3, <1>4, <1>5

LEMMA FlowFrame ==
  ASSUME NEW x \in Ids, Flows(x), stream'[x] = stream[x], produced'[x] = produced[x],
         MadeFor(x)' = MadeFor(x), client'[x].got = client[x].got,
         Streaming(x)' => Streaming(x), sched'.commits[x] = 0 => sched.commits[x] = 0
  PROVE  Flows(x)'
<1>1. OnTheWay(x)' = OnTheWay(x)  BY DEF OnTheWay
<1> QED  BY <1>1 DEF Flows

LEMMA FlowFacts ==
  ASSUME IInv, Orderly, Flowing, OwnIds, NEW x \in Ids
  PROVE  /\ Flows(x) /\ Ready(stream[x]) /\ stream[x].event \in BOOLEAN
         /\ stream[x].out \in OutOrNone /\ stream[x].buf \in OutOrNone /\ produced[x] \in OutOrNone
         /\ Count(stream[x].out) \in Nat /\ Count(stream[x].buf) \in Nat /\ Count(produced[x]) \in Nat
         /\ MadeFor(x) \in Nat /\ client[x].got \in 0..MadeFor(x) /\ OnTheWay(x) \in Nat
<1>1. Flows(x) /\ StreamRecord(stream[x])  BY DEF Flowing, StreamShape
<1>2. stream[x].event \in BOOLEAN  BY <1>1, StreamOut
<1>3. /\ stream[x].out \in OutOrNone /\ stream[x].buf \in OutOrNone /\ produced[x] \in OutOrNone
      /\ MadeFor(x) \in Nat /\ client[x].got \in 0..MadeFor(x)
      /\ stream[x].buf # None => stream[x].buf.err = "none"
      /\ Interval = 1 => stream[x].buf = None
  BY <1>1 DEF Flows
<1>4. Ready(stream[x])  BY <1>1, <1>3 DEF Ready
<1> QED  BY <1>1, <1>2, <1>3, <1>4, OutFacts DEF OnTheWay

LEMMA FlowInit == OwnIds /\ Init => Flowing
<1> SUFFICES ASSUME OwnIds, Init  PROVE Flowing
  OBVIOUS
<1>1. StreamShape(stream)
  <2>1. StreamRecord(Fresh)  BY DEF StreamRecord, Fresh
  <2> QED  BY <2>1 DEF Init, StreamShape
<1>2. ASSUME NEW x \in Ids  PROVE Flows(x)
  <2>1. /\ stream[x] = Fresh /\ produced[x] = None /\ client[x].got = 0 /\ client[x].at = "idle"
        /\ MadeFor(x) = 0
    BY ObjFacts DEF Init, Nothing, MadeFor
  <2>2. OnTheWay(x) = 0  BY <2>1 DEF OnTheWay, Count, Fresh
  <2> QED  BY <2>1, <2>2 DEF Flows, Fresh, Total, OutOrNone, Streaming
<1> QED  BY <1>1, <1>2 DEF Flowing

(* A client, its collector or an abort: only r is concerned.               *)
LEMMA FlowClient ==
  ASSUME Flowing, NEW r \in Ids, UNCHANGED produced, sched'.made = sched.made,
         sched'.commits = sched.commits, StreamShape(stream'),
         \A x \in Ids \ {r} : client'[x] = client[x] /\ stream'[x] = stream[x],
         Flows(r)'
  PROVE  Flowing'
<1>1. \A x \in Ids \ {r} : Flows(x)'
  BY FlowFrame DEF Flowing, MadeFor, Streaming
<1> QED  BY <1>1 DEF Flowing

LEMMA SubmitFlow ==
  ASSUME IInv, Orderly, Flowing, OwnIds, NEW r \in Ids, Submit(r)
  PROVE  /\ Flowing' /\ stream'[r] = Fresh /\ sched.commits[r] = 0 /\ client[r].at = "idle"
         /\ \A x \in Ids \ {r} : client'[x] = client[x] /\ stream'[x] = stream[x]
         /\ client'[r] = [at |-> "adding", life |-> 1, got |-> 0, fate |-> "none"]
<1>1. /\ UNCHANGED <<sched, produced>> /\ client[r].at = "idle" /\ client[r].life = 0
      /\ sched.commits[r] = 0
      /\ client' = [client EXCEPT ![r] = [at |-> "adding", life |-> client[r].life + 1, got |-> 0, fate |-> "none"]]
  BY OrderlyFacts DEF Submit, OwnIds, Life
<1>2. StreamRecord(Fresh)  BY DEF StreamRecord, Fresh
<1>3. /\ StreamShape(stream') /\ stream'[r] = Fresh
      /\ \A x \in Ids \ {r} : stream'[x] = stream[x]
  BY <1>2, StreamStep DEF Submit, Flowing
<1>4. /\ \A x \in Ids \ {r} : client'[x] = client[x]
      /\ client'[r] = [at |-> "adding", life |-> 1, got |-> 0, fate |-> "none"]
  BY <1>1, OrderlyFacts DEF ClientShape
<1>5. MadeFor(r) = 0 /\ MadeFor(r)' = 0 /\ produced[r] = None
  BY <1>1 DEF Flowing, Flows, MadeFor
<1>6. OnTheWay(r)' = 0  BY <1>1, <1>3, <1>5 DEF OnTheWay, Count, Fresh
<1>7. Flows(r)'
  BY <1>1, <1>3, <1>4, <1>5, <1>6 DEF Flows, Fresh, Total, OutOrNone, Streaming
<1>8. Flowing'  BY <1>1, <1>3, <1>4, <1>7, FlowClient
<1> QED  BY <1>1, <1>3, <1>4, <1>8

(* A client that goes on without reading.                                  *)
LEMMA MovedFlow ==
  ASSUME IInv, Orderly, Flowing, OwnIds, NEW r \in Ids,
         Withdraw(r) \/ Disconnect(r) \/ Finally(r) \/ ForceAbort(r) \/ RecordDisconnect(r)
  PROVE  /\ Flowing' /\ UNCHANGED <<stream, produced, step, loop>> /\ sched'.made = sched.made
         /\ sched'.commits = sched.commits
         /\ \A x \in Ids \ {r} : client'[x] = client[x]
         /\ client'[r].got = client[r].got
         /\ \/ client'[r].at = client[r].at /\ client'[r].fate = client[r].fate
            \/ /\ client'[r].at \in {"leaving", "cancelled", "closing"}
               /\ client'[r].fate = client[r].fate
            \/ /\ client'[r].at \in {"leaving", "cancelled", "closing"}
               /\ client[r].fate = "none" /\ client'[r].fate \in {"cancelled", "left"}
         /\ \A x \in Ids : Closed(x) => Closed(x)'
<1>1. UNCHANGED <<stream, produced, step, loop>>
  BY DEF Withdraw, Disconnect, Finally, ForceAbort, RecordDisconnect
<1>2. /\ sched'.made = sched.made /\ sched'.commits = sched.commits
      /\ sched'.waiting = sched.waiting /\ sched'.running = sched.running
      /\ sched.pending \subseteq sched'.pending
  <2>1. CASE Withdraw(r) \/ Disconnect(r)  BY <2>1 DEF Withdraw, Disconnect
  <2>2. CASE RecordDisconnect(r)
    BY <2>2, AttributeEffect, OrderlyFacts DEF RecordDisconnect, Kept, SamePlaces
  <2>3. CASE Finally(r) \/ ForceAbort(r)
    <3>1. {r} \in SUBSET Ids /\ sched' = Enqueue(sched, {r})  BY <2>3 DEF Finally, ForceAbort
    <3> QED  BY <3>1, EnqueueEffect, OrderlyFacts DEF Kept, SamePlaces
  <2> QED  BY <2>1, <2>2, <2>3
<1>3. /\ \A x \in Ids \ {r} : client'[x] = client[x]
      /\ client'[r].got = client[r].got
      /\ \/ client'[r].at = client[r].at /\ client'[r].fate = client[r].fate
         \/ /\ client'[r].at \in {"leaving", "cancelled", "closing"}
            /\ client'[r].fate = client[r].fate
         \/ /\ client'[r].at \in {"leaving", "cancelled", "closing"}
            /\ client[r].fate = "none" /\ client'[r].fate \in {"cancelled", "left"}
  <2>1. CASE ForceAbort(r) \/ RecordDisconnect(r)  BY <2>1 DEF ForceAbort, RecordDisconnect
  <2>2. CASE Withdraw(r) \/ Disconnect(r)
    <3>1. client[r].fate = "none"  BY <2>2, OrderlyFacts DEF Withdraw, Disconnect, Life
    <3>2. PICK v, f : /\ client' = [client EXCEPT ![r] = [client[r] EXCEPT !.at = v, !.fate = f]]
                      /\ v \in {"leaving", "cancelled", "closing"} /\ f \in {"cancelled", "left"}
      BY <2>2, OrderlyFacts DEF Withdraw, Disconnect, ClientShape
    <3>3. /\ \A x \in Ids \ {r} : client'[x] = client[x]
          /\ client'[r] = [client[r] EXCEPT !.at = v, !.fate = f]
      BY <3>2, OrderlyFacts DEF ClientShape
    <3>4. client'[r].got = client[r].got /\ client'[r].at = v /\ client'[r].fate = f
      BY <3>3, OrderlyFacts DEF ClientShape, ClientRecord
    <3> QED  BY <3>1, <3>2, <3>3, <3>4
  <2>3. CASE Finally(r)
    <3>1. client' = [client EXCEPT ![r] = [client[r] EXCEPT !.at = "leaving"]]
      BY <2>3 DEF Finally
    <3>2. /\ \A x \in Ids \ {r} : client'[x] = client[x]
          /\ client'[r] = [client[r] EXCEPT !.at = "leaving"]
      BY <3>1, OrderlyFacts DEF ClientShape
    <3>3. client'[r].got = client[r].got /\ client'[r].at = "leaving" /\ client'[r].fate = client[r].fate
      BY <3>2, OrderlyFacts DEF ClientShape, ClientRecord
    <3> QED  BY <3>2, <3>3
  <2> QED  BY <2>1, <2>2, <2>3
<1>4. StreamShape(stream')  BY <1>1 DEF Flowing
<1>5. Flows(r)'
  BY <1>1, <1>2, <1>3, FlowFrame DEF Flowing, MadeFor, Streaming
<1>6. Flowing'  BY <1>1, <1>2, <1>3, <1>4, <1>5, FlowClient
<1>7. \A x \in Ids : Closed(x) => Closed(x)'
  BY <1>1, <1>2 DEF Closed, Occupies, InHand, Queued
<1> QED  BY <1>1, <1>2, <1>3, <1>6, <1>7

LEMMA ClientSet ==
  ASSUME NEW c, ClientRecord(c), NEW v, NEW g, NEW f
  PROVE  /\ LET d == [c EXCEPT !.at = v, !.got = g, !.fate = f]
            IN  d.at = v /\ d.got = g /\ d.fate = f
         /\ LET d == [c EXCEPT !.at = v, !.fate = f]
            IN  d.at = v /\ d.got = c.got /\ d.fate = f
         /\ LET d == [c EXCEPT !.got = g]
            IN  d.at = c.at /\ d.got = g /\ d.fate = c.fate
<1>1. PICK at, got, fate : \E life \in Nat :
              c = [at |-> at, life |-> life, got |-> got, fate |-> fate]
  BY DEF ClientRecord
<1>2. PICK life \in Nat : c = [at |-> at, life |-> life, got |-> got, fate |-> fate]
  BY <1>1
<1> QED  BY <1>2

(* The collector of r is emptied; the client read what was in it.          *)
LEMMA EmptiedStream ==
  ASSUME Flowing, NEW r \in Ids, stream' = [stream EXCEPT ![r].out = None]
  PROVE  /\ StreamShape(stream') /\ stream'[r].out = None /\ stream'[r].buf = stream[r].buf
         /\ stream'[r].sent = stream[r].sent /\ stream'[r].event = stream[r].event
         /\ \A x \in Ids \ {r} : stream'[x] = stream[x]
<1> DEFINE s == [stream[r] EXCEPT !.out = None]
<1>1. stream' = [stream EXCEPT ![r] = s]  BY DEF Flowing, StreamShape
<1>2. /\ StreamRecord(s) /\ s.out = None /\ s.buf = stream[r].buf /\ s.sent = stream[r].sent
      /\ s.event = stream[r].event
  BY StreamOut DEF Flowing, StreamShape
<1> HIDE DEF s
<1> QED  BY <1>1, <1>2, StreamStep DEF Flowing

LEMMA ReadFlow ==
  ASSUME IInv, Orderly, Flowing, OwnIds, NEW r \in Ids, Read(r)
  PROVE  /\ Flowing' /\ UNCHANGED <<sched, produced, step, loop>>
         /\ stream[r].out # None /\ stream'[r].out = None /\ stream'[r].buf = stream[r].buf
         /\ stream'[r].event = stream[r].event /\ Streaming(r) /\ client[r].fate = "none"
         /\ \A x \in Ids \ {r} : client'[x] = client[x] /\ stream'[x] = stream[x]
         /\ \/ /\ Fails(stream[r].out) /\ client'[r].at = "closing"
               /\ client'[r].fate = "failed" /\ client'[r].got = client[r].got
            \/ /\ ~Fails(stream[r].out) /\ client'[r].got = client[r].got + stream[r].out.n
               /\ \/ /\ Finished(stream[r].out) /\ client'[r].at = "leaving"
                     /\ client'[r].fate = EndOf(stream[r].out)
                  \/ /\ ~Finished(stream[r].out) /\ client'[r].at = "reading"
                     /\ client'[r].fate = "none"
<1> DEFINE o == stream[r].out
           c == client[r]
<1>1. /\ UNCHANGED <<sched, produced, step, loop>> /\ o # None
      /\ Streaming(r) /\ c.fate = "none" /\ c.at = "reading"
  BY OrderlyFacts DEF Read, Streaming, Life
<1>2. /\ StreamShape(stream') /\ stream'[r].out = None /\ stream'[r].buf = stream[r].buf
      /\ stream'[r].sent = stream[r].sent /\ stream'[r].event = stream[r].event
      /\ \A x \in Ids \ {r} : stream'[x] = stream[x]
  BY EmptiedStream DEF Read
<1>3. o \in OutType  BY <1>1, FlowFacts, OutFacts
<1>4. Raises(o) <=> Fails(o)  BY <1>1, <1>3 DEF Raises, Fails, OutType, Errors
<1>5. ClientRecord(c)  BY OrderlyFacts DEF ClientShape
<1>6. /\ \A x \in Ids \ {r} : client'[x] = client[x]
      /\ client'[r] = IF Raises(o) THEN [c EXCEPT !.at = "closing", !.fate = "failed"]
                      ELSE IF Finished(o)
                      THEN [c EXCEPT !.at = "leaving", !.got = c.got + o.n, !.fate = EndOf(o)]
                      ELSE [c EXCEPT !.got = c.got + o.n]
  BY OrderlyFacts DEF Read, ClientShape
<1> DEFINE g == c.got + o.n
           f == EndOf(o)
<1>7. \/ /\ Fails(o) /\ client'[r].at = "closing"
         /\ client'[r].fate = "failed" /\ client'[r].got = c.got
      \/ /\ ~Fails(o) /\ client'[r].got = g
         /\ \/ /\ Finished(o) /\ client'[r].at = "leaving"
               /\ client'[r].fate = f
            \/ /\ ~Finished(o) /\ client'[r].at = c.at
               /\ client'[r].fate = c.fate
  <2>1. CASE Raises(o)
    <3>1. client'[r] = [c EXCEPT !.at = "closing", !.fate = "failed"]  BY <1>6, <2>1
    <3> HIDE DEF c, o, g, f
    <3> QED  BY <1>4, <1>5, <2>1, <3>1, ClientSet
  <2>2. CASE ~Raises(o) /\ Finished(o)
    <3>1. client'[r] = [c EXCEPT !.at = "leaving", !.got = g, !.fate = f]  BY <1>6, <2>2
    <3> HIDE DEF c, o, g, f
    <3> QED  BY <1>4, <1>5, <2>2, <3>1, ClientSet
  <2>3. CASE ~Raises(o) /\ ~Finished(o)
    <3>1. client'[r] = [c EXCEPT !.got = g]  BY <1>6, <2>3
    <3> HIDE DEF c, o, g, f
    <3> QED  BY <1>4, <1>5, <2>3, <3>1, ClientSet
  <2> QED  BY <2>1, <2>2, <2>3
<1>8. /\ Count(o) = o.n /\ o.n \in Nat /\ Count(None) = 0 /\ Total(None) = 0
  BY <1>1, <1>3 DEF Count, Total, OutType
<1>9. /\ c.got \in Nat /\ Count(stream[r].buf) \in Nat /\ Count(produced[r]) \in Nat
      /\ MadeFor(r) \in Nat /\ c.got + OnTheWay(r) <= MadeFor(r)
  BY <1>1, FlowFacts DEF Flows
<1>10. OnTheWay(r)' = OnTheWay(r) - o.n /\ OnTheWay(r) \in Nat /\ o.n <= OnTheWay(r)
  BY <1>1, <1>2, <1>8, <1>9 DEF OnTheWay
<1>11. MadeFor(r)' = MadeFor(r)  BY <1>1 DEF MadeFor
<1>12. client'[r].got \in 0..MadeFor(r) /\ client'[r].got + OnTheWay(r)' <= MadeFor(r)
  BY <1>7, <1>8, <1>9, <1>10
<1>13. OnTheWay(r)' <= MadeFor(r)  BY <1>8, <1>9, <1>10
<1>14. Flows(r)'
  <2>1. Flows(r)  BY FlowFacts
  <2> HIDE DEF o, c, g, f
  <2> QED  BY <1>1, <1>2, <1>8, <1>11, <1>12, <1>13, <2>1 DEF Flows, OutOrNone
<1>15. Flowing'  BY <1>1, <1>2, <1>6, <1>14, FlowClient
<1> QED  BY <1>1, <1>2, <1>6, <1>7, <1>15

LEMMA ReturnFlow ==
  ASSUME IInv, Orderly, Flowing, OwnIds, NEW r \in Ids, Return(r)
  PROVE  /\ Flowing' /\ UNCHANGED <<sched, produced, step, loop>>
         /\ stream'[r].out = None /\ stream'[r].buf = stream[r].buf
         /\ stream'[r].event = stream[r].event /\ stream[r].event
         /\ client[r].at = "reading" /\ client[r].fate = "none" /\ client'[r].at = "leaving"
         /\ \A x \in Ids \ {r} : client'[x] = client[x] /\ stream'[x] = stream[x]
         /\ \/ client'[r].fate = "failed" /\ client'[r].got = client[r].got
            \/ /\ stream[r].out # None /\ ~Fails(stream[r].out)
               /\ client'[r].got = stream[r].out.total
               /\ client'[r].fate = EndOf(stream[r].out)
<1> DEFINE o == stream[r].out
           c == client[r]
           f == EndOf(o)
           t == o.total
<1>1. /\ UNCHANGED <<sched, produced, step, loop>> /\ stream[r].event
      /\ c.fate = "none" /\ c.at = "reading" /\ r \in Generating
  BY OrderlyFacts DEF Return, Life
<1>2. /\ StreamShape(stream') /\ stream'[r].out = None /\ stream'[r].buf = stream[r].buf
      /\ stream'[r].sent = stream[r].sent /\ stream'[r].event = stream[r].event
      /\ \A x \in Ids \ {r} : stream'[x] = stream[x]
  BY EmptiedStream DEF Return
<1>3. o # None => o \in OutType  BY FlowFacts, OutFacts
<1>4. o # None => (Raises(o) <=> Fails(o))  BY <1>3 DEF Raises, Fails, OutType, Errors
<1>5. ClientRecord(c)  BY OrderlyFacts DEF ClientShape
<1>6. /\ \A x \in Ids \ {r} : client'[x] = client[x]
      /\ client'[r] = IF o = None \/ Raises(o) THEN [c EXCEPT !.at = "leaving", !.fate = "failed"]
                      ELSE [c EXCEPT !.at = "leaving", !.got = t, !.fate = f]
  BY OrderlyFacts DEF Return, ClientShape
<1>7. /\ client'[r].at = "leaving"
      /\ \/ client'[r].fate = "failed" /\ client'[r].got = c.got
         \/ /\ o # None /\ ~Fails(o) /\ client'[r].got = t
            /\ client'[r].fate = f
  <2>1. CASE o = None \/ Raises(o)
    <3>1. client'[r] = [c EXCEPT !.at = "leaving", !.fate = "failed"]  BY <1>6, <2>1
    <3> HIDE DEF c, o, f, t
    <3> QED  BY <1>5, <3>1, ClientSet
  <2>2. CASE ~(o = None \/ Raises(o))
    <3>1. client'[r] = [c EXCEPT !.at = "leaving", !.got = t, !.fate = f]  BY <1>6, <2>2
    <3> HIDE DEF c, o, f, t
    <3> QED  BY <1>4, <1>5, <2>2, <3>1, ClientSet
  <2> QED  BY <2>1, <2>2
<1>8. Count(None) = 0 /\ Total(None) = 0 /\ (o # None => Total(o) = t)
  BY DEF Count, Total
<1>9. Flows(r)  BY FlowFacts
<1>10. MadeFor(r)' = MadeFor(r) /\ MadeFor(r) \in Nat  BY <1>1, <1>9 DEF MadeFor, Flows
<1>11. client'[r].got \in 0..MadeFor(r)
  BY <1>7, <1>8, <1>9 DEF Flows
<1>12. OnTheWay(r)' <= MadeFor(r)
  BY <1>1, <1>2, <1>8, <1>9, <1>10, FlowFacts DEF OnTheWay, Flows
<1>13. Flows(r)'
  <2> HIDE DEF o, c, f, t
  <2> QED  BY <1>1, <1>2, <1>8, <1>9, <1>10, <1>11, <1>12 DEF Flows, OutOrNone, Streaming
<1>14. Flowing'  BY <1>1, <1>2, <1>6, <1>13, FlowClient
<1> QED  BY <1>1, <1>2, <1>6, <1>7, <1>14

LEMMA CleanupFlow ==
  ASSUME IInv, Orderly, Flowing, OwnIds, NEW r \in Ids, Cleanup(r)
  PROVE  /\ Flowing' /\ UNCHANGED <<produced, step, loop>> /\ sched'.made = sched.made
         /\ sched'.commits = sched.commits /\ stream'[r] = Fresh
         /\ \A x \in Ids \ {r} : client'[x] = client[x] /\ stream'[x] = stream[x]
         /\ client'[r].at = "gone" /\ client'[r].got = client[r].got /\ client'[r].fate = client[r].fate
         /\ \A x \in Ids : Closed(x) <=> Closed(x)'
<1>1. /\ UNCHANGED <<produced, step, loop>>
      /\ client' = [client EXCEPT ![r] = [client[r] EXCEPT !.at = "gone"]]
  BY DEF Cleanup
<1>2. /\ sched'.made = sched.made /\ sched'.commits = sched.commits
      /\ sched'.waiting = sched.waiting /\ sched'.running = sched.running
      /\ sched'.pending = sched.pending
  BY RemoveEffect, OrderlyFacts DEF Cleanup
<1>3. StreamRecord(Fresh)  BY DEF StreamRecord, Fresh
<1>4. /\ StreamShape(stream') /\ stream'[r] = Fresh
      /\ \A x \in Ids \ {r} : stream'[x] = stream[x]
  BY <1>3, StreamStep DEF Cleanup, Flowing
<1>5. /\ \A x \in Ids \ {r} : client'[x] = client[x]
      /\ client'[r] = [client[r] EXCEPT !.at = "gone"]
  BY <1>1, OrderlyFacts DEF ClientShape
<1>6. client'[r].got = client[r].got /\ client'[r].at = "gone" /\ client'[r].fate = client[r].fate
  BY <1>5, OrderlyFacts DEF ClientShape, ClientRecord
<1>7. MadeFor(r)' = MadeFor(r)  BY <1>2 DEF MadeFor
<1>8. OnTheWay(r)' <= MadeFor(r)
  <2>1. OnTheWay(r)' = Count(produced[r])  BY <1>1, <1>4, FlowFacts DEF OnTheWay, Count, Fresh
  <2> QED  BY <2>1, FlowFacts DEF OnTheWay, Flows
<1>9. Flows(r)'
  BY <1>1, <1>2, <1>4, <1>6, <1>7, <1>8, FlowFacts DEF Flows, Fresh, Total, OutOrNone, Streaming
<1>10. Flowing'  BY <1>1, <1>2, <1>4, <1>5, <1>9, FlowClient
<1>11. \A x \in Ids : Closed(x) <=> Closed(x)'
  BY <1>1, <1>2 DEF Closed, Occupies, InHand, Queued
<1> QED  BY <1>1, <1>2, <1>4, <1>5, <1>6, <1>10, <1>11

LEMMA CancelFlow ==
  ASSUME IInv, Orderly, Flowing, OwnIds, NEW r \in Ids, CancelRequest(r)
  PROVE  Flowing'
<1>1. {r} \in SUBSET Ids  OBVIOUS
<1>2. /\ UNCHANGED <<client, produced>> /\ sched' = Enqueue(sched, {r}) /\ AbortKnown(sched, r)
      /\ \/ \E e \in {"none", "failure"} :
              stream' = [stream EXCEPT ![r].out = Put(@, Out(0, 0, "cancelled", e)),
                                       ![r].event = TRUE]
         \/ UNCHANGED stream
  BY DEF CancelRequest
<1>3. sched'.made = sched.made /\ sched'.commits = sched.commits
  BY <1>1, <1>2, EnqueueEffect, OrderlyFacts DEF Kept
<1>4. sched.commits[r] # 0
  <2>1. sched.commits[r] > 0 /\ sched.commits[r] \in Nat
    BY <1>2 DEF IInv, Good, Knows, SchedulerType
  <2> QED  BY <2>1
<1>5. CASE UNCHANGED stream
  <2>1. \A x \in Ids : Flows(x)'
    BY <1>2, <1>3, <1>5, FlowFrame DEF Flowing, MadeFor, Streaming
  <2> QED  BY <1>5, <2>1 DEF Flowing
<1>6. ASSUME NEW e \in {"none", "failure"},
             stream' = [stream EXCEPT ![r].out = Put(@, Out(0, 0, "cancelled", e)),
                                      ![r].event = TRUE]
      PROVE  Flowing'
  <2> DEFINE o == Out(0, 0, "cancelled", e)
             p == Put(stream[r].out, o)
             d == [stream[r] EXCEPT !.out = p]
             s == [d EXCEPT !.event = TRUE]
  <2>1. stream' = [stream EXCEPT ![r] = s]  BY <1>6 DEF Flowing, StreamShape
  <2>2. o \in OutType /\ o.n = 0 /\ o.total = 0
    BY DEF Out, OutType, Reasons, Errors
  <2> HIDE DEF o
  <2>3. p \in OutType /\ p # None /\ p.n = Count(stream[r].out) + 0 /\ p.total = 0
    BY <2>2, PutFacts, FlowFacts
  <2> HIDE DEF p
  <2>4. StreamRecord(d) /\ d.out = p /\ d.buf = stream[r].buf /\ d.sent = stream[r].sent
    BY StreamOut DEF Flowing, StreamShape
  <2> HIDE DEF d
  <2>5. StreamRecord(s) /\ s.out = p /\ s.buf = stream[r].buf /\ s.sent = stream[r].sent
    BY <2>4, StreamEvent
  <2> HIDE DEF s
  <2>6. /\ StreamShape(stream') /\ stream'[r] = s
        /\ \A x \in Ids \ {r} : stream'[x] = stream[x]
    BY <2>1, <2>5, StreamStep DEF Flowing
  <2>7. Count(p) = Count(stream[r].out) /\ Total(p) = 0
    BY <2>3, FlowFacts DEF Count, Total
  <2>8. OnTheWay(r)' = OnTheWay(r) /\ MadeFor(r)' = MadeFor(r) /\ 0 \in 0..MadeFor(r)
    BY <1>2, <1>3, <2>5, <2>6, <2>7, FlowFacts DEF OnTheWay, MadeFor
  <2>9. Flows(r)'
    BY <1>2, <1>3, <1>4, <2>3, <2>5, <2>6, <2>7, <2>8, FlowFacts DEF Flows, OutOrNone, Streaming
  <2> QED  BY <1>2, <1>3, <2>6, <2>9, FlowClient
<1> QED  BY <1>2, <1>5, <1>6

(* The engine loop: outputs reach the collectors.                          *)
LEMMA DeliverFlow ==
  ASSUME IInv, Orderly, Flowing, OwnIds, Deliver \/ DeliverFailures
  PROVE  /\ Flowing' /\ UNCHANGED <<client, sched, step>> /\ produced' = Nothing /\ loop' = "idle"
<1>1. /\ UNCHANGED <<client, sched, step>> /\ produced' = Nothing /\ loop' = "idle"
      /\ stream' = [x \in Ids |-> stream'[x]]
  BY DEF Deliver, DeliverFailures
<1>2. ASSUME NEW x \in Ids  PROVE Flows(x)' /\ StreamRecord(stream'[x])
  <2> DEFINE s == stream[x]
             p == produced[x]
             t == stream'[x]
  <2>1. /\ Flows(x) /\ Ready(s) /\ MadeFor(x) \in Nat /\ MadeFor(x)' = MadeFor(x)
        /\ Count(s.out) \in Nat /\ Count(s.buf) \in Nat /\ Count(p) \in Nat
        /\ client[x].got \in 0..MadeFor(x)
    BY <1>1, FlowFacts DEF MadeFor
  <2>2. p # None => /\ p \in OutType /\ Count(p) = p.n /\ Total(p) = p.total
                    /\ p.err # "none" => Finished(p)
    BY <2>1, FlowFacts, OutFacts DEF Count, Total, Flows
  <2>3. p = None => Count(p) = 0  BY DEF Count
  <2>4. /\ Ready(t) /\ Count(t.out) + Count(t.buf) <= Count(s.out) + Count(s.buf) + Count(p)
        /\ Total(t.out) \in {Total(s.out), 0, Total(p)} /\ Total(t.buf) \in {Total(s.buf), 0, Total(p)}
        /\ t.sent \in {s.sent, 0, Total(p)}
    <3>1. CASE t = s  BY <2>1, <3>1
    <3>2. CASE t = Delivered(s, p) /\ p # None
      <4> DEFINE d == Delivered(s, p)
      <4>1. /\ Ready(d) /\ Count(d.out) + Count(d.buf) = Count(s.out) + Count(s.buf) + p.n
            /\ Total(d.out) \in {Total(s.out), p.total} /\ Total(d.buf) \in {0, p.total}
            /\ d.sent \in {s.sent, 0, p.total}
        BY <2>1, <2>2, <3>2, DeliveredFlow
      <4>2. t = d  BY <3>2
      <4> HIDE DEF d, s, p, t
      <4>3. Count(d.out) \in Nat /\ Count(d.buf) \in Nat  BY <4>1, OutFacts DEF Ready
      <4> QED  BY <2>1, <2>2, <3>2, <4>1, <4>2, <4>3
    <3>3. CASE t = Answered(s, p) /\ p # None
      <4> DEFINE d == Answered(s, p)
      <4>1. /\ Ready(d) /\ Count(d.out) = Count(s.out) + p.n /\ Total(d.out) = p.total
            /\ d.buf = None /\ d.sent = s.sent
        BY <2>1, <2>2, <3>3, AnsweredFlow
      <4>2. t = d  BY <3>3
      <4> HIDE DEF d, s, p, t
      <4>3. Count(None) = 0 /\ Total(None) = 0  BY DEF Count, Total
      <4> QED  BY <2>1, <2>2, <3>3, <4>1, <4>2, <4>3
    <3> QED  BY <3>1, <3>2, <3>3 DEF Deliver, DeliverFailures
  <2>5. produced'[x] = None /\ Count(produced'[x]) = 0 /\ Total(produced'[x]) = 0
    BY <1>1 DEF Nothing, Count, Total
  <2>6. t.out \in OutOrNone /\ t.buf \in OutOrNone /\ Count(t.out) \in Nat /\ Count(t.buf) \in Nat
    BY <2>4, OutFacts DEF Ready
  <2>7. OnTheWay(x)' <= OnTheWay(x)
    <3>1. OnTheWay(x)' = Count(t.out) + Count(t.buf)  BY <2>5, <2>6 DEF OnTheWay
    <3> QED  BY <2>1, <2>4, <3>1 DEF OnTheWay
  <2>8. OnTheWay(x) \in Nat /\ OnTheWay(x)' \in Nat
    BY <2>1, <2>5, <2>6 DEF OnTheWay
  <2>9. /\ Total(t.out) \in 0..MadeFor(x) /\ Total(t.buf) \in 0..MadeFor(x) /\ t.sent \in 0..MadeFor(x)
    BY <2>1, <2>4 DEF Flows
  <2>10. Streaming(x)' <=> Streaming(x)  BY <1>1 DEF Streaming
  <2>11. Streaming(x) => client[x].got + OnTheWay(x)' <= MadeFor(x)
    BY <2>1, <2>7, <2>8 DEF Flows
  <2>12. OnTheWay(x)' <= MadeFor(x)  BY <2>1, <2>7, <2>8 DEF Flows
  <2> HIDE DEF s, p
  <2> QED  BY <1>1, <2>1, <2>4, <2>5, <2>6, <2>9, <2>10, <2>11, <2>12 DEF Flows, Ready, OutOrNone
<1> QED  BY <1>1, <1>2 DEF Flowing, StreamShape

LEMMA SynthesiseFlow ==
  ASSUME IInv, Orderly, Flowing, OwnIds, Synthesise
  PROVE  /\ Flowing' /\ UNCHANGED <<client, step>> /\ loop' = "idle" /\ produced' = Nothing
         /\ sched'.made = sched.made /\ sched'.commits = sched.commits
         /\ \A x \in Ids :
              /\ Closed(x) => Closed(x)'
              /\ Tracked(x) /\ sched.requests[x] = Obj(x) /\ ~stream[x].event => Closed(x)'
              /\ IF Tracked(x) /\ ~stream[x].event
                 THEN /\ Fails(stream'[x].out) /\ stream'[x].buf = None /\ stream'[x].event = TRUE
                      /\ Count(stream'[x].out) = Count(stream[x].out)
                 ELSE stream'[x] = stream[x]
<1> DEFINE R == {x \in Ids : Tracked(x) /\ ~stream[x].event}
           o == Out(0, 0, "length", "failure")
<1>1. /\ UNCHANGED <<client, step>> /\ produced' = Nothing /\ loop' = "idle" /\ produced = Nothing
      /\ sched' = Enqueue(sched, R) /\ Between
      /\ stream' = [x \in Ids |-> IF x \in R THEN Answered(stream[x], o) ELSE stream[x]]
  BY OrderlyFacts DEF Synthesise, Turns
<1>2. /\ Kept(sched, sched') /\ SamePlaces(sched, sched')
      /\ sched'.pending = sched.pending \cup {x \in R : AbortKnown(sched, x)}
  BY <1>1, EnqueueEffect, OrderlyFacts
<1>3. o \in OutType /\ o.n = 0 /\ o.total = 0 /\ o.err = "failure"
  BY DEF Out, OutType, Reasons, Errors
<1>4. Fails(o)  BY <1>3, OutFacts DEF Fails
<1> HIDE DEF o
<1>5. \A x \in Ids : Closed(x) => Closed(x)'
  BY <1>1, <1>2 DEF Closed, Occupies, InHand, Queued, SamePlaces
<1>6. \A x \in Ids : x \in R /\ sched.requests[x] = Obj(x) => Closed(x)'
  BY <1>1, <1>2, ObjFacts DEF Closed, AbortKnown, Between
<1>7. ASSUME NEW x \in Ids
      PROVE  /\ Flows(x)' /\ StreamRecord(stream'[x])
             /\ IF x \in R
                THEN /\ Fails(stream'[x].out) /\ stream'[x].buf = None /\ stream'[x].event = TRUE
                     /\ Count(stream'[x].out) = Count(stream[x].out)
                ELSE stream'[x] = stream[x]
  <2>1. /\ MadeFor(x)' = MadeFor(x) /\ produced'[x] = produced[x]
        /\ sched'.commits[x] = sched.commits[x] /\ (Streaming(x)' <=> Streaming(x))
    BY <1>1, <1>2 DEF MadeFor, Kept, Streaming
  <2>2. CASE x \notin R
    <3>1. stream'[x] = stream[x]  BY <1>1, <2>2
    <3>2. Flows(x)'  BY <1>1, <2>1, <3>1, FlowFrame, FlowFacts
    <3> QED  BY <2>2, <3>1, <3>2 DEF Flowing, StreamShape
  <2>3. CASE x \in R
    <3> DEFINE s == stream[x]
               d == Answered(s, o)
    <3>0. Ready(s)  BY FlowFacts
    <3>1. /\ Ready(d) /\ d.out # None /\ Count(d.out) = Count(s.out) + 0 /\ Total(d.out) = 0
          /\ d.buf = None /\ d.sent = s.sent /\ Fails(d.out) /\ d.event = TRUE
      <4> HIDE DEF s
      <4>1. /\ Ready(d) /\ d.out # None /\ Count(d.out) = Count(s.out) + o.n /\ Total(d.out) = o.total
            /\ d.buf = None /\ d.sent = s.sent /\ (Fails(o) => Fails(d.out)) /\ d.event = TRUE
        BY <1>3, <3>0, AnsweredFlow
      <4> QED  BY <1>3, <1>4, <4>1
    <3>2. stream'[x] = d  BY <1>1, <2>3
    <3> HIDE DEF d
    <3>3. Count(None) = 0 /\ Total(None) = 0 /\ Count(s.out) \in Nat /\ Count(s.buf) \in Nat
      BY FlowFacts DEF Count, Total
    <3>4. OnTheWay(x)' <= OnTheWay(x) /\ OnTheWay(x)' \in Nat
      BY <2>1, <3>1, <3>2, <3>3, FlowFacts DEF OnTheWay
    <3>5. 0 \in 0..MadeFor(x)  BY FlowFacts
    <3>6. OnTheWay(x)' <= MadeFor(x) /\ (Streaming(x) => client[x].got + OnTheWay(x)' <= MadeFor(x))
      BY <3>4, FlowFacts DEF Flows
    <3>7. Flows(x)'
      BY <1>1, <2>1, <3>1, <3>2, <3>3, <3>5, <3>6, FlowFacts DEF Flows, Ready
    <3> QED  BY <2>3, <3>1, <3>2, <3>3, <3>7 DEF Ready
  <2> QED  BY <2>2, <2>3
<1>8. StreamShape(stream')
  <2>1. stream' = [x \in Ids |-> stream'[x]]  BY <1>1
  <2> QED  BY <1>7, <2>1 DEF StreamShape
<1>9. Flowing'  BY <1>7, <1>8 DEF Flowing
<1> QED  BY <1>1, <1>2, <1>5, <1>6, <1>7, <1>9 DEF Kept

LEMMA WorkerFlow ==
  ASSUME IInv, Orderly, Flowing, OwnIds, Worker
  PROVE  Flowing'
<1>0. \A x \in Ids : MadeFor(x) \in Nat  BY FlowFacts
<1>1. CASE Quiet
  <2>1. /\ UNCHANGED <<stream, produced>> /\ sched'.made = sched.made
        /\ sched'.commits = sched.commits /\ \A x \in Ids : Returned(x)
    BY <1>1, QuietEffect DEF QuietOutcome
  <2>2. \A x \in Ids : Flows(x)'
    BY <2>1, FlowFrame DEF Flowing, MadeFor, Streaming, Returned
  <2> QED  BY <2>1, <2>2 DEF Flowing
<1>2. CASE AddCommit
  <2>1. PICK r \in Ids :
          /\ Adding(r) /\ sched'.commits = [sched.commits EXCEPT ![r] = @ + 1]
          /\ sched'.made = sched.made
          /\ \A x \in Ids \ {r} : client'[x] = client[x]
          /\ client'[r] = [client[r] EXCEPT !.at = IF client[r].at = "cancelled" THEN "leaving" ELSE "reading"]
    BY <1>2, AddCommitEffect
  <2>2. UNCHANGED <<stream, produced>>  BY <1>2 DEF AddCommit
  <2>3. sched.commits[r] = 0 /\ sched'.commits[r] # 0
    BY <2>1, OrderlyFacts DEF Life, SchedulerType
  <2>4. client'[r].got = client[r].got
    BY <2>1, OrderlyFacts DEF ClientShape, ClientRecord
  <2>5. Flows(r)'
    <3>1. MadeFor(r) = 0 /\ MadeFor(r)' = 0 /\ OnTheWay(r)' = OnTheWay(r)
      BY <2>1, <2>2, <2>3, FlowFacts DEF Flows, MadeFor, OnTheWay
    <3>2. client'[r].got = 0 /\ OnTheWay(r) = 0  BY <2>4, <3>1, FlowFacts DEF Flows
    <3> QED  BY <2>2, <2>3, <3>1, <3>2, FlowFacts DEF Flows
  <2>6. \A x \in Ids \ {r} : sched'.commits[x] = sched.commits[x]
    BY <2>1, OrderlyFacts DEF SchedulerType
  <2>7. \A x \in Ids \ {r} : Flows(x)'
    BY <2>1, <2>2, <2>6, FlowFrame DEF Flowing, MadeFor, Streaming
  <2> QED  BY <2>2, <2>5, <2>7 DEF Flowing
<1>3. CASE Decode \/ DecodeNothing
  <2>1. UNCHANGED <<client, stream>> /\ sched'.commits = sched.commits
    BY <1>3, DecodeFlow
  <2>2. ASSUME NEW x \in Ids  PROVE Flows(x)'
    <3>0. /\ Count(stream[x].out) \in Nat /\ Count(stream[x].buf) \in Nat
          /\ Count(produced[x]) \in Nat /\ MadeFor(x) \in Nat
      BY FlowFacts
    <3>1. CASE Decoding(x)
      <4>1. sched.commits[x] # 0 /\ MadeFor(x)' = MadeFor(x) + 1
        BY <1>3, <3>1, DecodeFlow
      <4>2. PICK e \in {"no", "stop", "length", "repetition"} :
              produced'[x] = TokenOutput(Obj(x), e)
        BY <1>3, <3>1, DecodeFlow
      <4> DEFINE p == produced'[x]
      <4>3. /\ p \in OutType /\ p.n = 1 /\ p.total = MadeFor(x) + 1 /\ p # None
            /\ p.err # "none" => Finished(p)
            /\ p.err # "failure"
        BY <3>0, <4>2, TokenFacts
      <4>4. Count(p) = 1 /\ Total(p) = MadeFor(x) + 1  BY <4>3 DEF Count, Total
      <4>5. produced[x] = None /\ Count(produced[x]) = 0
        <5>1. loop \notin {"delivering", "failed"}
          BY <1>3, OrderlyFacts DEF Decode, DecodeNothing, Turns, Between
        <5> QED  BY <5>1, OrderlyFacts DEF Turns, Nothing, Count
      <4> HIDE DEF p
      <4>6. OnTheWay(x)' = OnTheWay(x) + 1
        <5>1. OnTheWay(x)' = Count(stream[x].out) + Count(stream[x].buf) + Count(p)
          BY <2>1 DEF OnTheWay, p
        <5> QED  BY <3>0, <4>4, <4>5, <5>1 DEF OnTheWay
      <4>7. Flows(x)
        BY FlowFacts
      <4>8. /\ OnTheWay(x)' <= MadeFor(x)'
            /\ Streaming(x) => client[x].got + OnTheWay(x)' <= MadeFor(x)'
        BY <3>0, <4>1, <4>6, FlowFacts DEF Flows
      <4>9. /\ client[x].got \in 0..MadeFor(x)' /\ stream[x].sent \in 0..MadeFor(x)'
            /\ {Total(stream[x].out), Total(stream[x].buf), Total(p)} \subseteq 0..MadeFor(x)'
            /\ MadeFor(x)' \in Nat
        BY <3>0, <4>1, <4>4, <4>7 DEF Flows
      <4>10. Streaming(x)' <=> Streaming(x)  BY <2>1 DEF Streaming
      <4>11. p \in OutOrNone /\ {stream[x].out, stream[x].buf} \subseteq OutOrNone
        BY <4>3, <4>7 DEF OutOrNone, Flows
      <4>12. p = produced'[x]  BY DEF p
      <4> QED  BY <2>1, <4>1, <4>3, <4>7, <4>8, <4>9, <4>10, <4>11, <4>12 DEF Flows
    <3>2. CASE ~Decoding(x)
      <4>1. MadeFor(x)' = MadeFor(x) /\ produced'[x] = None
        BY <1>3, <3>2, DecodeFlow
      <4>2. Count(None) = 0 /\ Total(None) = 0  BY DEF Count, Total
      <4>3. OnTheWay(x)' <= OnTheWay(x) /\ OnTheWay(x)' \in Nat /\ 0 \in 0..MadeFor(x)
        BY <2>1, <3>0, <4>1, <4>2 DEF OnTheWay
      <4>4. /\ OnTheWay(x)' <= MadeFor(x) /\ (Streaming(x)' <=> Streaming(x))
            /\ Streaming(x) => client[x].got + OnTheWay(x)' <= MadeFor(x)
        BY <2>1, <4>3, FlowFacts DEF Flows, Streaming
      <4> QED  BY <2>1, <4>1, <4>2, <4>3, <4>4, FlowFacts DEF Flows, OutOrNone
    <3> QED  BY <3>1, <3>2
  <2> QED  BY <2>1, <2>2 DEF Flowing
<1>4. CASE FailOwn \/ FailStep \/ (FailJob /\ loop' = "failed")
  <2>1. /\ UNCHANGED <<client, stream>> /\ sched'.commits = sched.commits
        /\ sched'.made = sched.made
    BY <1>0, <1>4, FailFlow
  <2>2. ASSUME NEW x \in Ids  PROVE Flows(x)'
    <3> DEFINE p == produced'[x]
    <3>1. \/ p = None
          \/ /\ p \in OutType /\ Fails(p) /\ Finished(p)
             /\ p.n = 0 /\ p.total \in 0..MadeFor(x)
             /\ sched.commits[x] # 0
      BY <1>0, <1>4, FailFlow
    <3>2. p \in OutOrNone /\ Count(p) = 0 /\ Total(p) \in 0..MadeFor(x)
      BY <1>0, <3>1, OutFacts DEF OutOrNone, Count, Total
    <3>3. MadeFor(x)' = MadeFor(x) /\ (Streaming(x)' <=> Streaming(x))
      BY <2>1 DEF MadeFor, Streaming
    <3>4. /\ Count(stream[x].out) \in Nat /\ Count(stream[x].buf) \in Nat
          /\ Count(produced[x]) \in Nat
      BY FlowFacts
    <3> HIDE DEF p
    <3>5. OnTheWay(x)' <= OnTheWay(x) /\ OnTheWay(x)' \in Nat
      <4>1. OnTheWay(x)' = Count(stream[x].out) + Count(stream[x].buf) + Count(p)
        BY <2>1 DEF OnTheWay, p
      <4> QED  BY <3>2, <3>4, <4>1 DEF OnTheWay
    <3>6. /\ OnTheWay(x)' <= MadeFor(x)
          /\ Streaming(x) => client[x].got + OnTheWay(x)' <= MadeFor(x)
      BY <3>5, FlowFacts DEF Flows
    <3>7. p = produced'[x]  BY DEF p
    <3> QED  BY <2>1, <3>1, <3>2, <3>3, <3>6, <3>7, FlowFacts DEF Flows, Fails
  <2> QED  BY <2>1, <2>2 DEF Flowing
<1>5. Quiet \/ AddCommit \/ Decode \/ DecodeNothing \/ FailOwn \/ FailStep \/ (FailJob /\ loop' = "failed")
  BY DEF Worker, Quiet
<1> QED  BY <1>1, <1>2, <1>3, <1>4, <1>5

LEMMA FlowingPreserved ==
  ASSUME OwnIds, IInv, Orderly, Flowing, [Next]_vars
  PROVE  Flowing'
<1>1. CASE UNCHANGED vars
  <2>1. UNCHANGED <<client, stream, sched, produced>>  BY <1>1 DEF vars
  <2>2. \A x \in Ids : Flows(x)'
    BY <2>1, FlowFrame DEF Flowing, MadeFor, Streaming
  <2> QED  BY <2>1, <2>2 DEF Flowing
<1>2. CASE Pause \/ Dispatch \/ Recover
  <2>1. UNCHANGED <<client, stream, sched, produced>>  BY <1>2 DEF Pause, Dispatch, Recover
  <2>2. \A x \in Ids : Flows(x)'
    BY <2>1, FlowFrame DEF Flowing, MadeFor, Streaming
  <2> QED  BY <2>1, <2>2 DEF Flowing
<1>3. CASE Deliver \/ DeliverFailures \/ Synthesise  BY <1>3, DeliverFlow, SynthesiseFlow
<1>4. ASSUME NEW r \in Ids, Client(r)  PROVE Flowing'
  BY <1>4, ReadFlow, ReturnFlow, MovedFlow, CleanupFlow DEF Client
<1>5. ASSUME NEW r \in Ids, Outside(r)  PROVE Flowing'
  BY <1>5, SubmitFlow, MovedFlow, CancelFlow DEF Outside
<1>6. CASE Worker  BY <1>6, WorkerFlow
<1> QED  BY <1>1, <1>2, <1>3, <1>4, <1>5, <1>6 DEF Next, Loop

-----------------------------------------------------------------------------
(* Nothing happens to the stream of x.                                     *)
LEMMA FaithfulFrame ==
  ASSUME NEW x \in Ids, Faithful(x), stream'[x] = stream[x], produced'[x] = produced[x],
         MadeFor(x)' = MadeFor(x), sched'.commits[x] = sched.commits[x],
         loop' = "failed" => loop = "failed", Closed(x) => Closed(x)',
         client'[x].fate = "done" => client[x].fate = "done",
         client'[x].at = "adding" => client[x].at = "adding",
         client'[x].at = "reading" => client[x].at = "reading" /\ client'[x].got = client[x].got
  PROVE  Faithful(x)'
<1>1. OnTheWay(x)' = OnTheWay(x)  BY DEF OnTheWay
<1>2. Streaming(x)' => Streaming(x) /\ client'[x].got = client[x].got  BY DEF Streaming
<1>3. NoMore(x) => NoMore(x)'  BY DEF NoMore
<1> QED  BY <1>1, <1>2, <1>3 DEF Faithful

LEMMA DeliveringInit == OwnIds /\ Init => Delivering
<1> SUFFICES ASSUME OwnIds, Init, NEW x \in Ids  PROVE Faithful(x)
  BY DEF Delivering
<1>1. produced[x] = None /\ client[x].at = "idle" /\ client[x].fate = "none"
  BY DEF Init, Nothing
<1> QED  BY <1>1 DEF Faithful, Streaming

LEMMA SubmitFaithful ==
  ASSUME IInv, Orderly, Flowing, Delivering, OwnIds, NEW r \in Ids, Submit(r)
  PROVE  Delivering'
<1>1. /\ stream'[r] = Fresh /\ sched.commits[r] = 0
      /\ \A x \in Ids \ {r} : client'[x] = client[x] /\ stream'[x] = stream[x]
      /\ client'[r] = [at |-> "adding", life |-> 1, got |-> 0, fate |-> "none"]
  BY SubmitFlow
<1>2. UNCHANGED <<sched, step, loop, produced>>  BY DEF Submit
<1>3. \A x \in Ids : Closed(x)' <=> Closed(x)  BY <1>2 DEF Closed, Occupies, InHand
<1>4. \A x \in Ids \ {r} : Faithful(x)'
  BY <1>1, <1>2, <1>3, FaithfulFrame DEF Delivering, MadeFor
<1>5. produced'[r] = None  BY <1>1, <1>2, FlowFacts DEF Flows
<1>6. client'[r].at = "adding" /\ client'[r].fate = "none"  BY <1>1
<1>7. Faithful(r)'  BY <1>1, <1>5, <1>6 DEF Faithful, Streaming, Fresh
<1> QED  BY <1>4, <1>7 DEF Delivering

LEMMA AddCommitFaithful ==
  ASSUME IInv, Orderly, Flowing, Delivering, OwnIds, AddCommit
  PROVE  Delivering'
<1>1. PICK r \in Ids :
        /\ Adding(r) /\ step' = [step EXCEPT !.at = "free", !.adding = None]
        /\ \A x \in Ids \ {r} : client'[x] = client[x]
        /\ client'[r] = [client[r] EXCEPT !.at = IF client[r].at = "cancelled" THEN "leaving" ELSE "reading"]
        /\ sched'.commits = [sched.commits EXCEPT ![r] = @ + 1]
        /\ sched'.made = sched.made /\ sched'.running = sched.running
        /\ sched'.pending = sched.pending \cup (IF client[r].at = "cancelled" THEN {r} ELSE {})
        /\ \A x \in Ids : Queued(sched', x) <=> Queued(sched, x) \/ x = r
  BY AddCommitEffect
<1>2. UNCHANGED <<stream, loop, produced>>  BY DEF AddCommit
<1>3. step'.at = "free" /\ step'.admitting = step.admitting
  BY <1>1, OrderlyFacts DEF StepType
<1>4. \A x \in Ids \ {r} : Closed(x) => Closed(x)'
  BY <1>1, <1>3 DEF Closed, Occupies, InHand, AddCommit
<1>5. \A x \in Ids \ {r} : sched'.commits[x] = sched.commits[x]
  BY <1>1, OrderlyFacts DEF SchedulerType
<1>6. \A x \in Ids \ {r} : Faithful(x)'
  BY <1>1, <1>2, <1>4, <1>5, FaithfulFrame DEF Delivering, MadeFor
<1>7. /\ client[r].at \in {"adding", "cancelled"} /\ sched.commits[r] = 0
      /\ client'[r].got = client[r].got /\ client'[r].fate = client[r].fate
      /\ client'[r].at = IF client[r].at = "cancelled" THEN "leaving" ELSE "reading"
  BY <1>1, OrderlyFacts DEF Life, ClientShape, ClientRecord
<1>8. /\ MadeFor(r) = 0 /\ MadeFor(r)' = 0 /\ produced[r] = None
      /\ OnTheWay(r)' = 0 /\ client[r].got = 0
  <2>1. MadeFor(r) = 0 /\ MadeFor(r)' = 0 /\ produced[r] = None
    BY <1>1, <1>7, FlowFacts DEF Flows, MadeFor
  <2> QED  BY <1>2, <2>1, FlowFacts DEF Flows, OnTheWay
<1>9. client'[r].fate # "done"  BY <1>7 DEF Delivering, Faithful
<1>10. Faithful(r)'
  BY <1>2, <1>7, <1>8, <1>9 DEF Delivering, Faithful, Streaming
<1> QED  BY <1>6, <1>10 DEF Delivering

(* What a client that reads takes is what Faithful says of its collector.  *)
LEMMA ReadFaithful ==
  ASSUME IInv, Orderly, Flowing, Delivering, OwnIds, NEW r \in Ids, Read(r)
  PROVE  /\ Delivering'
         /\ client'[r].fate = "done" => client'[r].got = MadeFor(r)
<1> DEFINE o == stream[r].out
<1>1. /\ UNCHANGED <<sched, produced, step, loop>>
      /\ o # None /\ stream'[r].out = None /\ stream'[r].buf = stream[r].buf
      /\ stream'[r].event = stream[r].event /\ Streaming(r) /\ client[r].fate = "none"
      /\ \A x \in Ids \ {r} : client'[x] = client[x] /\ stream'[x] = stream[x]
  BY ReadFlow
<1>2. \/ /\ Fails(o) /\ client'[r].at = "closing"
         /\ client'[r].fate = "failed" /\ client'[r].got = client[r].got
      \/ /\ ~Fails(o) /\ client'[r].got = client[r].got + o.n
         /\ \/ /\ Finished(o) /\ client'[r].at = "leaving" /\ client'[r].fate = EndOf(o)
            \/ /\ ~Finished(o) /\ client'[r].at = "reading" /\ client'[r].fate = "none"
  BY ReadFlow
<1> HIDE DEF o
<1>3. \A x \in Ids : Closed(x)' <=> Closed(x)  BY <1>1 DEF Closed, Occupies, InHand
<1>4. \A x \in Ids \ {r} : Faithful(x)'
  BY <1>1, <1>3, FaithfulFrame DEF Delivering, MadeFor
<1>5. Faithful(r) /\ client[r].at = "reading" /\ o = stream[r].out /\ sched.commits[r] = 1
  BY <1>1, OrderlyFacts DEF Delivering, Streaming, o, Life
<1>6. MadeFor(r)' = MadeFor(r) /\ produced'[r] = produced[r]  BY <1>1 DEF MadeFor
<1>7. Count(o) = o.n /\ Count(stream'[r].out) = 0  BY <1>1 DEF Count
<1>8. /\ OnTheWay(r) = o.n + Count(stream[r].buf) + Count(produced[r])
      /\ OnTheWay(r)' = Count(stream[r].buf) + Count(produced[r])
      /\ Count(stream[r].buf) \in Nat /\ Count(produced[r]) \in Nat /\ o.n \in Nat
      /\ client[r].got \in Nat /\ MadeFor(r) \in Nat
  <2>1. /\ Count(stream[r].buf) \in Nat /\ Count(produced[r]) \in Nat /\ Count(o) \in Nat
        /\ client[r].got \in 0..MadeFor(r) /\ MadeFor(r) \in Nat
    BY <1>5, FlowFacts
  <2> QED  BY <1>1, <1>5, <1>6, <1>7, <2>1 DEF OnTheWay
<1>9. CASE Fails(o)
  <2>1. client'[r].at = "closing" /\ client'[r].fate = "failed"  BY <1>2, <1>9
  <2>2. Faithful(r)'  BY <1>1, <1>3, <1>5, <1>6, <2>1 DEF Faithful, Streaming
  <2> QED  BY <1>4, <2>1, <2>2 DEF Delivering
<1>10. CASE ~Fails(o) /\ Finished(o)
  <2>1. client'[r].at = "leaving" /\ client'[r].got = client[r].got + o.n  BY <1>2, <1>10
  <2>2. stream[r].event /\ stream[r].buf = None /\ NoMore(r)
    BY <1>1, <1>5, <1>10 DEF Faithful
  <2>3. Faithful(r)'
    BY <1>1, <1>3, <1>5, <1>6, <2>1, <2>2 DEF Faithful, Streaming, NoMore
  <2>4. Count(stream[r].buf) = 0 /\ Count(produced[r]) = 0
    BY <2>2, FlowFacts DEF NoMore, Count, Flows, Fails
  <2>5. client[r].got + OnTheWay(r) = MadeFor(r)  BY <1>1, <1>5, <1>10 DEF Faithful
  <2>6. client'[r].got = MadeFor(r)  BY <1>8, <2>1, <2>4, <2>5
  <2> QED  BY <1>4, <2>3, <2>6 DEF Delivering
<1>11. CASE ~Fails(o) /\ ~Finished(o)
  <2>1. /\ client'[r].at = "reading" /\ client'[r].fate = "none"
        /\ client'[r].got = client[r].got + o.n
    BY <1>2, <1>11
  <2>2. ~stream[r].event  BY <1>5, <1>11 DEF Faithful
  <2>3. client'[r].got + OnTheWay(r)' = MadeFor(r)'
    <3>1. client[r].got + OnTheWay(r) = MadeFor(r)  BY <1>1, <1>5, <2>2 DEF Faithful
    <3> QED  BY <1>6, <1>8, <2>1, <3>1
  <2>4. Faithful(r)'
    BY <1>1, <1>3, <1>5, <1>6, <2>1, <2>2, <2>3 DEF Faithful
  <2> QED  BY <1>4, <2>1, <2>4 DEF Delivering
<1> QED  BY <1>9, <1>10, <1>11

LEMMA ReturnFaithful ==
  ASSUME IInv, Orderly, Flowing, Delivering, OwnIds, NEW r \in Ids, Return(r)
  PROVE  /\ Delivering'
         /\ client'[r].fate = "done" => client'[r].got = MadeFor(r)
<1>1. /\ UNCHANGED <<sched, produced, step, loop>> /\ stream[r].event
      /\ client[r].at = "reading" /\ client'[r].at = "leaving"
      /\ \A x \in Ids \ {r} : client'[x] = client[x] /\ stream'[x] = stream[x]
      /\ \/ client'[r].fate = "failed"
         \/ ~Fails(stream[r].out) /\ client'[r].got = stream[r].out.total
  BY ReturnFlow
<1>2. \A x \in Ids : Closed(x)' <=> Closed(x)  BY <1>1 DEF Closed, Occupies, InHand
<1>3. \A x \in Ids \ {r} : Faithful(x)'
  BY <1>1, <1>2, FaithfulFrame DEF Delivering, MadeFor
<1>4. Faithful(r) /\ sched.commits[r] = 1  BY <1>1, OrderlyFacts DEF Delivering, Life
<1>5. client'[r].fate = "done" => NoMore(r) /\ client'[r].got = MadeFor(r)
  BY <1>1, <1>4 DEF Faithful
<1>6. MadeFor(r)' = MadeFor(r)  BY <1>1 DEF MadeFor
<1>7. Faithful(r)'
  BY <1>1, <1>2, <1>4, <1>5, <1>6 DEF Faithful, Streaming, NoMore
<1> QED  BY <1>3, <1>5, <1>7 DEF Delivering

LEMMA MovedFaithful ==
  ASSUME IInv, Orderly, Flowing, Delivering, OwnIds, NEW r \in Ids,
         \/ Withdraw(r) \/ Disconnect(r) \/ Finally(r) \/ ForceAbort(r) \/ RecordDisconnect(r)
         \/ Cleanup(r)
  PROVE  Delivering'
<1>1. CASE Cleanup(r)
  <2>1. /\ UNCHANGED <<produced, step, loop>> /\ sched'.made = sched.made
        /\ sched'.commits = sched.commits
        /\ \A x \in Ids \ {r} : client'[x] = client[x] /\ stream'[x] = stream[x]
        /\ client'[r].at = "gone" /\ client'[r].fate = client[r].fate
        /\ \A x \in Ids : Closed(x) <=> Closed(x)'
    BY <1>1, CleanupFlow
  <2>2. \A x \in Ids \ {r} : Faithful(x)'
    BY <2>1, FaithfulFrame DEF Delivering, MadeFor
  <2>3. Faithful(r)'
    BY <2>1 DEF Delivering, Faithful, MadeFor, Streaming
  <2> QED  BY <2>2, <2>3 DEF Delivering
<1>2. CASE Withdraw(r) \/ Disconnect(r) \/ Finally(r) \/ ForceAbort(r) \/ RecordDisconnect(r)
  <2>1. /\ UNCHANGED <<stream, produced, step, loop>> /\ sched'.made = sched.made
        /\ sched'.commits = sched.commits
        /\ \A x \in Ids \ {r} : client'[x] = client[x]
        /\ client'[r].got = client[r].got
        /\ \/ client'[r].at = client[r].at /\ client'[r].fate = client[r].fate
           \/ /\ client'[r].at \in {"leaving", "cancelled", "closing"}
              /\ client'[r].fate = client[r].fate
           \/ /\ client'[r].at \in {"leaving", "cancelled", "closing"}
              /\ client[r].fate = "none" /\ client'[r].fate \in {"cancelled", "left"}
        /\ \A x \in Ids : Closed(x) => Closed(x)'
    BY <1>2, MovedFlow
  <2>2. \A x \in Ids \ {r} : Faithful(x)'
    BY <2>1, FaithfulFrame DEF Delivering, MadeFor
  <2>3. Faithful(r)'  BY <2>1, FaithfulFrame DEF Delivering, MadeFor
  <2> QED  BY <2>2, <2>3 DEF Delivering
<1> QED  BY <1>1, <1>2

(* Outputs of a step that reach a collector.                               *)
LEMMA DeliverFaithful ==
  ASSUME IInv, Orderly, Flowing, Delivering, OwnIds, Deliver \/ DeliverFailures
  PROVE  Delivering'
<1>1. /\ UNCHANGED <<client, sched, step>> /\ produced' = Nothing /\ loop' = "idle"
  BY DeliverFlow
<1>2. \A x \in Ids : Closed(x)' <=> Closed(x)  BY <1>1 DEF Closed, Occupies, InHand
<1>3. ASSUME NEW x \in Ids  PROVE Faithful(x)'
  <2> DEFINE s == stream[x]
             p == produced[x]
             t == stream'[x]
  <2>1. /\ Faithful(x) /\ Flows(x) /\ Ready(s) /\ produced'[x] = None /\ MadeFor(x)' = MadeFor(x)
        /\ Count(p) \in Nat /\ Count(s.out) \in Nat /\ Count(s.buf) \in Nat
        /\ (client[x].at = "adding" => sched.commits[x] = 0)
    BY <1>1, FlowFacts, OrderlyFacts DEF Delivering, Nothing, MadeFor, Life
  <2>2. CASE p = None \/ ~Tracked(x)
    <3>1. t = s  BY <2>2 DEF Deliver, DeliverFailures
    <3>2. CASE p = None
      BY <1>1, <1>2, <2>1, <3>1, <3>2, FaithfulFrame
    <3>3. CASE ~Tracked(x)
      BY <1>1, <1>2, <2>1, <3>3 DEF Faithful, Streaming, Tracked
    <3> QED  BY <2>2, <3>2, <3>3
  <2>3. CASE p # None /\ Tracked(x) /\ loop = "delivering"
    <3> DEFINE d == Delivered(s, p)
    <3>1. p \in OutType /\ Count(p) = p.n /\ (p.err # "none" => Finished(p)) /\ client[x].at # "adding"
      BY <2>1, <2>3, FlowFacts, OutFacts DEF Flows, Count
    <3>2. /\ Ready(d)
          /\ Count(d.out) + Count(d.buf) = Count(s.out) + Count(s.buf) + p.n
          /\ d.event <=> s.event \/ Finished(p)
          /\ d.out = s.out \/ (d.out # None /\ (Finished(d.out) <=> Finished(p)))
          /\ Finished(p) => /\ d.out # None /\ Finished(d.out)
                            /\ d.out.total = p.total /\ d.buf = None
          /\ Fails(p) => Fails(d.out)
          /\ s.out # None => d.out # None
          /\ Fails(s.out) /\ (p.err = "none" \/ Fails(p)) => Fails(d.out)
      BY <2>1, <3>1, DeliveredFlow
    <3>3. t = d
      <4>1. stream' = [r \in Ids |-> IF produced[r] # None /\ Tracked(r)
                                     THEN Delivered(stream[r], produced[r]) ELSE stream[r]]
        BY <2>3 DEF Deliver, DeliverFailures
      <4> QED  BY <2>3, <4>1
    <3> HIDE DEF d
    <3>4. OnTheWay(x)' = OnTheWay(x)
      <4>1. Count(produced'[x]) = 0  BY <2>1 DEF Count
      <4>2. Count(d.out) \in Nat /\ Count(d.buf) \in Nat  BY <3>2, OutFacts DEF Ready
      <4> QED  BY <2>1, <3>1, <3>2, <3>3, <4>1, <4>2 DEF OnTheWay
    <3>5. s.event /\ client[x].at = "reading" /\ p.err = "none" => Fails(s.out)
      BY <2>1, <2>3 DEF Faithful, NoMore, Fails
    <3>6. client[x].at = "reading" =>
            /\ t.event => t.out # None
            /\ t.out # None /\ Finished(t.out) => t.event
            /\ t.event /\ ~Fails(t.out) => /\ Finished(t.out) /\ t.out.total = MadeFor(x)
                                           /\ t.buf = None /\ Closed(x)
      <4> SUFFICES ASSUME client[x].at = "reading"  PROVE
            /\ t.event => t.out # None
            /\ t.out # None /\ Finished(t.out) => t.event
            /\ t.event /\ ~Fails(t.out) => /\ Finished(t.out) /\ t.out.total = MadeFor(x)
                                           /\ t.buf = None /\ Closed(x)
        OBVIOUS
      <4>1. t.event => t.out # None  BY <2>1, <3>2, <3>3 DEF Faithful
      <4>2. t.out # None /\ Finished(t.out) => t.event  BY <2>1, <3>2, <3>3 DEF Faithful
      <4>3. ASSUME t.event, ~Fails(t.out)
            PROVE  Finished(t.out) /\ t.out.total = MadeFor(x) /\ t.buf = None /\ Closed(x)
        <5>1. Finished(p)
          <6>1. SUFFICES ASSUME ~Finished(p)  PROVE FALSE
            OBVIOUS
          <6>2. s.event /\ p.err = "none"  BY <3>1, <3>2, <3>3, <4>3, <6>1
          <6> QED  BY <3>2, <3>3, <3>5, <4>3, <6>2
        <5>2. ~Fails(p)  BY <3>2, <3>3, <4>3
        <5>3. p.total = MadeFor(x) /\ Closed(x)  BY <2>1, <2>3, <5>1, <5>2 DEF Faithful
        <5> QED  BY <3>2, <3>3, <5>1, <5>3
      <4> QED  BY <4>1, <4>2, <4>3
    <3>7. Streaming(x) => \/ client[x].got + OnTheWay(x)' = MadeFor(x)
                          \/ t.event /\ Fails(t.out) /\ Closed(x)
      <4>1. s.event /\ Fails(s.out) /\ NoMore(x) => t.event /\ Fails(t.out) /\ Closed(x)
        BY <2>3, <3>2, <3>3 DEF NoMore
      <4> QED  BY <2>1, <3>4, <4>1 DEF Faithful
    <3> HIDE DEF s, p
    <3>8. client[x].fate = "done" => sched.commits[x] = 1 /\ Closed(x)  BY <2>1 DEF Faithful
    <3> QED  BY <1>1, <1>2, <2>1, <3>1, <3>6, <3>7, <3>8 DEF Faithful, NoMore, Streaming
  <2>4. CASE p # None /\ Tracked(x) /\ loop = "failed"
    <3> DEFINE d == Answered(s, p)
    <3>1. p \in OutType /\ Fails(p) /\ client[x].at # "adding"
          /\ (client[x].at = "reading" => Closed(x))
      BY <2>1, <2>4, FlowFacts, OutFacts DEF Flows, Faithful
    <3>2. d.out # None /\ d.event = TRUE /\ (Fails(p) => Fails(d.out))
      BY <2>1, <3>1, AnsweredFlow
    <3>3. t = d
      <4>1. stream' = [r \in Ids |-> IF produced[r] # None /\ Tracked(r)
                                     THEN Answered(stream[r], produced[r]) ELSE stream[r]]
        BY <2>4 DEF Deliver, DeliverFailures
      <4> QED  BY <2>4, <4>1
    <3> HIDE DEF d
    <3>4. t.event = TRUE /\ t.out # None /\ Fails(t.out)  BY <3>1, <3>2, <3>3
    <3>5. client[x].fate = "done" => sched.commits[x] = 1 /\ Closed(x)  BY <2>1 DEF Faithful
    <3> HIDE DEF s, p
    <3> QED  BY <1>1, <1>2, <2>1, <3>1, <3>4, <3>5 DEF Faithful, NoMore, Streaming
  <2> QED  BY <2>2, <2>3, <2>4 DEF Deliver, DeliverFailures
<1> QED  BY <1>3 DEF Delivering

LEMMA SynthesiseFaithful ==
  ASSUME IInv, Orderly, Flowing, Delivering, OwnIds, Synthesise
  PROVE  Delivering'
<1>1. /\ UNCHANGED <<client, step>> /\ loop' = "idle" /\ produced' = Nothing
      /\ sched'.made = sched.made /\ sched'.commits = sched.commits
      /\ \A x \in Ids :
           /\ Closed(x) => Closed(x)'
           /\ Tracked(x) /\ sched.requests[x] = Obj(x) /\ ~stream[x].event => Closed(x)'
           /\ IF Tracked(x) /\ ~stream[x].event
              THEN Fails(stream'[x].out) /\ stream'[x].buf = None /\ stream'[x].event = TRUE
              ELSE stream'[x] = stream[x]
  BY SynthesiseFlow
<1>2. produced = Nothing  BY OrderlyFacts DEF Synthesise, Turns
<1>3. ASSUME NEW x \in Ids  PROVE Faithful(x)'
  <2>1. /\ Faithful(x) /\ produced'[x] = None /\ MadeFor(x)' = MadeFor(x)
        /\ produced'[x] = produced[x]
    BY <1>1, <1>2 DEF Delivering, Nothing, MadeFor
  <2>2. CASE Tracked(x) /\ ~stream[x].event
    <3>1. client[x].at = "reading" => Closed(x)'
      BY <1>1, <2>2, OrderlyFacts DEF Life
    <3>2. Fails(stream'[x].out) /\ stream'[x].buf = None /\ stream'[x].event = TRUE
      BY <1>1, <2>2
    <3>3. stream'[x].out # None  BY <3>2 DEF Fails
    <3>4. client[x].fate = "done" => sched.commits[x] = 1 /\ Closed(x)'  BY <1>1, <2>1 DEF Faithful
    <3> QED  BY <1>1, <2>1, <3>1, <3>2, <3>3, <3>4 DEF Faithful, NoMore, Streaming
  <2>3. CASE ~(Tracked(x) /\ ~stream[x].event)
    BY <1>1, <2>1, <2>3, FaithfulFrame
  <2> QED  BY <2>2, <2>3
<1> QED  BY <1>3 DEF Delivering

(* A step's tokens, and the outputs of a failure.                          *)
LEMMA OutputsAreNew ==
  ASSUME IInv, Orderly, OwnIds,
         Decode \/ DecodeNothing \/ FailOwn \/ FailStep \/ (FailJob /\ loop' = "failed")
  PROVE  produced = Nothing
<1>1. CASE Decode \/ DecodeNothing \/ FailOwn \/ FailStep
  <2>1. ~Between  BY <1>1 DEF Decode, DecodeNothing, FailOwn, FailStep, Between
  <2> QED  BY <2>1, OrderlyFacts DEF Turns
<1>2. CASE FailJob
  <2>1. ~Adds
    <3>1. 1 \in DOMAIN jobs /\ jobs[1].do = "fail"
      BY <1>2, OrderlyFacts DEF FailJob, Taking
    <3> QED  BY <3>1 DEF Adds
  <2> QED  BY <2>1, OrderlyFacts DEF Turns
<1> QED  BY <1>1, <1>2

LEMMA DecodeFaithful ==
  ASSUME IInv, Orderly, Flowing, Delivering, OwnIds, Decode \/ DecodeNothing
  PROVE  /\ Delivering'
         /\ \A x \in Ids : Decoding(x) => client[x].fate # "done"
<1>1. /\ UNCHANGED <<client, stream>> /\ sched'.commits = sched.commits
      /\ loop' = "delivering" /\ step.at = "decode" /\ produced = Nothing
  BY DecodeFlow, OutputsAreNew
<1>2. ASSUME NEW x \in Ids  PROVE Faithful(x)' /\ (Decoding(x) => client[x].fate # "done")
  <2>1. /\ Faithful(x) /\ produced[x] = None /\ (Occupies(x)' => Occupies(x))
        /\ (client[x].at = "adding" => sched.commits[x] = 0)
    BY <1>1, DecodeFlow, OrderlyFacts DEF Delivering, Nothing, Life
  <2>2. CASE Decoding(x)
    <3>1. /\ Occupies(x) /\ sched.commits[x] # 0 /\ MadeFor(x)' = MadeFor(x) + 1
          /\ \E e \in {"no", "stop", "length", "repetition"} :
               /\ produced'[x] = TokenOutput(Obj(x), e)
               /\ e # "no" => ~Occupies(x)'
      BY <2>2, DecodeFlow
    <3>2. PICK e \in {"no", "stop", "length", "repetition"} :
            /\ produced'[x] = TokenOutput(Obj(x), e)
            /\ e # "no" => ~Occupies(x)'
      BY <3>1
    <3> DEFINE p == TokenOutput(Obj(x), e)
    <3>3. MadeFor(x) \in Nat /\ Count(stream[x].out) \in Nat /\ Count(stream[x].buf) \in Nat
          /\ client[x].got \in Nat
      BY FlowFacts
    <3>4. /\ p.n = 1 /\ p.total = MadeFor(x) + 1 /\ p # None /\ ~Fails(p)
          /\ Finished(p) <=> e # "no"
      BY <3>3, TokenFacts
    <3>5. ~Closed(x)  BY <1>1, <3>1 DEF Closed
    <3>6. Finished(p) => Closed(x)'  BY <3>2, <3>4 DEF Closed
    <3>7. client[x].fate # "done"  BY <2>1, <3>5 DEF Faithful
    <3>8. Streaming(x)' => client'[x].got + OnTheWay(x)' = MadeFor(x)'
      <4>1. Count(produced[x]) = 0 /\ Count(produced'[x]) = 1
        BY <2>1, <3>2, <3>4 DEF Count
      <4>2. Streaming(x) => client[x].got + OnTheWay(x) = MadeFor(x)
        BY <2>1, <3>5 DEF Faithful, NoMore
      <4>3. OnTheWay(x)' = OnTheWay(x) + 1
        BY <1>1, <3>3, <4>1 DEF OnTheWay
      <4>4. OnTheWay(x) \in Nat  BY FlowFacts
      <4> QED  BY <1>1, <3>1, <3>3, <4>2, <4>3, <4>4 DEF Streaming
    <3>9. client[x].at = "reading" /\ stream[x].event => Fails(stream[x].out)
      BY <2>1, <3>5 DEF Faithful, NoMore
    <3> HIDE DEF p
    <3>10. produced'[x] = p  BY <3>2 DEF p
    <3> QED
      BY <1>1, <2>1, <3>1, <3>4, <3>6, <3>7, <3>8, <3>9, <3>10 DEF Faithful
  <2>3. CASE ~Decoding(x)
    <3>1. MadeFor(x)' = MadeFor(x) /\ produced'[x] = None  BY <2>3, DecodeFlow
    <3>2. Closed(x) => Closed(x)'  BY <1>1, <2>1 DEF Closed
    <3> QED  BY <1>1, <2>1, <2>3, <3>1, <3>2, FaithfulFrame
  <2> QED  BY <2>2, <2>3
<1> QED  BY <1>2 DEF Delivering

LEMMA FailFaithful ==
  ASSUME IInv, Orderly, Flowing, Delivering, OwnIds,
         FailOwn \/ FailStep \/ (FailJob /\ loop' = "failed")
  PROVE  Delivering'
<1>0. \A x \in Ids : MadeFor(x) \in Nat  BY FlowFacts
<1>1. /\ UNCHANGED <<client, stream>> /\ sched'.commits = sched.commits
      /\ sched'.made = sched.made /\ loop' \in {"delivering", "failed"}
  BY <1>0, FailFlow
<1>2. ASSUME NEW x \in Ids  PROVE Faithful(x)'
  <2>1. /\ Faithful(x) /\ produced[x] = None /\ MadeFor(x)' = MadeFor(x)
        /\ Count(stream[x].out) \in Nat /\ Count(stream[x].buf) \in Nat
    BY <1>1, OutputsAreNew, FlowFacts DEF Delivering, Nothing, MadeFor
  <2>2. /\ Closed(x) => Closed(x)'
        /\ \/ produced'[x] = None
           \/ /\ produced'[x] # None /\ Fails(produced'[x]) /\ Count(produced'[x]) = 0
              /\ loop' = "failed" => Closed(x)'
    BY <1>0, FailFlow, OutFacts DEF Count, Fails
  <2>3. NoMore(x) => NoMore(x)'  BY <2>2 DEF NoMore
  <2>4. OnTheWay(x)' = OnTheWay(x)
    <3>1. Count(produced[x]) = 0 /\ Count(produced'[x]) = 0  BY <2>1, <2>2 DEF Count
    <3> QED  BY <1>1, <2>1, <3>1 DEF OnTheWay
  <2> QED  BY <1>1, <2>1, <2>2, <2>3, <2>4 DEF Faithful, Streaming
<1> QED  BY <1>2 DEF Delivering

LEMMA QuietFaithful ==
  ASSUME IInv, Orderly, Flowing, Delivering, OwnIds, Quiet
  PROVE  Delivering'
<1>1. QuietOutcome  BY QuietEffect
<1>2. ASSUME NEW x \in Ids  PROVE Faithful(x)'
  <2>1. Returned(x) /\ Faithful(x)  BY <1>1 DEF QuietOutcome, Delivering
  <2>2. /\ client'[x].fate = "done" => client[x].fate = "done"
        /\ client'[x].at = "adding" => client[x].at = "adding"
        /\ client'[x].at = "reading" => client[x].at = "reading" /\ client'[x].got = client[x].got
    BY <2>1 DEF Returned
  <2> QED  BY <1>1, <2>1, <2>2, FaithfulFrame DEF QuietOutcome, MadeFor
<1> QED  BY <1>2 DEF Delivering

LEMMA DeliveringPreserved ==
  ASSUME OwnIds, NeverCancelled, IInv, Orderly, Flowing, Delivering, [Next]_vars
  PROVE  Delivering'
<1>1. CASE UNCHANGED vars \/ Pause \/ Dispatch \/ Recover
  <2>1. UNCHANGED <<client, stream, sched, produced, step>> /\ (loop' = "failed" => loop = "failed")
    BY <1>1 DEF vars, Pause, Dispatch, Recover
  <2>2. \A x \in Ids : Closed(x) => Closed(x)'  BY <2>1 DEF Closed, Occupies, InHand
  <2>3. \A x \in Ids : Faithful(x)'
    BY <2>1, <2>2, FaithfulFrame DEF Delivering, MadeFor
  <2> QED  BY <2>3 DEF Delivering
<1>2. CASE Deliver \/ DeliverFailures \/ Synthesise
  BY <1>2, DeliverFaithful, SynthesiseFaithful
<1>3. ASSUME NEW r \in Ids, Client(r) \/ Outside(r)  PROVE Delivering'
  <2>1. ~CancelRequest(r)  BY DEF CancelRequest, NeverCancelled
  <2> QED
    BY <1>3, <2>1, SubmitFaithful, ReadFaithful, ReturnFaithful, MovedFaithful DEF Client, Outside
<1>4. CASE Worker
  <2>1. \/ Quiet \/ AddCommit \/ Decode \/ DecodeNothing
        \/ FailOwn \/ FailStep \/ (FailJob /\ loop' = "failed")
    BY <1>4 DEF Worker, Quiet
  <2> QED  BY <2>1, QuietFaithful, AddCommitFaithful, DecodeFaithful, FailFaithful
<1> QED  BY <1>1, <1>2, <1>3, <1>4 DEF Next, Loop

-----------------------------------------------------------------------------
(* The refinement: what TokenStream calls made is counted by the request's *)
(* only object.                                                            *)
Agrees == \A x \in Ids : MadeOf(x) = MadeFor(x)

LEMMA CountsAgree == OwnIds /\ IInv /\ Orderly /\ Flowing => Agrees
<1> SUFFICES ASSUME OwnIds, IInv, Orderly, Flowing, NEW x \in Ids
             PROVE  MadeOf(x) = MadeFor(x)
  BY DEF Agrees
<1>1. Life(x) /\ Flows(x)  BY OrderlyFacts, FlowFacts
<1>2. CASE client[x].at = "idle"
  BY <1>1, <1>2 DEF Life, Flows, MadeOf
<1>3. CASE client[x].at # "idle"
  BY <1>1, <1>3 DEF Life, MadeOf, MadeFor, Obj, Current
<1> QED  BY <1>2, <1>3

LEMMA StartsAlike == OwnIds /\ Init => Abstract!Init
<1> SUFFICES ASSUME OwnIds, Init  PROVE Abstract!Init
  OBVIOUS
<1>1. \A x \in Ids : MadeOf(x) = 0 /\ client[x].got = 0 /\ client[x].fate = "none"
  BY DEF Init, MadeOf
<1> QED  BY <1>1 DEF Abstract!Init

(* A step that leaves the tokens made, those read and the ends alone.      *)
LEMMA Invisible ==
  ASSUME Agrees, Agrees',
         \A x \in Ids : /\ MadeFor(x)' = MadeFor(x)
                        /\ client'[x].got = client[x].got /\ client'[x].fate = client[x].fate
  PROVE  UNCHANGED Abstract!vars
BY DEF Agrees, Abstract!vars

(* A step of the client of one request.                                    *)
LEMMA ClientAlike ==
  ASSUME Agrees, Agrees', NEW r \in Ids, \A x \in Ids : MadeFor(x)' = MadeFor(x),
         \A x \in Ids \ {r} : client'[x] = client[x],
         client[r].fate = "none", client'[r].got \in client[r].got..MadeFor(r),
         client'[r].fate \in {"none", "failed", "left", "cancelled", "done"},
         client'[r].fate = "done" => client'[r].got = MadeFor(r)
  PROVE  Abstract!Next
<1> DEFINE made == [x \in Ids |-> MadeOf(x)]
           got == [x \in Ids |-> client[x].got]
           fate == [x \in Ids |-> client[x].fate]
<1>1. /\ made' = made /\ made[r] = MadeFor(r)
      /\ got' = [got EXCEPT ![r] = client'[r].got] /\ got[r] = client[r].got
      /\ fate' = [fate EXCEPT ![r] = client'[r].fate] /\ fate[r] = "none"
  BY DEF Agrees
<1>2. CASE client'[r].fate = "none"
  <2>1. fate' = fate  BY <1>2
  <2> QED  BY <1>1, <2>1 DEF Abstract!Next, Abstract!Receive
<1>3. CASE client'[r].fate = "done"
  BY <1>1, <1>3 DEF Abstract!Next, Abstract!Finish
<1>4. CASE client'[r].fate \in {"failed", "left", "cancelled"}
  BY <1>1, <1>4 DEF Abstract!Next, Abstract!Break
<1> QED  BY <1>2, <1>3, <1>4

LEMMA SubmitAlike ==
  ASSUME IInv, Orderly, Flowing, OwnIds, Agrees, Agrees', NEW r \in Ids, Submit(r)
  PROVE  Abstract!Next
<1>1. /\ sched.commits[r] = 0 /\ \A x \in Ids \ {r} : client'[x] = client[x]
      /\ client'[r] = [at |-> "adding", life |-> 1, got |-> 0, fate |-> "none"]
  BY SubmitFlow
<1>2. \A x \in Ids : MadeFor(x)' = MadeFor(x)  BY DEF Submit, MadeFor
<1>3. MadeFor(r) = 0  BY <1>1, FlowFacts DEF Flows
<1> DEFINE made == [x \in Ids |-> MadeOf(x)]
           got == [x \in Ids |-> client[x].got]
           fate == [x \in Ids |-> client[x].fate]
<1>4. /\ made' = [made EXCEPT ![r] = 0] /\ got' = [got EXCEPT ![r] = 0]
      /\ fate' = [fate EXCEPT ![r] = "none"]
  <2>1. \A x \in Ids : MadeOf(x)' = IF x = r THEN 0 ELSE MadeOf(x)
    BY <1>2, <1>3 DEF Agrees
  <2>2. made' = [made EXCEPT ![r] = 0]  BY <2>1
  <2>3. client'[r].got = 0 /\ client'[r].fate = "none"  BY <1>1
  <2> QED  BY <1>1, <2>2, <2>3
<1> QED  BY <1>4 DEF Abstract!Next, Abstract!Open

LEMMA ClientsAlike ==
  ASSUME IInv, Orderly, Flowing, Flowing', Delivering, OwnIds, NeverCancelled, Agrees, Agrees',
         NEW r \in Ids, Client(r) \/ Outside(r)
  PROVE  [Abstract!Next]_Abstract!vars
<1>1. CASE Submit(r)  BY <1>1, SubmitAlike
<1>2. CASE Read(r)
  <2>1. /\ UNCHANGED sched /\ client[r].fate = "none"
        /\ \A x \in Ids \ {r} : client'[x] = client[x]
        /\ stream[r].out # None
        /\ \/ client'[r].fate = "failed" /\ client'[r].got = client[r].got
           \/ /\ client'[r].got = client[r].got + stream[r].out.n
              /\ client'[r].fate = EndOf(stream[r].out) \/ client'[r].fate = "none"
    BY <1>2, ReadFlow
  <2>2. client'[r].got \in client[r].got..MadeFor(r)
    <3>1. stream[r].out.n \in Nat  BY <2>1, FlowFacts DEF Count
    <3>2. client[r].got \in Nat /\ client'[r].got \in 0..MadeFor(r) /\ MadeFor(r) \in Nat
      BY <2>1, FlowFacts DEF Flowing, Flows, MadeFor
    <3> QED  BY <2>1, <3>1, <3>2
  <2>3. client'[r].fate = "done" => client'[r].got = MadeFor(r)  BY <1>2, ReadFaithful
  <2>4. client'[r].fate \in {"none", "failed", "cancelled", "done"}  BY <2>1 DEF EndOf
  <2> QED  BY <2>1, <2>2, <2>3, <2>4, ClientAlike DEF MadeFor
<1>3. CASE Return(r)
  <2>1. /\ UNCHANGED sched /\ client[r].fate = "none" /\ client[r].at = "reading"
        /\ \A x \in Ids \ {r} : client'[x] = client[x]
        /\ stream[r].event
        /\ \/ client'[r].fate = "failed" /\ client'[r].got = client[r].got
           \/ /\ stream[r].out # None /\ ~Fails(stream[r].out)
              /\ client'[r].got = stream[r].out.total
              /\ client'[r].fate = EndOf(stream[r].out)
    BY <1>3, ReturnFlow
  <2>2. client[r].got \in 0..MadeFor(r) /\ MadeFor(r) \in Nat  BY FlowFacts
  <2>3. client'[r].got \in client[r].got..MadeFor(r)
    BY <2>1, <2>2 DEF Delivering, Faithful
  <2>4. client'[r].fate = "done" => client'[r].got = MadeFor(r)  BY <1>3, ReturnFaithful
  <2>5. client'[r].fate \in {"failed", "cancelled", "done"}  BY <2>1 DEF EndOf
  <2> QED  BY <2>1, <2>3, <2>4, <2>5, ClientAlike DEF MadeFor
<1>4. CASE Cleanup(r)
  <2>1. /\ sched'.made = sched.made /\ \A x \in Ids \ {r} : client'[x] = client[x]
        /\ client'[r].got = client[r].got /\ client'[r].fate = client[r].fate
    BY <1>4, CleanupFlow
  <2> QED  BY <2>1, Invisible DEF MadeFor
<1>5. CASE Withdraw(r) \/ Disconnect(r) \/ Finally(r) \/ ForceAbort(r) \/ RecordDisconnect(r)
  <2>1. /\ sched'.made = sched.made /\ \A x \in Ids \ {r} : client'[x] = client[x]
        /\ client'[r].got = client[r].got
        /\ \/ client'[r].fate = client[r].fate
           \/ client[r].fate = "none" /\ client'[r].fate \in {"cancelled", "left"}
    BY <1>5, MovedFlow
  <2>2. client'[r].got \in client[r].got..MadeFor(r)  BY <2>1, FlowFacts
  <2>3. CASE client'[r].fate = client[r].fate  BY <2>1, <2>3, Invisible DEF MadeFor
  <2>4. CASE client[r].fate = "none" /\ client'[r].fate \in {"cancelled", "left"}
    BY <2>1, <2>2, <2>4, ClientAlike DEF MadeFor
  <2> QED  BY <2>1, <2>3, <2>4
<1>6. ~CancelRequest(r)  BY DEF CancelRequest, NeverCancelled
<1> QED  BY <1>1, <1>2, <1>3, <1>4, <1>5, <1>6 DEF Client, Outside

LEMMA WorkerAlike ==
  ASSUME IInv, Orderly, Flowing, Delivering, OwnIds, Agrees, Agrees', Worker
  PROVE  [Abstract!Next]_Abstract!vars
<1>0. \A x \in Ids : MadeFor(x) \in Nat  BY FlowFacts
<1>1. CASE AddRefused \/ AddRaises
  <2>1. PICK r \in Ids : Turned(r)
    <3>1. CASE AddRefused
      <4>1. PICK r \in Ids : jobs[1].obj = Obj(r)  BY <3>1, FirstAdd DEF AddRefused
      <4> QED  BY <3>1, <4>1, ObjFacts DEF AddRefused
    <3>2. CASE AddRaises
      <4>1. step.adding[1] \in Ids  BY <3>2, ObjectIds DEF AddRaises, IInv, Shape
      <4> QED  BY <3>2, <4>1 DEF AddRaises
    <3> QED  BY <1>1, <3>1, <3>2
  <2>2. /\ \A x \in Ids \ {r} : client'[x] = client[x]
        /\ client'[r].got = client[r].got
        /\ client'[r].fate = IF client[r].fate = "none" THEN "failed" ELSE client[r].fate
    BY <2>1, TurnedClient, TurnedFate, OrderlyFacts
  <2>3. sched' = sched  BY <1>1 DEF AddRefused, AddRaises
  <2>4. CASE client[r].fate = "none"
    <3>1. client'[r].got \in client[r].got..MadeFor(r)  BY <2>2, FlowFacts
    <3> QED  BY <2>2, <2>3, <2>4, <3>1, ClientAlike DEF MadeFor
  <2>5. CASE client[r].fate # "none"
    BY <2>2, <2>3, <2>5, Invisible DEF MadeFor
  <2> QED  BY <2>4, <2>5
<1>2. CASE AddCommit
  <2>1. PICK r \in Ids :
          /\ \A x \in Ids \ {r} : client'[x] = client[x]
          /\ client'[r] = [client[r] EXCEPT !.at = IF client[r].at = "cancelled" THEN "leaving" ELSE "reading"]
          /\ sched'.made = sched.made
    BY <1>2, AddCommitEffect
  <2>2. client'[r].got = client[r].got /\ client'[r].fate = client[r].fate
    BY <2>1, OrderlyFacts DEF ClientShape, ClientRecord
  <2> QED  BY <2>1, <2>2, Invisible DEF MadeFor
<1>3. CASE Decode \/ DecodeNothing
  <2> DEFINE made == [x \in Ids |-> MadeOf(x)]
             got == [x \in Ids |-> client[x].got]
             fate == [x \in Ids |-> client[x].fate]
             R == {x \in Ids : Decoding(x)}
  <2>1. UNCHANGED client /\ \A x \in Ids : MadeFor(x)' = MadeFor(x) + IF x \in R THEN 1 ELSE 0
    BY <1>0, <1>3, DecodeFlow
  <2>2. \A x \in R : fate[x] # "done"  BY <1>3, DecodeFaithful
  <2> HIDE DEF R
  <2>3. made' = [x \in Ids |-> made[x] + IF x \in R THEN 1 ELSE 0] /\ UNCHANGED <<got, fate>>
    BY <2>1 DEF Agrees
  <2>4. R \in SUBSET Ids  BY DEF R
  <2> QED  BY <2>2, <2>3, <2>4 DEF Abstract!Next, Abstract!Generate
<1>4. CASE FailOwn \/ FailStep \/ (FailJob /\ loop' = "failed")
  <2>1. UNCHANGED client /\ sched'.made = sched.made  BY <1>0, <1>4, FailFlow
  <2> QED  BY <2>1, Invisible DEF MadeFor
<1>5. CASE Quiet /\ ~AddRefused /\ ~AddRaises
  <2>1. sched'.made = sched.made  BY <1>5, QuietEffect DEF QuietOutcome
  <2>2. client' = client
    BY <1>5 DEF Quiet, AddStart, StepStart, DrainEnd, StepRaises, AdmitEnd, Reconcile, Insert,
                Corrupt, Admit, Defer, Drain, FailJob
  <2> QED  BY <2>1, <2>2, Invisible DEF MadeFor
<1> QED  BY <1>1, <1>2, <1>3, <1>4, <1>5 DEF Worker, Quiet

LEMMA StepsAlike ==
  ASSUME OwnIds, NeverCancelled, IInv, Orderly, Flowing, Flowing', Delivering, Agrees, Agrees',
         [Next]_vars
  PROVE  [Abstract!Next]_Abstract!vars
<1>1. CASE UNCHANGED vars \/ Pause \/ Loop
  <2>1. UNCHANGED client
    BY <1>1 DEF vars, Pause, Loop, Dispatch, Deliver, Recover, DeliverFailures, Synthesise
  <2>2. sched'.made = sched.made
    <3>1. CASE Synthesise  BY <3>1, SynthesiseFlow
    <3>2. CASE ~Synthesise
      BY <1>1, <3>2 DEF vars, Pause, Loop, Dispatch, Deliver, Recover, DeliverFailures
    <3> QED  BY <3>1, <3>2
  <2> QED  BY <2>1, <2>2, Invisible DEF MadeFor
<1>2. ASSUME NEW r \in Ids, Client(r) \/ Outside(r)  PROVE [Abstract!Next]_Abstract!vars
  BY <1>2, ClientsAlike
<1>3. CASE Worker  BY <1>3, WorkerAlike
<1> QED  BY <1>1, <1>2, <1>3 DEF Next

(* Unless it is cancelled by engine.abort_request, a request whose id is   *)
(* its own keeps the promise of TokenStream: through the step's output,    *)
(* the interval buffer and a collector that merges, past failed and raised *)
(* steps, retries and clients that leave, its client receives each token   *)
(* once, and a stream or a generate() that ends normally has them all.     *)
THEOREM StreamsAreDelivered ==
  ASSUME OwnIds, NeverCancelled
  PROVE  Spec => ImplementsTokenStream
<1>1. Init => IInv /\ Orderly /\ Flowing /\ Delivering
  BY InitHolds, OrderlyInit, FlowInit, DeliveringInit
<1>2. IInv /\ Orderly /\ Flowing /\ Delivering /\ [Next]_vars
        => (IInv /\ Orderly /\ Flowing /\ Delivering)'
  BY NextPreserves, OrderlyPreserved, FlowingPreserved, DeliveringPreserved
<1>3. Spec => [](IInv /\ Orderly /\ Flowing /\ Delivering)  BY <1>1, <1>2, PTL DEF Spec
<1>4. IInv /\ Orderly /\ Flowing => Agrees  BY CountsAgree
<1>5. Init => Abstract!Init  BY StartsAlike
<1>6. IInv /\ Orderly /\ Flowing /\ Flowing' /\ Delivering /\ Agrees /\ Agrees' /\ [Next]_vars
        => [Abstract!Next]_Abstract!vars
  BY StepsAlike
<1>7. Spec => Abstract!Spec
  BY <1>3, <1>4, <1>5, <1>6, PTL DEF Spec, Abstract!Spec
<1> QED  BY <1>7 DEF ImplementsTokenStream

-----------------------------------------------------------------------------
(* How many tokens a request can make: it is admitted again only before    *)
(* its cap, and then makes no more than its cap again.                     *)
Fates == {"none", "done", "failed", "left", "cancelled"}

Within(x) ==
  LET m == MadeFor(x)
      row == sched.row[Obj(x)]
  IN  /\ m \in 0..(2 * MaxTokens - 1) /\ row \in 0..MaxTokens
      /\ Queued(sched, x) \/ InHand(x) => m < MaxTokens
      /\ sched.running[x] # None => row < MaxTokens /\ m < row + MaxTokens
      /\ sched.processed[x] # 0 => ~Occupies(x) /\ sched.commits[x] # 0 /\ sched.processed[x] = 1
      /\ sched.orphans[x] \in {None, Obj(x)}
      /\ client[x].fate \in Fates

Limits == sched.failures \in 0..FatalAfter /\ step.attempt \in 0..1 /\ paused \in BOOLEAN

Bounded == Limits /\ \A x \in Ids : Within(x)

LEMMA WithinFrame ==
  ASSUME NEW x \in Ids, Within(x), MadeFor(x)' = MadeFor(x),
         sched'.row[Obj(x)] = sched.row[Obj(x)], sched'.processed[x] = sched.processed[x],
         sched'.orphans[x] \in {sched.orphans[x], None}, client'[x].fate \in Fates,
         sched'.commits[x] = sched.commits[x],
         sched'.running[x] # None => sched.running[x] # None,
         Queued(sched, x)' \/ InHand(x)' =>
            Queued(sched, x) \/ InHand(x) \/ (sched.running[x] # None /\ MadeFor(x) < MaxTokens)
  PROVE  Within(x)'
<1>1. Occupies(x)' => Occupies(x)  BY DEF Occupies
<1> QED  BY <1>1 DEF Within, MadeFor

LEMMA BoundedInit == OwnIds /\ Init => Bounded
<1> SUFFICES ASSUME OwnIds, Init  PROVE Bounded
  OBVIOUS
<1>1. Limits
  <2>1. sched.failures = 0 /\ step.attempt = 0 /\ paused = FALSE  BY DEF Init, Free
  <2>2. FatalAfter \in Nat  BY BoundsAssumption
  <2>3. sched.failures \in 0..FatalAfter /\ step.attempt \in 0..1  BY <2>1, <2>2
  <2>4. paused \in BOOLEAN  BY <2>1
  <2> QED  BY <2>3, <2>4 DEF Limits
<1>2. ASSUME NEW x \in Ids  PROVE Within(x)
  <2>1. /\ MadeFor(x) = 0 /\ sched.row[Obj(x)] = 0 /\ sched.processed[x] = 0
        /\ sched.orphans[x] = None /\ sched.running[x] = None /\ client[x].fate = "none"
    BY ObjFacts DEF Init, Nothing, Zeros, MadeFor
  <2> QED  BY <2>1, BoundsAssumption DEF Within, Fates
<1> QED  BY <1>1, <1>2 DEF Bounded

(* The worker, but for what commits, inserts or makes tokens.              *)
Modest == \/ AddRefused \/ AddStart \/ AddRaises \/ StepStart \/ DrainEnd \/ StepRaises
          \/ AdmitEnd \/ Reconcile \/ Corrupt \/ FailOwn \/ FailStep \/ FailJob \/ DecodeNothing
          \/ \E i \in DOMAIN sched.waiting : Admit(i) \/ Defer(i)
          \/ \E r \in Ids : Drain(r)

ModestOutcome ==
  /\ sched'.made = sched.made /\ sched'.row = sched.row /\ sched'.processed = sched.processed
  /\ sched'.commits = sched.commits /\ Limits'
  /\ \A x \in Ids :
       /\ sched'.orphans[x] \in {sched.orphans[x], None}
       /\ sched'.running[x] # None => sched.running[x] # None
       /\ Queued(sched, x)' \/ InHand(x)' =>
            Queued(sched, x) \/ InHand(x) \/ (sched.running[x] # None /\ MadeFor(x) < MaxTokens)

(* The scheduler is left alone.                                            *)
LEMMA AloneModest ==
  ASSUME IInv, Orderly, Limits, OwnIds,
         AddRefused \/ AddRaises \/ StepStart \/ DrainEnd \/ StepRaises \/ AdmitEnd
  PROVE  ModestOutcome
<1>1. UNCHANGED <<sched, paused>>
  BY DEF AddRefused, AddRaises, StepStart, DrainEnd, StepRaises, AdmitEnd
<1>2. step'.admitting \in {None, step.admitting} /\ step'.attempt \in {0, step.attempt}
  BY OrderlyFacts
     DEF AddRefused, AddRaises, StepStart, DrainEnd, StepRaises, AdmitEnd, StepType, Free
<1>3. \A x \in Ids : InHand(x)' => InHand(x)  BY <1>2, ObjFacts DEF InHand
<1>4. Limits'  BY <1>1, <1>2 DEF Limits
<1> QED  BY <1>1, <1>3, <1>4 DEF ModestOutcome, Queued

LEMMA MovesModest ==
  ASSUME IInv, Orderly, Limits, OwnIds,
         \/ AddStart \/ Reconcile
         \/ \E i \in DOMAIN sched.waiting : Admit(i) \/ Defer(i)
         \/ \E r \in Ids : Drain(r)
  PROVE  ModestOutcome
<1>0. UNCHANGED paused  BY DEF AddStart, Reconcile, Admit, Defer, Drain
<1>1. CASE AddStart
  <2>1. PICK r \in Ids : jobs[1].obj = Obj(r)  BY <1>1, FirstAdd DEF AddStart
  <2>2. /\ Kept(sched, sched') /\ sched'.waiting = sched.waiting /\ sched'.running = sched.running
        /\ sched'.orphans = sched.orphans /\ sched'.failures = sched.failures
    BY <1>1, <2>1, AddStartEffect, OrderlyFacts
  <2>3. step'.admitting = step.admitting /\ step'.attempt = step.attempt
    BY <1>1, OrderlyFacts DEF AddStart, StepType
  <2>4. Limits'  BY <1>0, <2>2, <2>3 DEF Limits
  <2> QED  BY <2>2, <2>3, <2>4 DEF ModestOutcome, Kept, Queued, InHand
<1>2. CASE Reconcile
  <2>1. /\ Kept(sched, sched') /\ sched'.failures = sched.failures
        /\ sched'.waiting = sched.waiting /\ sched'.orphans = Nothing
        /\ \A x \in Ids : sched'.running[x] \in {None, sched.running[x]}
    BY <1>2, ReconcileEffect, OrderlyFacts
  <2>2. step'.admitting = step.admitting /\ step'.attempt = step.attempt
    BY <1>2, OrderlyFacts DEF Reconcile, StepType
  <2>3. Limits'  BY <1>0, <2>1, <2>2 DEF Limits
  <2> QED  BY <2>1, <2>2, <2>3 DEF ModestOutcome, Kept, Queued, InHand, Nothing
<1>3. ASSUME NEW i \in DOMAIN sched.waiting, Admit(i)  PROVE ModestOutcome
  <2>1. PICK r \in Ids :
          /\ step' = [step EXCEPT !.at = "insert", !.admitting = Obj(r)]
          /\ Queued(sched, r) /\ Kept(sched, sched') /\ sched'.failures = sched.failures
          /\ sched'.running = sched.running /\ sched'.orphans = sched.orphans
          /\ \A x \in Ids : Queued(sched', x) <=> Queued(sched, x) /\ x # r
    BY <1>3, AdmitEffect, OrderlyFacts
  <2>2. step'.admitting = Obj(r) /\ step'.attempt = step.attempt
    BY <2>1, OrderlyFacts DEF StepType
  <2>3. \A x \in Ids : InHand(x)' => x = r  BY <2>2, ObjFacts DEF InHand
  <2>4. Limits'  BY <1>0, <2>1, <2>2 DEF Limits
  <2>5. \A x \in Ids : Queued(sched, x)' => Queued(sched, x)  BY <2>1 DEF Queued
  <2> QED  BY <2>1, <2>3, <2>4, <2>5 DEF ModestOutcome, Kept
<1>4. ASSUME NEW i \in DOMAIN sched.waiting, Defer(i)  PROVE ModestOutcome
  <2>1. /\ step' = [step EXCEPT !.at = "decode", !.admitting = None]
        /\ Kept(sched, sched') /\ sched'.failures = sched.failures
        /\ sched'.running = sched.running /\ sched'.orphans = sched.orphans
        /\ \A x \in Ids : Queued(sched', x) <=> Queued(sched, x)
    BY <1>4, DeferEffect, OrderlyFacts
  <2>2. step'.admitting = None /\ step'.attempt = step.attempt
    BY <2>1, OrderlyFacts DEF StepType
  <2>3. \A x \in Ids : ~InHand(x)'  BY <2>2, ObjFacts DEF InHand
  <2>4. Limits'  BY <1>0, <2>1, <2>2 DEF Limits
  <2>5. \A x \in Ids : Queued(sched, x)' => Queued(sched, x)  BY <2>1 DEF Queued
  <2> QED  BY <2>1, <2>3, <2>4, <2>5 DEF ModestOutcome, Kept
<1>5. ASSUME NEW r \in Ids, Drain(r)  PROVE ModestOutcome
  <2> DEFINE t == AbortObject([sched EXCEPT !.pending = @ \ {r}], r, sched.requests[r])
  <2>1. Tidy(sched) /\ (Queued(sched, r) => sched.status[Obj(r)] = "waiting")
    BY OrderlyFacts DEF Place
  <2>2. sched' = t /\ UNCHANGED step  BY <1>5 DEF Drain
  <2>3. /\ Kept(sched, t) /\ t.failures = sched.failures
        /\ t.running = [sched.running EXCEPT ![r] = None] /\ t.orphans = sched.orphans
        /\ \A x \in Ids : Queued(t, x) <=> Queued(sched, x) /\ x # r
    BY <2>1, AbortObjectEffect
  <2> HIDE DEF t
  <2>4. \A x \in Ids : sched'.running[x] \in {None, sched.running[x]}
    BY <2>2, <2>3, OrderlyFacts DEF SchedulerType
  <2>5. Limits'  BY <1>0, <2>2, <2>3 DEF Limits
  <2>6. \A x \in Ids : Queued(sched, x)' => Queued(sched, x)  BY <2>2, <2>3 DEF Queued
  <2> QED  BY <2>2, <2>3, <2>4, <2>5, <2>6 DEF ModestOutcome, Kept, InHand
<1> QED  BY <1>1, <1>2, <1>3, <1>4, <1>5

(* The failures of a step, and its retry.                                  *)
LEMMA CountedBound ==
  ASSUME Limits  PROVE Counted(sched) \in 0..FatalAfter
BY BoundsAssumption DEF Limits, Counted

LEMMA EndsModest ==
  ASSUME IInv, Orderly, Limits, OwnIds,
         Corrupt \/ FailOwn \/ FailStep \/ FailJob \/ DecodeNothing
  PROVE  ModestOutcome
<1>0. UNCHANGED paused  BY DEF Corrupt, FailOwn, FailStep, FailJob, DecodeNothing, EndStep
<1>1. CASE Corrupt
  <2>1. /\ Kept(sched, sched') /\ sched'.failures = sched.failures /\ sched'.orphans = sched.orphans
        /\ \A x \in Ids :
             /\ sched'.running[x] = None
             /\ Queued(sched', x) <=> Queued(sched, x) \/ sched.running[x] # None
    BY <1>1, RescheduleEffect, OrderlyFacts DEF Corrupt, IInv
  <2>2. step'.admitting = step.admitting /\ step'.attempt = 1
    BY <1>1, OrderlyFacts DEF Corrupt, StepType
  <2>3. \A x \in Ids : sched.running[x] # None => MadeFor(x) < MaxTokens
    BY <1>1, OrderlyFacts DEF Corrupt, Running, Place, MadeFor
  <2>4. Limits'  BY <1>0, <2>1, <2>2 DEF Limits
  <2>5. \A x \in Ids : Queued(sched, x)' => Queued(sched, x) \/ sched.running[x] # None
    BY <2>1 DEF Queued
  <2> QED  BY <2>1, <2>2, <2>3, <2>4, <2>5 DEF ModestOutcome, Kept, InHand
<1>2. CASE FailOwn
  <2>1. PICK r \in Ids : InHand(r)  BY <1>2, Inserted DEF FailOwn
  <2>2. step.admitting[1] = r  BY <2>1, ObjFacts DEF InHand
  <2> DEFINE t == AbortAll(sched, {r})
  <2>3. sched' = t /\ step' = Free  BY <1>2, <2>2 DEF FailOwn, EndStep
  <2>4. \A x \in Ids : Queued(sched, x) => sched.status[Obj(x)] = "waiting"
    BY OrderlyFacts DEF Place
  <2>5. /\ Kept(sched, t) /\ t.failures = sched.failures /\ t.orphans = sched.orphans
        /\ \A x \in Ids :
             /\ t.running[x] = IF x \in Taken(sched, {r}) THEN None ELSE sched.running[x]
             /\ Queued(t, x) <=> Queued(sched, x) /\ x \notin Taken(sched, {r})
    BY <2>4, AbortAllEffect, OrderlyFacts
  <2> HIDE DEF t
  <2>6. Limits'  BY <1>0, <2>3, <2>5 DEF Limits, Free
  <2>7. \A x \in Ids : ~InHand(x)' /\ (Queued(sched, x)' => Queued(sched, x))
    BY <2>3, <2>5, ObjFacts DEF InHand, Free, Queued
  <2> QED  BY <2>3, <2>5, <2>6, <2>7 DEF ModestOutcome, Kept
<1>3. CASE FailStep \/ (FailJob /\ loop' = "failed")
  <2>1. sched' = FailShared(sched, step.admitting)
    BY <1>3 DEF FailStep, FailJob, EndStep
  <2>2. step'.admitting = None /\ step'.attempt \in {0, step.attempt}
    BY <1>3, OrderlyFacts DEF FailStep, FailJob, EndStep, StepType, Free
  <2>3. /\ Kept(sched, sched') /\ sched'.failures = Counted(sched) /\ sched'.orphans = sched.orphans
        /\ \A x \in Ids : /\ sched'.running[x] = None
                          /\ Queued(sched', x) => Queued(sched, x)
    BY <2>1, FailSharedEffect, OrderlyFacts
  <2>4. Limits'  BY <1>0, <2>2, <2>3, CountedBound DEF Limits
  <2>5. \A x \in Ids : ~InHand(x)' /\ (Queued(sched, x)' => Queued(sched, x))
    BY <2>2, <2>3, ObjFacts DEF InHand, Queued
  <2> QED  BY <2>3, <2>4, <2>5 DEF ModestOutcome, Kept
<1>4. CASE FailJob /\ loop' # "failed"
  <2>1. sched' = [sched EXCEPT !.failures = Counted(sched)] /\ UNCHANGED step
    BY <1>4 DEF FailJob
  <2>2. /\ Kept(sched, sched') /\ sched'.failures = Counted(sched) /\ SamePlaces(sched, sched')
    BY <2>1, OrderlyFacts DEF SchedulerType, Kept, SamePlaces
  <2>3. Limits'  BY <1>0, <2>1, <2>2, CountedBound DEF Limits
  <2> QED  BY <2>1, <2>2, <2>3 DEF ModestOutcome, Kept, SamePlaces, Queued, InHand
<1>5. CASE DecodeNothing
  <2>1. sched' = [sched EXCEPT !.failures = 0] /\ step' = Free  BY <1>5 DEF DecodeNothing, EndStep
  <2>2. /\ Kept(sched, sched') /\ sched'.failures = 0 /\ SamePlaces(sched, sched')
    BY <2>1, OrderlyFacts DEF SchedulerType, Kept, SamePlaces
  <2>3. Limits'  BY <1>0, <2>1, <2>2, BoundsAssumption DEF Limits, Free
  <2>4. \A x \in Ids : ~InHand(x)'  BY <2>1, ObjFacts DEF InHand, Free
  <2> QED  BY <2>2, <2>3, <2>4 DEF ModestOutcome, Kept, SamePlaces, Queued
<1> QED  BY <1>1, <1>2, <1>3, <1>4, <1>5

LEMMA ModestEffect ==
  ASSUME IInv, Orderly, Limits, OwnIds, Modest
  PROVE  ModestOutcome
BY AloneModest, MovesModest, EndsModest DEF Modest

(* Admission publishes a request that has made nothing.                    *)
LEMMA AddCommitBounded ==
  ASSUME IInv, Orderly, Flowing, Bounded, OwnIds, AddCommit
  PROVE  Bounded'
<1>1. PICK r \in Ids :
        /\ Adding(r) /\ step' = [step EXCEPT !.at = "free", !.adding = None]
        /\ \A x \in Ids \ {r} : client'[x] = client[x]
        /\ client'[r] = [client[r] EXCEPT !.at = IF client[r].at = "cancelled" THEN "leaving" ELSE "reading"]
        /\ sched'.commits = [sched.commits EXCEPT ![r] = @ + 1]
        /\ sched'.made = sched.made /\ sched'.row = sched.row /\ sched'.processed = sched.processed
        /\ sched'.running = sched.running /\ sched'.failures = sched.failures
        /\ sched'.orphans = [sched.orphans EXCEPT ![r] = None]
        /\ \A x \in Ids : Queued(sched', x) <=> Queued(sched, x) \/ x = r
  BY AddCommitEffect
<1>2. step'.admitting = step.admitting /\ step'.attempt = step.attempt
  BY <1>1, OrderlyFacts DEF StepType
<1>3. Limits'  BY <1>1, <1>2 DEF AddCommit, Bounded, Limits
<1>4. /\ \A x \in Ids : sched'.orphans[x] \in {sched.orphans[x], None}
      /\ \A x \in Ids \ {r} : sched'.commits[x] = sched.commits[x]
      /\ sched.commits[r] = 0 /\ sched'.commits[r] # 0
      /\ client'[r].fate = client[r].fate
  BY <1>1, OrderlyFacts DEF SchedulerType, Life, ClientShape, ClientRecord
<1>5. \A x \in Ids \ {r} : Within(x)'
  <2> SUFFICES ASSUME NEW x \in Ids \ {r}  PROVE Within(x)'
    OBVIOUS
  <2>1. Within(x) /\ client'[x].fate \in Fates  BY <1>1 DEF Bounded, Within
  <2> QED  BY <1>1, <1>2, <1>4, <2>1, WithinFrame DEF MadeFor, Queued, InHand
<1>6. Within(r)'
  <2>1. Within(r)  BY DEF Bounded
  <2>2. MadeFor(r) = 0 /\ MadeFor(r)' = 0  BY <1>1, <1>4, FlowFacts DEF Flows, MadeFor
  <2>3. sched'.processed[r] = 0  BY <1>1, <1>4, <2>1 DEF Within
  <2> QED  BY <1>1, <1>4, <2>1, <2>2, <2>3, BoundsAssumption DEF Within
<1> QED  BY <1>3, <1>5, <1>6 DEF Bounded

(* Insertion starts a row.                                                 *)
LEMMA InsertBounded ==
  ASSUME IInv, Orderly, Bounded, OwnIds, Insert
  PROVE  Bounded'
<1>1. UNCHANGED <<client, paused>> /\ step.at = "insert"
      /\ step' = [step EXCEPT !.at = "admit", !.admitting = None]
  BY DEF Insert
<1>2. PICK r \in Ids : InHand(r)  BY <1>1, Inserted
<1>3. /\ sched'.commits = sched.commits
      /\ sched'.made = sched.made /\ sched'.processed = sched.processed
      /\ sched'.failures = sched.failures
      /\ sched'.waiting = sched.waiting /\ sched'.orphans = sched.orphans
      /\ sched'.running = [sched.running EXCEPT ![r] = Obj(r)]
      /\ sched'.row = [sched.row EXCEPT ![Obj(r)] = 0]
  BY <1>2, InsertEffect, OrderlyFacts
<1>4. step'.admitting = None /\ step'.attempt = step.attempt
  BY <1>1, OrderlyFacts DEF StepType
<1>5. Limits'  BY <1>1, <1>3, <1>4 DEF Bounded, Limits
<1>6. \A x \in Ids : ~InHand(x)' /\ (Queued(sched, x)' <=> Queued(sched, x))
  BY <1>3, <1>4, ObjFacts DEF InHand, Queued
<1>7. /\ sched'.row[Obj(r)] = 0
      /\ \A x \in Ids \ {r} : /\ sched'.running[x] = sched.running[x]
                              /\ sched'.row[Obj(x)] = sched.row[Obj(x)]
  BY <1>3, ObjFacts, OrderlyFacts DEF SchedulerType
<1>8. \A x \in Ids \ {r} : Within(x)'
  <2> SUFFICES ASSUME NEW x \in Ids \ {r}  PROVE Within(x)'
    OBVIOUS
  <2>1. Within(x) /\ client'[x].fate \in Fates  BY <1>1 DEF Bounded, Within
  <2> QED  BY <1>3, <1>6, <1>7, <2>1, WithinFrame DEF MadeFor
<1>9. Within(r)'
  <2>1. Within(r) /\ Occupies(r) /\ MadeFor(r)' = MadeFor(r)
    BY <1>2, <1>3 DEF Bounded, Occupies, MadeFor
  <2>2. MadeFor(r) < MaxTokens /\ sched.processed[r] = 0
    BY <1>2, <2>1 DEF Within
  <2>3. ~Queued(sched, r)  BY <1>2, OrderlyFacts DEF Place
  <2> QED
    BY <1>1, <1>3, <1>6, <1>7, <2>1, <2>2, <2>3, BoundsAssumption DEF Within
<1> QED  BY <1>5, <1>8, <1>9 DEF Bounded

(* A row ends with its cap.                                                *)
LEMMA DecodeBounded ==
  ASSUME IInv, Orderly, Flowing, Bounded, OwnIds, Decode
  PROVE  Bounded'
<1>1. PICK ends \in [Rows -> {"no", "stop", "length", "repetition"}] :
        LET Done(x) == Decoding(x) /\ ends[Obj(x)] # "no" IN
        /\ sched'.commits = sched.commits /\ sched'.failures = 0
        /\ sched'.waiting = sched.waiting /\ sched'.orphans = sched.orphans
        /\ \A x \in Ids :
             /\ Decoding(x) => ends[Obj(x)] \in Ending(Obj(x))
             /\ sched'.running[x] = IF Done(x) THEN None ELSE sched.running[x]
             /\ sched'.processed[x] = sched.processed[x] + IF Done(x) THEN 1 ELSE 0
             /\ sched'.made[Obj(x)] = sched.made[Obj(x)] + IF Decoding(x) THEN 1 ELSE 0
             /\ sched'.row[Obj(x)] = IF Done(x) THEN 0
                                     ELSE sched.row[Obj(x)] + IF Decoding(x) THEN 1 ELSE 0
  BY DecodeEffect, OrderlyFacts
<1>2. step' = Free /\ UNCHANGED <<client, paused>>  BY DEF Decode, EndStep
<1>3. Limits'  BY <1>1, <1>2, BoundsAssumption DEF Limits, Free, Bounded
<1>4. \A x \in Ids : ~InHand(x)' /\ (Queued(sched, x)' <=> Queued(sched, x))
  BY <1>1, <1>2, ObjFacts DEF InHand, Queued, Free
<1>5. ASSUME NEW x \in Ids  PROVE Within(x)'
  <2>1. /\ Within(x) /\ client'[x].fate \in Fates /\ client[x].fate \in Fates
        /\ sched'.commits[x] = sched.commits[x]
    BY <1>1, <1>2 DEF Bounded, Within
  <2>2. CASE ~Decoding(x)
    <3>1. /\ sched'.running[x] = sched.running[x] /\ sched'.processed[x] = sched.processed[x] + 0
          /\ MadeFor(x)' = MadeFor(x) + 0 /\ sched'.row[Obj(x)] = sched.row[Obj(x)] + 0
      BY <1>1, <2>2 DEF MadeFor
    <3>2. sched.processed[x] \in Int /\ MadeFor(x) \in Int /\ sched.row[Obj(x)] \in Int
      BY <2>1, OrderlyFacts DEF SchedulerType, Within
    <3> QED  BY <1>1, <1>4, <2>1, <3>1, <3>2, WithinFrame
  <2>3. CASE Decoding(x)
    <3> DEFINE e == ends[Obj(x)]
    <3>1. e \in Ending(Obj(x))  BY <1>1, <2>3
    <3>2. /\ sched'.running[x] = IF e # "no" THEN None ELSE sched.running[x]
          /\ sched'.processed[x] = sched.processed[x] + IF e # "no" THEN 1 ELSE 0
          /\ MadeFor(x)' = MadeFor(x) + 1
          /\ sched'.row[Obj(x)] = IF e # "no" THEN 0 ELSE sched.row[Obj(x)] + 1
      BY <1>1, <2>3 DEF MadeFor
    <3>3. e = "no" => sched.row[Obj(x)] + 1 # MaxTokens  BY <3>1 DEF Ending
    <3> HIDE DEF e
    <3>4. sched.running[x] # None /\ Occupies(x)  BY <2>3 DEF Decoding, Occupies
    <3>5. ~Queued(sched, x) /\ sched.commits[x] # 0  BY <3>4, OrderlyFacts DEF Place
    <3>6. /\ MadeFor(x) \in Nat /\ sched.row[Obj(x)] \in Nat /\ sched.row[Obj(x)] < MaxTokens
          /\ MadeFor(x) < sched.row[Obj(x)] + MaxTokens /\ sched.processed[x] = 0
          /\ MaxTokens \in Nat
      BY <2>1, <3>4, BoundsAssumption DEF Within
    <3>7. ~Queued(sched, x)' /\ ~InHand(x)'  BY <1>4, <3>5
    <3>8. /\ MadeFor(x)' \in 0..(2 * MaxTokens - 1) /\ sched'.row[Obj(x)] \in 0..MaxTokens
          /\ sched'.running[x] # None => /\ sched'.row[Obj(x)] < MaxTokens
                                         /\ MadeFor(x)' < sched'.row[Obj(x)] + MaxTokens
      BY <3>2, <3>3, <3>6
    <3>9. sched'.processed[x] # 0 => sched'.processed[x] = 1 /\ ~Occupies(x)'
      BY <3>2, <3>6, <3>7 DEF Occupies
    <3>10. sched'.orphans[x] = sched.orphans[x]  BY <1>1
    <3> QED  BY <2>1, <3>5, <3>7, <3>8, <3>9, <3>10 DEF Within
  <2> QED  BY <2>2, <2>3
<1> QED  BY <1>3, <1>5 DEF Bounded

(* The event loop.                                                         *)
LEMMA AbortsBounded ==
  ASSUME IInv, Orderly, Bounded, OwnIds, UNCHANGED step, paused' \in BOOLEAN,
         Kept(sched, sched'), SamePlaces(sched, sched'), sched'.failures = sched.failures,
         \A x \in Ids : client'[x].fate \in Fates
  PROVE  Bounded'
<1>1. Limits'  BY DEF Bounded, Limits
<1>2. \A x \in Ids : Within(x)'
  BY WithinFrame DEF Bounded, Kept, SamePlaces, MadeFor, Queued, InHand
<1> QED  BY <1>1, <1>2 DEF Bounded

LEMMA ClientBounded ==
  ASSUME IInv, Orderly, Flowing, Bounded, OwnIds, NEW r \in Ids, Client(r) \/ Outside(r)
  PROVE  Bounded'
<1>0. UNCHANGED <<step, paused>> /\ Limits
  BY DEF Bounded, Client, Outside, Read, Return, Finally, Cleanup, Submit, Withdraw, Disconnect,
         ForceAbort, RecordDisconnect, CancelRequest
<1>1. \A x \in Ids : client[x].fate \in Fates  BY DEF Bounded, Within
<1>2. \A x \in Ids : client'[x].fate \in Fates
  <2>1. CASE Submit(r)  BY <1>1, <2>1, SubmitFlow DEF Fates
  <2>2. CASE Read(r)  BY <1>1, <2>2, ReadFlow DEF Fates, EndOf
  <2>3. CASE Return(r)  BY <1>1, <2>3, ReturnFlow DEF Fates, EndOf
  <2>4. CASE Cleanup(r)  BY <1>1, <2>4, CleanupFlow
  <2>5. CASE Withdraw(r) \/ Disconnect(r) \/ Finally(r) \/ ForceAbort(r) \/ RecordDisconnect(r)
    BY <1>1, <2>5, MovedFlow DEF Fates
  <2>6. CASE CancelRequest(r)  BY <1>1, <2>6 DEF CancelRequest
  <2> QED  BY <2>1, <2>2, <2>3, <2>4, <2>5, <2>6 DEF Client, Outside
<1>3. CASE Cleanup(r)
  <2>1. sched' = RemoveRequest(sched, r)  BY <1>3 DEF Cleanup
  <2>2. /\ sched'.commits = sched.commits /\ sched'.made = sched.made /\ sched'.row = sched.row
        /\ sched'.processed = sched.processed /\ sched'.waiting = sched.waiting
        /\ sched'.running = sched.running /\ sched'.failures = sched.failures
        /\ sched'.orphans \in {sched.orphans, [sched.orphans EXCEPT ![r] = sched.requests[r]]}
    BY <2>1, RemoveEffect, OrderlyFacts
  <2>3. Limits'  BY <1>0, <2>2 DEF Limits
  <2>4. \A x \in Ids : sched'.orphans[x] \in {sched.orphans[x], sched.requests[x]}
    BY <2>2, OrderlyFacts DEF SchedulerType
  <2>5. ASSUME NEW x \in Ids  PROVE Within(x)'
    <3>1. sched'.orphans[x] \in {None, Obj(x)}
      BY <2>4, OrderlyFacts DEF Bounded, Within, Life
    <3>2. Occupies(x)' <=> Occupies(x)  BY <1>0, <2>2 DEF Occupies, Queued, InHand
    <3> QED
      BY <1>0, <1>2, <2>2, <3>1, <3>2 DEF Bounded, Within, MadeFor, Queued, InHand
  <2> QED  BY <2>3, <2>5 DEF Bounded
<1>4. CASE ~Cleanup(r)
  <2>1. Kept(sched, sched') /\ SamePlaces(sched, sched') /\ sched'.failures = sched.failures
    <3>1. CASE RecordDisconnect(r)
      BY <3>1, AttributeEffect, OrderlyFacts DEF RecordDisconnect
    <3>2. CASE Finally(r) \/ ForceAbort(r) \/ CancelRequest(r)
      <4>1. {r} \in SUBSET Ids /\ sched' = Enqueue(sched, {r})
        BY <3>2 DEF Finally, ForceAbort, CancelRequest
      <4> QED  BY <4>1, EnqueueEffect, OrderlyFacts
    <3>3. CASE Read(r) \/ Return(r) \/ Submit(r) \/ Withdraw(r) \/ Disconnect(r)
      BY <3>3 DEF Read, Return, Submit, Withdraw, Disconnect, Kept, SamePlaces
    <3> QED  BY <1>4, <3>1, <3>2, <3>3 DEF Client, Outside
  <2> QED  BY <1>0, <1>2, <2>1, AbortsBounded DEF Limits
<1> QED  BY <1>3, <1>4

LEMMA EngineLoopBounded ==
  ASSUME IInv, Orderly, Bounded, OwnIds, Pause \/ Loop
  PROVE  Bounded'
<1>1. UNCHANGED <<client, step>> /\ paused' \in BOOLEAN
  BY DEF Bounded, Limits, Pause, Loop, Dispatch, Deliver, Recover, DeliverFailures, Synthesise
<1>2. Kept(sched, sched') /\ SamePlaces(sched, sched') /\ sched'.failures = sched.failures
  <2>1. CASE Synthesise
    <3>1. PICK R \in SUBSET Ids : sched' = Enqueue(sched, R)  BY <2>1 DEF Synthesise
    <3> QED  BY <3>1, EnqueueEffect, OrderlyFacts
  <2>2. CASE ~Synthesise
    BY <2>2 DEF Pause, Loop, Dispatch, Deliver, Recover, DeliverFailures, Kept, SamePlaces
  <2> QED  BY <2>1, <2>2
<1>3. \A x \in Ids : client'[x].fate \in Fates  BY <1>1 DEF Bounded, Within
<1> QED  BY <1>1, <1>2, <1>3, AbortsBounded

LEMMA ModestBounded ==
  ASSUME IInv, Orderly, Flowing, Bounded, OwnIds, Modest
  PROVE  Bounded'
<1>1. ModestOutcome  BY ModestEffect DEF Bounded
<1>2. \A x \in Ids : client'[x].fate \in Fates
  <2>0. \A x \in Ids : client[x].fate \in Fates /\ MadeFor(x) \in Nat
    BY FlowFacts DEF Bounded, Within
  <2>1. CASE Quiet
    BY <2>0, <2>1, QuietEffect DEF QuietOutcome, Returned, Fates
  <2>2. CASE DecodeNothing \/ FailOwn \/ FailStep \/ FailJob
    BY <2>0, <2>2 DEF DecodeNothing, FailOwn, FailStep, FailJob, EndStep
  <2> QED  BY <2>1, <2>2 DEF Modest, Quiet
<1>3. \A x \in Ids : Within(x)'
  BY <1>1, <1>2, WithinFrame DEF Bounded, ModestOutcome, MadeFor
<1> QED  BY <1>1, <1>3 DEF Bounded, ModestOutcome

LEMMA BoundedPreserved ==
  ASSUME OwnIds, IInv, Orderly, Flowing, Bounded, [Next]_vars
  PROVE  Bounded'
<1>1. CASE UNCHANGED vars
  <2>1. UNCHANGED <<client, sched, step, paused>>  BY <1>1 DEF vars
  <2>2. \A x \in Ids : client'[x].fate \in Fates  BY <2>1 DEF Bounded, Within
  <2> QED  BY <2>1, <2>2, AbortsBounded DEF Bounded, Limits, Kept, SamePlaces
<1>2. CASE Pause \/ Loop  BY <1>2, EngineLoopBounded
<1>3. ASSUME NEW r \in Ids, Client(r) \/ Outside(r)  PROVE Bounded'
  BY <1>3, ClientBounded
<1>4. CASE Worker
  BY <1>4, ModestBounded, AddCommitBounded, InsertBounded, DecodeBounded DEF Worker, Modest
<1> QED  BY <1>1, <1>2, <1>3, <1>4 DEF Next

LEMMA TypesFollow ==
  ASSUME OwnIds, IInv, Orderly, Flowing, Bounded, CountedOnce
  PROVE  TypeOK
<1> DEFINE N == 2 * MaxTokens
<1>0. MaxTokens \in Nat /\ MaxLife = 1 /\ None \notin OutType
  BY BoundsAssumption, OutFacts DEF OwnIds
<1>1. ASSUME NEW x \in Ids  PROVE
        /\ client[x].at \in {"idle", "adding", "cancelled", "reading", "closing", "leaving", "gone"}
        /\ client[x].life \in 0..MaxLife /\ client[x].got \in 0..N
        /\ client[x].fate \in {"none", "done", "failed", "left", "cancelled"}
  <2>1. Life(x) /\ Flows(x) /\ Within(x)  BY OrderlyFacts, FlowFacts DEF Bounded
  <2> QED  BY <1>0, <2>1 DEF Life, Flows, Within, Fates
<1>2. ASSUME NEW x \in Ids  PROVE
        /\ stream[x].out \in OutputOrNone /\ stream[x].buf \in OutputOrNone
        /\ produced[x] \in OutputOrNone
        /\ stream[x].sent \in 0..N /\ stream[x].event \in BOOLEAN
  <2>1. /\ Flows(x) /\ MadeFor(x) \in 0..N /\ stream[x].event \in BOOLEAN
        /\ Count(stream[x].out) \in Nat /\ Count(stream[x].buf) \in Nat /\ Count(produced[x]) \in Nat
    BY <1>0, FlowFacts DEF Bounded, Within
  <2>2. /\ Count(stream[x].out) \in 0..N /\ Count(stream[x].buf) \in 0..N
        /\ Count(produced[x]) \in 0..N
        /\ {Total(stream[x].out), Total(stream[x].buf), Total(produced[x])} \subseteq 0..N
    BY <1>0, <2>1 DEF Flows, OnTheWay
  <2>3. ASSUME NEW o \in OutOrNone, Count(o) \in 0..N, Total(o) \in 0..N
        PROVE  o \in OutputOrNone
    <3>1. CASE o = None  BY <3>1 DEF OutputOrNone
    <3>2. CASE o \in OutType
      <4>1. o.n \in 0..N /\ o.total \in 0..N  BY <1>0, <2>3, <3>2 DEF Count, Total
      <4> QED  BY <3>2, <4>1 DEF OutputOrNone, Outputs, OutType
    <3> QED  BY <3>1, <3>2 DEF OutOrNone
  <2>4. /\ stream[x].out \in OutputOrNone /\ stream[x].buf \in OutputOrNone
        /\ produced[x] \in OutputOrNone
    BY <2>2, <2>3, FlowFacts
  <2> QED  BY <1>0, <2>1, <2>4 DEF Flows
<1>3. ASSUME NEW x \in Ids  PROVE
        /\ sched.requests[x] \in ObjectOrNone /\ sched.running[x] \in ObjectOrNone
        /\ sched.orphans[x] \in ObjectOrNone
        /\ \A o \in {sched.requests[x], sched.running[x], sched.orphans[x]} : o # None => o[1] = x
        /\ sched.lease[x] \in {"none", "held", "stored"}
        /\ {sched.commits[x], sched.cancels[x], sched.via[x], sched.processed[x]} \subseteq 0..MaxLife
  <2>1. Life(x) /\ Place(x) /\ Within(x) /\ sched \in SchedulerType
    BY OrderlyFacts DEF Bounded
  <2>2. Obj(x)[1] = x /\ Obj(x) \in Objects  BY ObjFacts
  <2>3. /\ sched.requests[x] \in {None, Obj(x)} /\ sched.running[x] \in {None, Obj(x)}
        /\ sched.orphans[x] \in {None, Obj(x)}
    BY <2>1 DEF Life, Place, Within
  <2>4. {sched.commits[x], sched.cancels[x], sched.via[x], sched.processed[x]} \subseteq 0..MaxLife
    <3>1. /\ sched.commits[x] \in Nat /\ sched.cancels[x] \in Nat /\ sched.via[x] \in Nat
          /\ sched.processed[x] \in {0, 1}
      BY <2>1 DEF SchedulerType, Within
    <3>2. sched.commits[x] <= 1  BY <2>1 DEF Life
    <3>3. sched.via[x] <= sched.cancels[x] /\ sched.cancels[x] <= sched.commits[x]
      BY DEF CountedOnce
    <3> QED  BY <1>0, <3>1, <3>2, <3>3
  <2>5. sched.lease[x] \in {"none", "held", "stored"}  BY <2>1 DEF SchedulerType, Leases
  <2> QED  BY <2>2, <2>3, <2>4, <2>5 DEF ObjectOrNone
<1>4. \A o \in Objects : /\ sched.status[o] \in Statuses
                         /\ sched.made[o] \in 0..N /\ sched.row[o] \in 0..MaxTokens
  <2> SUFFICES ASSUME NEW x \in Ids
               PROVE  /\ sched.status[Obj(x)] \in Statuses
                      /\ sched.made[Obj(x)] \in 0..N /\ sched.row[Obj(x)] \in 0..MaxTokens
    BY ObjFacts
  <2>1. Within(x) /\ sched \in SchedulerType /\ Obj(x) \in Objects
    BY OrderlyFacts, ObjFacts DEF Bounded
  <2> QED  BY <1>0, <2>1 DEF Within, SchedulerType, MadeFor
<1>5. /\ ToSet(sched.waiting) \cup sched.prefilling \subseteq Objects
      /\ sched.pending \cup sched.counted \cup sched.attributed \subseteq Ids
      /\ sched.failures \in 0..FatalAfter
  BY InToSet, OrderlyFacts DEF SchedulerType, Bounded, Limits
<1>6. /\ \A i \in DOMAIN jobs : jobs[i].do \in {"add", "step", "fail"} /\ jobs[i].obj \in ObjectOrNone
      /\ step.at \in {"free", "add", "drain", "reconcile", "admit", "insert", "decode"}
      /\ {step.adding, step.admitting} \subseteq ObjectOrNone /\ step.ghosts \subseteq Objects
      /\ step.attempt \in 0..1
  <2>1. \A i \in DOMAIN jobs : jobs[i] \in JobType  BY OrderlyFacts
  <2>2. \A i \in DOMAIN jobs : jobs[i].do \in {"add", "step", "fail"} /\ jobs[i].obj \in ObjectOrNone
    BY <2>1 DEF JobType, ObjectOrNone
  <2> QED  BY <2>2, OrderlyFacts DEF StepType, Bounded, Limits
<1>7. /\ loop \in {"idle", "awaiting", "delivering", "raised", "failed", "unrecovered"}
      /\ paused \in BOOLEAN
  BY OrderlyFacts DEF Turns, Bounded, Limits
<1> QED  BY <1>1, <1>2, <1>3, <1>4, <1>5, <1>6, <1>7 DEF TypeOK

(* With ids of their own, and whatever happens: the scheduler's maps and   *)
(* orphans relate ids to their own objects, a request retried after cache  *)
(* corruption makes less than twice its cap and is delivered no more, the  *)
(* failures in a row stop at the limit, and no counter passes one.         *)
THEOREM TypesHold ==
  ASSUME OwnIds
  PROVE  Spec => []TypeOK
<1>1. Init => IInv /\ Orderly /\ Flowing /\ Bounded
  BY InitHolds, OrderlyInit, FlowInit, BoundedInit
<1>2. IInv /\ Orderly /\ Flowing /\ Bounded /\ [Next]_vars => (IInv /\ Orderly /\ Flowing /\ Bounded)'
  BY NextPreserves, OrderlyPreserved, FlowingPreserved, BoundedPreserved
<1>3. IInv /\ Orderly /\ Flowing /\ Bounded /\ CountedOnce => TypeOK  BY TypesFollow
<1> QED  BY <1>1, <1>2, <1>3, CancellationsCountedOnce, PTL DEF Spec

-----------------------------------------------------------------------------
(* Corruption met while inserting starts admission over without the        *)
(* request that was being inserted.                                        *)
InsertsWhole == "insertCorrupt" \notin Faults

(* Corruption met while decoding sends a request that has tokens back to   *)
(* the queue; after a recovery that raised it may be answered already.     *)
RetriesAlone == Recovers \/ "decodeCorrupt" \notin Faults

(* The request of a client that waits is in the scheduler, or its last     *)
(* output is produced or in its collector.                                 *)
Lives(x) ==
  \/ Queued(sched, x) \/ sched.running[x] # None
  \/ InHand(x) /\ (step.at = "insert" \/ RaisedNow \/ loop = "unrecovered")

(* The aborts that are queued are processed before anything else.          *)
DrainedFirst ==
  step.at \in {"free", "add", "drain"} /\ loop \in {"idle", "awaiting"} /\ ~FailQueued

Waits(x) ==
  LET at == client[x].at
      s == stream[x]
      p == produced[x]
  IN  /\ at = "reading" => Lives(x) \/ Terminal(p) \/ Terminal(s.out)
      /\ at = "reading" /\ x \in sched.pending => Terminal(s.out) /\ DrainedFirst
      /\ p # None => IF Finished(p) THEN at = "reading" => ~Occupies(x)
                                    ELSE sched.running[x] # None
      /\ s.event /\ at \in {"adding", "cancelled"} => ~Recovers /\ Terminal(s.out)
      /\ s.event /\ at = "reading" =>
           /\ Occupies(x) => ~Recovers
           /\ Queued(sched, x) \/ InHand(x) => Terminal(s.out)

(* A step is failed only after it raised, and left unrecovered only when   *)
(* its recovery raised too.                                                *)
Reasoned == /\ RaisedNow => "raise" \in Faults
            /\ loop = "unrecovered" => ~Recovers

Awaited == FailuresFinish /\ Reasoned /\ \A x \in Ids : Waits(x)

LEMMA WaitsFrame ==
  ASSUME NEW x \in Ids, Waits(x), stream'[x] = stream[x], produced'[x] = produced[x],
         client'[x].at = "reading" =>
           /\ client[x].at = "reading" /\ (Lives(x) => Lives(x)')
           /\ x \in sched'.pending => x \in sched.pending /\ (DrainedFirst => DrainedFirst'),
         client'[x].at \in {"adding", "cancelled"} => client[x].at \in {"adding", "cancelled"},
         produced[x] # None /\ sched.running[x] # None => sched'.running[x] # None,
         Occupies(x)' => Occupies(x),
         Queued(sched, x)' \/ InHand(x)' => Queued(sched, x) \/ InHand(x) \/ Recovers
  PROVE  Waits(x)'
<1> DEFINE s == stream[x]
           p == produced[x]
<1>1. /\ client'[x].at = "reading" => Lives(x)' \/ Terminal(p) \/ Terminal(s.out)
      /\ client'[x].at = "reading" /\ x \in sched'.pending => Terminal(s.out) /\ DrainedFirst'
  BY DEF Waits
<1>2. p # None => IF Finished(p) THEN client'[x].at = "reading" => ~Occupies(x)'
                                 ELSE sched'.running[x] # None
  BY DEF Waits
<1>3. s.event /\ client'[x].at \in {"adding", "cancelled"} => ~Recovers /\ Terminal(s.out)
  BY DEF Waits
<1>4. s.event /\ client'[x].at = "reading" => (Occupies(x)' => ~Recovers)
  BY DEF Waits
<1>5. s.event /\ client'[x].at = "reading" /\ (Queued(sched, x)' \/ InHand(x)') => Terminal(s.out)
  BY DEF Waits, Occupies
<1> QED  BY <1>1, <1>2, <1>3, <1>4, <1>5 DEF Waits

LEMMA WaitsFacts ==
  ASSUME Awaited, IInv, Orderly, Flowing, OwnIds
  PROVE  /\ FailuresFinish /\ Reasoned
         /\ \A x \in Ids :
              /\ Waits(x)
              /\ sched.commits[x] = 0 => produced[x] = None /\ x \notin sched.pending
              /\ client[x].at = "reading" => sched.requests[x] = Obj(x) /\ sched.commits[x] # 0
              /\ client[x].at \in {"adding", "cancelled"} => sched.commits[x] = 0
<1>1. \A x \in Ids : sched.commits[x] = 0 => x \notin sched.pending
  BY DEF IInv, Good, Knows, AbortKnown
<1>2. \A x \in Ids : /\ client[x].at = "reading" => sched.requests[x] = Obj(x) /\ sched.commits[x] # 0
                     /\ client[x].at \in {"adding", "cancelled"} => sched.commits[x] = 0
  BY OrderlyFacts DEF Life
<1> QED  BY <1>1, <1>2, FlowFacts DEF Awaited, Flows

LEMMA AwaitedInit == OwnIds /\ Init => Awaited
<1> SUFFICES ASSUME OwnIds, Init  PROVE Awaited
  OBVIOUS
<1>1. FailuresFinish /\ Reasoned
  BY DEF Init, FailuresFinish, Reasoned, RaisedNow, FailQueued
<1>2. \A x \in Ids : Waits(x)
  BY DEF Init, Waits, Fresh, Nothing
<1> QED  BY <1>1, <1>2 DEF Awaited

(* The engine loop.                                                        *)
LEMMA DispatchAwaited ==
  ASSUME IInv, Orderly, Flowing, Awaited, OwnIds, Pause \/ Dispatch \/ Recover
  PROVE  Awaited'
<1>1. /\ UNCHANGED <<client, stream, sched, step, produced>>
  BY DEF Pause, Dispatch, Recover
<1>2. CASE Pause
  <2>1. UNCHANGED <<jobs, loop>>  BY <1>2 DEF Pause
  <2> QED  BY <1>1, <2>1 DEF Awaited, FailuresFinish, Reasoned, RaisedNow, FailQueued, Waits,
              Lives, Queued, InHand, Occupies, DrainedFirst
<1>3. CASE Dispatch \/ Recover
  <2>1. PICK d \in {"step", "fail"} :
          /\ jobs' = Append(jobs, [do |-> d, obj |-> None])
          /\ d = "step" => loop = "idle"
          /\ d = "fail" => loop = "raised"
    BY <1>3 DEF Dispatch, Recover
  <2>2. loop' = "awaiting" /\ Adds /\ jobs \in Seq(JobType) /\ SubmittedOnce /\ Lone
    BY <1>3, <2>1, OrderlyFacts DEF Dispatch, Recover, Turns
  <2> DEFINE job == [do |-> d, obj |-> None]
  <2>3. job \in JobType /\ job.do = d /\ job.do # "add"  BY DEF JobType
  <2> HIDE DEF job
  <2>4. FailQueued' <=> FailQueued \/ d = "fail"
    BY <2>1, <2>2, <2>3, JobAdded DEF job
  <2>5. ~FailQueued  BY <2>2 DEF Adds, FailQueued
  <2>6. \A x \in Ids : Lives(x) => Lives(x)'
    BY <1>1, <2>1, <2>2, <2>4 DEF Lives, Queued, InHand, RaisedNow
  <2>7. DrainedFirst => DrainedFirst'
    BY <1>1, <2>1, <2>2, <2>4, <2>5 DEF DrainedFirst
  <2>8. \A x \in Ids : Waits(x)'
    BY <1>1, <2>6, <2>7, WaitsFrame, WaitsFacts DEF Queued, InHand, Occupies
  <2>9. FailuresFinish' /\ Reasoned'
    BY <2>1, <2>2, <2>4, <2>5, WaitsFacts DEF FailuresFinish, Reasoned, RaisedNow
  <2> QED  BY <2>8, <2>9 DEF Awaited
<1> QED  BY <1>2, <1>3

LEMMA DeliverAwaited ==
  ASSUME IInv, Orderly, Flowing, Awaited, OwnIds, Deliver \/ DeliverFailures
  PROVE  Awaited'
<1>1. /\ UNCHANGED <<client, sched, step, jobs>> /\ produced' = Nothing /\ loop' = "idle"
      /\ loop \in {"delivering", "failed"} /\ (loop = "delivering" => Deliver)
      /\ loop = "failed" => DeliverFailures
  BY DEF Deliver, DeliverFailures
<1>2. FailuresFinish' /\ Reasoned'
  BY <1>1, WaitsFacts DEF FailuresFinish, Nothing, Reasoned, RaisedNow, FailQueued
<1>3. ~FailQueued  BY <1>1, OrderlyFacts DEF Turns, Adds, FailQueued
<1>4. ASSUME NEW x \in Ids  PROVE Waits(x)'
  <2> DEFINE p == produced[x]
             s == stream[x]
             t == stream'[x]
  <2>1. /\ Waits(x) /\ Flows(x) /\ Place(x) /\ produced'[x] = None /\ Ready(s)
        /\ (client[x].at \in {"adding", "cancelled"} => p = None)
    BY <1>1, WaitsFacts, FlowFacts, OrderlyFacts DEF Nothing
  <2>2. /\ Occupies(x)' <=> Occupies(x)
        /\ Queued(sched, x)' <=> Queued(sched, x)
        /\ InHand(x)' <=> InHand(x)
    BY <1>1 DEF Occupies, Queued, InHand
  <2>3. client[x].at = "reading" => x \notin sched.pending
    BY <1>1, <2>1 DEF Waits, DrainedFirst
  <2>4. CASE p = None
    <3>1. t = s  BY <1>1, <2>4 DEF Deliver, DeliverFailures
    <3>2. Lives(x) => Lives(x)'
      BY <1>1, <1>3, <2>2 DEF Lives, RaisedNow
    <3>3. produced'[x] = produced[x]  BY <2>1, <2>4
    <3> QED  BY <1>1, <2>1, <2>2, <2>3, <3>1, <3>2, <3>3, WaitsFrame
  <2>5. CASE p # None /\ client[x].at # "reading"
    BY <1>1, <2>1, <2>5 DEF Waits
  <2>6. CASE p # None /\ client[x].at = "reading"
    <3>1. p \in OutType /\ (p.err # "none" => Finished(p)) /\ Tracked(x)
      BY <2>1, <2>6, FlowFacts, OutFacts DEF Flows, Tracked
    <3>2. CASE Finished(p)
      <4>1. Terminal(t.out)
        <5>1. CASE loop = "delivering"
          <6> DEFINE d == Delivered(s, p)
          <6>1. d.out # None /\ Finished(d.out)  BY <2>1, <3>1, <3>2, DeliveredFlow
          <6>2. t = d
            <7>1. stream' = [r \in Ids |-> IF produced[r] # None /\ Tracked(r)
                                           THEN Delivered(stream[r], produced[r]) ELSE stream[r]]
              BY <1>1, <5>1 DEF Deliver
            <7> QED  BY <2>6, <3>1, <7>1
          <6> HIDE DEF d
          <6> QED  BY <6>1, <6>2 DEF Terminal
        <5>2. CASE loop = "failed"
          <6> DEFINE d == Answered(s, p)
          <6>1. d.out # None  BY <2>1, <3>1, AnsweredFlow
          <6>2. Finished(d.out)  BY <2>1, <3>2, AnsweredFacts DEF Ready
          <6>3. t = d
            <7>1. stream' = [r \in Ids |-> IF produced[r] # None /\ Tracked(r)
                                           THEN Answered(stream[r], produced[r]) ELSE stream[r]]
              BY <1>1, <5>2 DEF DeliverFailures
            <7> QED  BY <2>6, <3>1, <7>1
          <6> HIDE DEF d
          <6> QED  BY <6>1, <6>2, <6>3 DEF Terminal
        <5> QED  BY <1>1, <5>1, <5>2
      <4>2. ~Occupies(x)  BY <2>1, <2>6, <3>2 DEF Waits
      <4> QED  BY <1>1, <2>1, <2>2, <2>3, <2>6, <4>1, <4>2 DEF Waits, Occupies
    <3>3. CASE ~Finished(p)
      <4>1. loop = "delivering"  BY <1>1, <2>6, <3>3, WaitsFacts DEF FailuresFinish
      <4> DEFINE d == Delivered(s, p)
      <4>2. d.event <=> s.event  BY <2>1, <3>1, <3>3, DeliveredFlow
      <4>3. t = d
        <5>1. stream' = [r \in Ids |-> IF produced[r] # None /\ Tracked(r)
                                       THEN Delivered(stream[r], produced[r]) ELSE stream[r]]
          BY <1>1, <4>1 DEF Deliver
        <5> QED  BY <2>6, <3>1, <5>1
      <4> HIDE DEF d
      <4>4. sched.running[x] # None  BY <2>1, <2>6, <3>3 DEF Waits
      <4>5. Lives(x)' /\ ~Queued(sched, x) /\ ~InHand(x)
        BY <1>1, <2>1, <4>4 DEF Lives, Place
      <4> QED  BY <1>1, <2>1, <2>2, <2>3, <2>6, <4>2, <4>3, <4>5 DEF Waits
    <3> QED  BY <3>2, <3>3
  <2> QED  BY <2>4, <2>5, <2>6
<1> QED  BY <1>2, <1>4 DEF Awaited

LEMMA SynthesiseAwaited ==
  ASSUME IInv, Orderly, Flowing, Awaited, OwnIds, Synthesise
  PROVE  Awaited'
<1> DEFINE R == {x \in Ids : Tracked(x) /\ ~stream[x].event}
           o == Out(0, 0, "length", "failure")
<1>1. /\ UNCHANGED <<client, step, jobs>> /\ produced' = produced /\ produced = Nothing
      /\ loop' = "idle" /\ loop = "unrecovered" /\ sched' = Enqueue(sched, R) /\ Between /\ Adds
      /\ stream' = [x \in Ids |-> IF x \in R THEN Answered(stream[x], o) ELSE stream[x]]
  BY OrderlyFacts DEF Synthesise, Turns
<1>2. /\ Kept(sched, sched') /\ SamePlaces(sched, sched')
      /\ sched'.pending = sched.pending \cup {x \in R : AbortKnown(sched, x)}
  BY <1>1, EnqueueEffect, OrderlyFacts
<1>3. o \in OutType /\ Finished(o)  BY DEF Out, OutType, Reasons, Errors, Finished
<1> HIDE DEF o
<1>4. ~FailQueued /\ ~FailQueued'  BY <1>1 DEF Adds, FailQueued
<1>5. DrainedFirst'  BY <1>1, <1>4 DEF DrainedFirst, Between
<1>6. ~Recovers  BY <1>1, WaitsFacts DEF Reasoned
<1>7. FailuresFinish' /\ Reasoned'
  BY <1>1, <1>4 DEF FailuresFinish, Reasoned, RaisedNow
<1>8. ASSUME NEW x \in Ids  PROVE Waits(x)'
  <2>1. /\ Waits(x) /\ produced'[x] = None
        /\ Occupies(x)' <=> Occupies(x)
        /\ Queued(sched, x)' <=> Queued(sched, x)
        /\ InHand(x)' <=> InHand(x)
        /\ sched'.running[x] = sched.running[x]
    BY <1>1, <1>2, WaitsFacts DEF Nothing, Occupies, Queued, InHand, SamePlaces
  <2>2. CASE x \in R
    <3> DEFINE d == Answered(stream[x], o)
    <3>1. Ready(stream[x])  BY FlowFacts
    <3>2. d.out # None  BY <1>3, <3>1, AnsweredFlow
    <3>3. Finished(d.out)  BY <1>3, <3>1, AnsweredFacts DEF Ready
    <3>4. stream'[x] = d  BY <1>1, <2>2
    <3> HIDE DEF d
    <3>5. Terminal(stream'[x].out)  BY <3>2, <3>3, <3>4 DEF Terminal
    <3> QED  BY <1>5, <1>6, <2>1, <3>5 DEF Waits
  <2>3. CASE x \notin R
    <3>1. stream'[x] = stream[x]  BY <1>1, <2>3
    <3>2. client[x].at = "reading" => stream[x].event  BY <2>3 DEF Tracked
    <3>3. client[x].at = "reading" => x \notin sched.pending
      BY <1>1, <2>1 DEF Waits, DrainedFirst
    <3>4. x \in sched'.pending => x \in sched.pending  BY <1>2, <2>3
    <3>5. client[x].at = "reading" => Lives(x)' \/ Terminal(stream[x].out)
      <4>1. Lives(x) => Lives(x)' \/ InHand(x)  BY <2>1 DEF Lives
      <4>2. produced[x] = None  BY <1>1, <2>1
      <4> QED  BY <2>1, <3>2, <4>1, <4>2 DEF Waits, Terminal
    <3> QED  BY <1>1, <2>1, <3>1, <3>3, <3>4, <3>5 DEF Waits
  <2> QED  BY <2>2, <2>3
<1> QED  BY <1>7, <1>8 DEF Awaited

(* The clients.                                                            *)
LEMMA ClientsBeside ==
  ASSUME IInv, Orderly, Flowing, OwnIds, NEW r \in Ids, Client(r) \/ Outside(r), ~CancelRequest(r)
  PROVE  /\ UNCHANGED <<step, loop, produced>>
         /\ FailQueued' <=> FailQueued
         /\ sched'.running = sched.running /\ sched'.waiting = sched.waiting
         /\ sched'.pending \subseteq sched.pending \cup {r} /\ sched.pending \subseteq sched'.pending
         /\ \A x \in Ids \ {r} : client'[x] = client[x] /\ stream'[x] = stream[x]
<1>1. UNCHANGED <<step, loop, produced>>
  BY DEF Client, Outside, Submit, Withdraw, Read, Return, Disconnect, ForceAbort,
         RecordDisconnect, Finally, Cleanup
<1>2. FailQueued' <=> FailQueued
  <2>1. jobs \in Seq(JobType) /\ SubmittedOnce /\ Lone  BY OrderlyFacts DEF Turns
  <2>2. CASE Submit(r)
    <3> DEFINE job == [do |-> "add", obj |-> <<r, client[r].life + 1>>]
    <3>1. jobs' = Append(jobs, job) /\ client[r].at = "idle" /\ client[r].life = 0
      BY <2>2, OrderlyFacts DEF Submit, OwnIds, Life
    <3>2. job = [do |-> "add", obj |-> Obj(r)]  BY <3>1 DEF Obj
    <3>3. job \in JobType /\ job.do = "add"  BY <3>2, ObjFacts DEF JobType
    <3>4. \A i \in DOMAIN jobs : jobs[i] # job
      <4>1. ~Submitted(r)  BY <3>1, OrderlyFacts DEF Life
      <4> QED  BY <3>2, <3>3, <4>1 DEF Submitted
    <3> HIDE DEF job
    <3> QED  BY <2>1, <3>1, <3>3, <3>4, JobAdded
  <2>3. CASE Withdraw(r)
    <3>1. CASE \E i \in DOMAIN jobs : jobs[i].do = "add" /\ jobs' = RemoveAt(jobs, i)
      <4>1. PICK i \in 1..Len(jobs) : jobs[i].do = "add" /\ jobs' = RemoveAt(jobs, i)
        BY <2>1, <3>1
      <4> QED  BY <2>1, <4>1, JobRemoved
    <3>2. CASE UNCHANGED jobs  BY <3>2 DEF FailQueued
    <3> QED  BY <2>3, <3>1, <3>2 DEF Withdraw
  <2>4. CASE UNCHANGED jobs  BY <2>4 DEF FailQueued
  <2> QED  BY <2>2, <2>3, <2>4 DEF Client, Outside, Read, Return, Disconnect, ForceAbort,
              RecordDisconnect, Finally, Cleanup
<1>3. /\ sched'.running = sched.running /\ sched'.waiting = sched.waiting
      /\ sched'.pending \subseteq sched.pending \cup {r} /\ sched.pending \subseteq sched'.pending
  <2>1. CASE UNCHANGED sched  BY <2>1
  <2>2. CASE sched' = Enqueue(sched, {r})
    <3>1. {r} \in SUBSET Ids  OBVIOUS
    <3> QED  BY <2>2, <3>1, EnqueueEffect, OrderlyFacts DEF SamePlaces
  <2>3. CASE sched' = Attribute(sched, r)
    BY <2>3, AttributeEffect, OrderlyFacts DEF SamePlaces
  <2>4. CASE sched' = RemoveRequest(sched, r)  BY <2>4, RemoveEffect, OrderlyFacts
  <2> QED  BY <2>1, <2>2, <2>3, <2>4 DEF Client, Outside, Submit, Withdraw, Read, Return, Disconnect,
              ForceAbort, RecordDisconnect, Finally, Cleanup
<1>4. \A x \in Ids \ {r} : client'[x] = client[x] /\ stream'[x] = stream[x]
  <2>1. \A x \in Ids \ {r} : client'[x] = client[x]
    BY OrderlyFacts DEF ClientShape, Client, Outside, Submit, Withdraw, Read, Return, Disconnect,
       ForceAbort, RecordDisconnect, Finally, Cleanup
  <2>2. \A x \in Ids \ {r} : stream'[x] = stream[x]
    BY DEF Flowing, StreamShape, Client, Outside, Submit, Withdraw, Read, Return, Disconnect,
       ForceAbort, RecordDisconnect, Finally, Cleanup
  <2> QED  BY <2>1, <2>2
<1> QED  BY <1>1, <1>2, <1>3, <1>4

LEMMA ClientsAwaited ==
  ASSUME IInv, Orderly, Flowing, Awaited, OwnIds, NeverCancelled,
         NEW r \in Ids, Client(r) \/ Outside(r)
  PROVE  Awaited'
<1>0. ~CancelRequest(r)  BY DEF CancelRequest, NeverCancelled
<1>1. /\ UNCHANGED <<step, loop, produced>>
      /\ FailQueued' <=> FailQueued
      /\ sched'.running = sched.running /\ sched'.waiting = sched.waiting
      /\ sched'.pending \subseteq sched.pending \cup {r} /\ sched.pending \subseteq sched'.pending
      /\ \A x \in Ids \ {r} : client'[x] = client[x] /\ stream'[x] = stream[x]
  BY <1>0, ClientsBeside
<1>2. \A x \in Ids : /\ Lives(x)' <=> Lives(x)
                     /\ Occupies(x)' <=> Occupies(x)
                     /\ Queued(sched, x)' <=> Queued(sched, x)
                     /\ InHand(x)' <=> InHand(x)
  BY <1>1 DEF Lives, Occupies, Queued, InHand, RaisedNow
<1>3. DrainedFirst' <=> DrainedFirst  BY <1>1 DEF DrainedFirst
<1>4. FailuresFinish' /\ Reasoned'
  BY <1>1, WaitsFacts DEF FailuresFinish, Reasoned, RaisedNow
<1>5. \A x \in Ids \ {r} : Waits(x)'
  <2> SUFFICES ASSUME NEW x \in Ids \ {r}  PROVE Waits(x)'
    OBVIOUS
  <2>1. x \in sched'.pending => x \in sched.pending  BY <1>1
  <2> QED  BY <1>1, <1>2, <1>3, <2>1, WaitsFrame, WaitsFacts
<1>6. Waits(r)'
  <2>0. Waits(r) /\ produced'[r] = produced[r] /\ sched'.running[r] = sched.running[r]
    BY <1>1, WaitsFacts
  <2>1. CASE Submit(r) \/ Cleanup(r)
    <3>1. stream'[r] = Fresh /\ client'[r].at \in {"adding", "gone"}
      BY <2>1, SubmitFlow, CleanupFlow
    <3> QED  BY <2>0, <3>1 DEF Waits, Fresh
  <2>2. CASE Withdraw(r) \/ Disconnect(r) \/ Finally(r) \/ ForceAbort(r) \/ RecordDisconnect(r)
    <3>1. stream'[r] = stream[r]  BY <2>2, MovedFlow
    <3>2. client'[r].at # "reading" \/ UNCHANGED <<client, sched>>
      <4>1. CASE Withdraw(r) \/ Disconnect(r) \/ Finally(r)
        BY <4>1, OrderlyFacts DEF Withdraw, Disconnect, Finally, ClientShape, ClientRecord
      <4>2. CASE ForceAbort(r) \/ RecordDisconnect(r)
        <5>1. client[r].fate = "left" /\ UNCHANGED client
          BY <4>2 DEF ForceAbort, RecordDisconnect
        <5> QED  BY <5>1, OrderlyFacts DEF Life
      <4> QED  BY <2>2, <4>1, <4>2
    <3>3. client'[r].at \in {"adding", "cancelled"} => client[r].at \in {"adding", "cancelled"}
      <4>1. CASE Withdraw(r)  BY <4>1 DEF Withdraw
      <4>2. CASE Disconnect(r) \/ Finally(r)
        BY <4>2, OrderlyFacts DEF Disconnect, Finally, ClientShape, ClientRecord
      <4>3. CASE ForceAbort(r) \/ RecordDisconnect(r)  BY <4>3 DEF ForceAbort, RecordDisconnect
      <4> QED  BY <2>2, <4>1, <4>2, <4>3
    <3> QED  BY <1>2, <1>3, <2>0, <3>1, <3>2, <3>3, WaitsFrame
  <2>3. CASE Return(r)
    <3>1. client'[r].at = "leaving"  BY <2>3, ReturnFlow
    <3> QED  BY <2>0, <3>1 DEF Waits
  <2>4. CASE Read(r)
    <3>1. /\ stream'[r].event = stream[r].event /\ client[r].at = "reading"
          /\ client'[r].at \in {"closing", "leaving", "reading"}
          /\ client'[r].at = "reading" => ~Finished(stream[r].out)
          /\ UNCHANGED sched
      BY <2>4, ReadFlow DEF Streaming
    <3>2. CASE client'[r].at # "reading"  BY <2>0, <3>1, <3>2 DEF Waits
    <3>3. CASE client'[r].at = "reading"
      <4>1. ~Terminal(stream[r].out)  BY <3>1, <3>3 DEF Terminal
      <4>2. /\ Lives(r)' \/ Terminal(produced'[r])
            /\ r \notin sched'.pending
        BY <1>2, <2>0, <3>1, <4>1 DEF Waits
      <4>3. stream[r].event => (Occupies(r) => ~Recovers) /\ ~Queued(sched, r) /\ ~InHand(r)
        BY <2>0, <3>1, <4>1 DEF Waits
      <4> QED  BY <1>2, <2>0, <3>1, <3>3, <4>2, <4>3 DEF Waits
    <3> QED  BY <3>2, <3>3
  <2> QED  BY <1>0, <2>1, <2>2, <2>3, <2>4 DEF Client, Outside
<1> QED  BY <1>4, <1>5, <1>6 DEF Awaited

(* Admission, up to the queue.                                             *)
LEMMA AddingAwaited ==
  ASSUME IInv, Orderly, Flowing, Awaited, OwnIds, AddRefused \/ AddStart \/ AddRaises
  PROVE  Awaited'
<1>1. /\ UNCHANGED <<stream, produced>> /\ \A x \in Ids : Returned(x)
  BY AddingQuiet DEF QuietOutcome
<1>2. /\ UNCHANGED loop /\ step'.admitting = step.admitting
      /\ step.at \in {"free", "add"} /\ step'.at \in {"free", "add"}
  <2>1. CASE AddRefused  BY <2>1 DEF AddRefused, Taking
  <2>2. CASE AddStart  BY <2>2, OrderlyFacts DEF AddStart, Taking, StepType
  <2>3. CASE AddRaises  BY <2>3, OrderlyFacts DEF AddRaises, StepType
  <2> QED  BY <2>1, <2>2, <2>3
<1>3. FailQueued' <=> FailQueued
  <2>1. CASE AddRaises  BY <2>1 DEF AddRaises, FailQueued
  <2>2. CASE AddRefused \/ AddStart
    <3>1. /\ jobs \in Seq(JobType) /\ jobs # <<>> /\ jobs' = Tail(jobs) /\ SubmittedOnce /\ Lone
          /\ jobs[1].do = "add"
      BY <2>2, OrderlyFacts DEF AddRefused, AddStart, Taking, Turns
    <3> QED  BY <3>1, FailQueuedTail
  <2> QED  BY <2>1, <2>2
<1>4. /\ sched'.pending = sched.pending /\ sched'.waiting = sched.waiting
      /\ sched'.running = sched.running
  <2>1. CASE AddRefused \/ AddRaises  BY <2>1 DEF AddRefused, AddRaises
  <2>2. CASE AddStart
    <3>1. PICK r \in Ids : jobs[1].obj = Obj(r)  BY <2>2, FirstAdd DEF AddStart
    <3> QED  BY <2>2, <3>1, AddStartEffect, OrderlyFacts
  <2> QED  BY <2>1, <2>2
<1>5. \A x \in Ids : /\ Lives(x)' <=> Lives(x)
                     /\ Occupies(x)' <=> Occupies(x)
                     /\ Queued(sched, x)' <=> Queued(sched, x)
                     /\ InHand(x)' <=> InHand(x)
  BY <1>2, <1>3, <1>4 DEF Lives, Occupies, Queued, InHand, RaisedNow
<1>6. DrainedFirst' <=> DrainedFirst  BY <1>2, <1>3 DEF DrainedFirst
<1>7. \A x \in Ids : Waits(x)'
  BY <1>1, <1>4, <1>5, <1>6, WaitsFrame, WaitsFacts DEF Returned
<1>8. FailuresFinish' /\ Reasoned'
  BY <1>1, <1>2, <1>3, WaitsFacts DEF FailuresFinish, Reasoned, RaisedNow
<1> QED  BY <1>7, <1>8 DEF Awaited

LEMMA AddCommitAwaited ==
  ASSUME IInv, Orderly, Flowing, Awaited, OwnIds, AddCommit
  PROVE  Awaited'
<1>1. PICK r \in Ids :
        /\ Adding(r) /\ step' = [step EXCEPT !.at = "free", !.adding = None]
        /\ \A x \in Ids \ {r} : client'[x] = client[x]
        /\ client'[r] = [client[r] EXCEPT !.at = IF client[r].at = "cancelled" THEN "leaving" ELSE "reading"]
        /\ sched'.running = sched.running
        /\ sched'.pending = sched.pending \cup (IF client[r].at = "cancelled" THEN {r} ELSE {})
        /\ \A x \in Ids : Queued(sched', x) <=> Queued(sched, x) \/ x = r
  BY AddCommitEffect
<1>2. /\ UNCHANGED <<stream, jobs, loop, produced>> /\ step.at = "add"
      /\ step'.at = "free" /\ step'.admitting = step.admitting
  BY <1>1, OrderlyFacts DEF AddCommit, StepType
<1>3. FailQueued' <=> FailQueued  BY <1>2 DEF FailQueued
<1>4. DrainedFirst' <=> DrainedFirst  BY <1>2, <1>3 DEF DrainedFirst
<1>5. FailuresFinish' /\ Reasoned'
  BY <1>2, <1>3, WaitsFacts DEF FailuresFinish, Reasoned, RaisedNow
<1>6. \A x \in Ids \ {r} : Waits(x)'
  <2> SUFFICES ASSUME NEW x \in Ids \ {r}  PROVE Waits(x)'
    OBVIOUS
  <2>1. /\ Lives(x)' <=> Lives(x)
        /\ Occupies(x)' <=> Occupies(x)
        /\ Queued(sched, x)' <=> Queued(sched, x)
        /\ InHand(x)' <=> InHand(x)
    BY <1>1, <1>2, <1>3 DEF Lives, Occupies, Queued, InHand, RaisedNow
  <2>2. x \in sched'.pending => x \in sched.pending  BY <1>1
  <2> QED  BY <1>1, <1>2, <1>4, <2>1, <2>2, WaitsFrame, WaitsFacts
<1>7. Waits(r)'
  <2>1. client[r].at \in {"adding", "cancelled"}  BY <1>1, OrderlyFacts DEF Life
  <2>2. /\ Waits(r) /\ sched.commits[r] = 0 /\ produced[r] = None /\ r \notin sched.pending
    BY <2>1, WaitsFacts
  <2>3. client'[r].at = IF client[r].at = "cancelled" THEN "leaving" ELSE "reading"
    BY <1>1, OrderlyFacts DEF ClientShape, ClientRecord
  <2>4. produced'[r] = None /\ stream'[r] = stream[r]  BY <1>2, <2>2
  <2>5. CASE client[r].at = "cancelled"
    BY <2>3, <2>4, <2>5 DEF Waits
  <2>6. CASE client[r].at = "adding"
    <3>1. Queued(sched', r)  BY <1>1
    <3>2. Lives(r)'  BY <3>1 DEF Lives, Queued
    <3>3. r \notin sched'.pending /\ client'[r].at = "reading"  BY <1>1, <2>2, <2>3, <2>6
    <3>4. stream[r].event => ~Recovers /\ Terminal(stream[r].out)  BY <2>2, <2>6 DEF Waits
    <3> QED  BY <2>4, <3>2, <3>3, <3>4 DEF Waits
  <2> QED  BY <2>1, <2>5, <2>6
<1> QED  BY <1>5, <1>6, <1>7 DEF Awaited

(* A step begins.                                                          *)
LEMMA StepStartAwaited ==
  ASSUME IInv, Orderly, Flowing, Awaited, OwnIds, StepStart
  PROVE  Awaited'
<1>1. UNCHANGED <<client, stream, sched, loop, produced>> /\ Taking("step")  BY DEF StepStart
<1>2. /\ jobs \in Seq(JobType) /\ jobs # <<>> /\ jobs[1].do = "step" /\ step.at = "free" /\ Lone
      /\ loop = "awaiting" /\ Adds'
  BY <1>1, FirstOther, OrderlyFacts DEF Taking, Turns
<1>3. ~FailQueued /\ ~FailQueued'
  <2>1. 1 \in DOMAIN jobs  BY <1>2
  <2> QED  BY <1>2, <2>1 DEF FailQueued, Lone, Adds
<1>4. step'.at = "drain" /\ step'.admitting = None  BY DEF StepStart, Free
<1>5. \A x \in Ids : /\ Lives(x) => Lives(x)'
                     /\ Occupies(x)' => Occupies(x)
                     /\ Queued(sched, x)' => Queued(sched, x)
                     /\ ~InHand(x)'
  BY <1>1, <1>2, <1>3, <1>4, ObjFacts DEF Lives, Occupies, Queued, InHand, RaisedNow
<1>6. DrainedFirst => DrainedFirst'  BY <1>1, <1>3, <1>4 DEF DrainedFirst
<1>7. \A x \in Ids : Waits(x)'
  BY <1>1, <1>5, <1>6, WaitsFrame, WaitsFacts
<1>8. FailuresFinish' /\ Reasoned'
  BY <1>1, <1>2, <1>3 DEF FailuresFinish, Reasoned, RaisedNow
<1> QED  BY <1>7, <1>8 DEF Awaited

(* Within a step the loop awaits, and no failure is queued.                *)
LEMMA InStepFacts ==
  ASSUME IInv, Orderly, OwnIds, ~Between
  PROVE  /\ loop = "awaiting" /\ produced = Nothing /\ ~FailQueued
         /\ \A x \in Ids : produced[x] = None
<1>1. loop = "awaiting" /\ Adds /\ produced = Nothing  BY OrderlyFacts DEF Turns
<1>2. ~FailQueued  BY <1>1 DEF Adds, FailQueued
<1> QED  BY <1>1, <1>2 DEF Nothing

LEMMA AbortedAwaited ==
  ASSUME IInv, Orderly, Flowing, Awaited, OwnIds, DrainEnd \/ \E r \in Ids : Drain(r)
  PROVE  Awaited'
<1>1. UNCHANGED <<client, stream, jobs, loop, produced>> /\ step.at = "drain" /\ ~Between
  BY DEF DrainEnd, Drain, Between
<1>2. loop = "awaiting" /\ ~FailQueued /\ \A x \in Ids : produced[x] = None
  BY <1>1, InStepFacts
<1>3. FailuresFinish' /\ Reasoned'
  BY <1>1, <1>2 DEF FailuresFinish, Reasoned, RaisedNow, FailQueued
<1>4. \A x \in Ids : ~InHand(x)
  BY <1>1, ObjFacts, OrderlyFacts DEF Turns, InHand
<1>5. CASE DrainEnd
  <2>1. UNCHANGED sched /\ sched.pending = {} /\ step'.admitting = step.admitting
    BY <1>5, OrderlyFacts DEF DrainEnd, StepType
  <2>2. \A x \in Ids : Waits(x)'
    BY <1>1, <1>2, <1>4, <2>1, WaitsFrame, WaitsFacts DEF Lives, Occupies, Queued, InHand
  <2> QED  BY <1>3, <2>2 DEF Awaited
<1>6. ASSUME NEW r \in Ids, Drain(r)  PROVE Awaited'
  <2>1. /\ sched'.pending = sched.pending \ {r} /\ ~Occupies(r)'
        /\ \A x \in Ids : Occupies(x)' => Occupies(x)
    BY <1>6, DrainEffect
  <2>2. UNCHANGED step /\ r \in sched.pending  BY <1>6 DEF Drain
  <2> DEFINE t == AbortObject([sched EXCEPT !.pending = @ \ {r}], r, sched.requests[r])
  <2>3. Tidy(sched) /\ (Queued(sched, r) => sched.status[Obj(r)] = "waiting")
    BY OrderlyFacts DEF Place
  <2>4. /\ t.running = [sched.running EXCEPT ![r] = None]
        /\ \A x \in Ids : Queued(t, x) <=> Queued(sched, x) /\ x # r
    BY <2>3, AbortObjectEffect
  <2>5. sched' = t  BY <1>6 DEF Drain
  <2> HIDE DEF t
  <2>6. \A x \in Ids \ {r} : /\ sched'.running[x] = sched.running[x]
                             /\ Queued(sched, x)' <=> Queued(sched, x)
    BY <2>4, <2>5, OrderlyFacts DEF SchedulerType, Queued
  <2>7. DrainedFirst'  BY <1>1, <1>2, <2>2 DEF DrainedFirst, FailQueued
  <2>8. \A x \in Ids \ {r} : Waits(x)'
    <3> SUFFICES ASSUME NEW x \in Ids \ {r}  PROVE Waits(x)'
      OBVIOUS
    <3>1. /\ Lives(x) => Lives(x)'
          /\ InHand(x)' <=> InHand(x)
      BY <1>4, <2>2, <2>6 DEF Lives, InHand
    <3> QED  BY <1>1, <1>2, <2>1, <2>6, <2>7, <3>1, WaitsFrame, WaitsFacts
  <2>9. Waits(r)'
    <3>1. Waits(r) /\ produced'[r] = None /\ stream'[r] = stream[r]
      BY <1>1, <1>2, WaitsFacts
    <3>2. client[r].at = "reading" => Terminal(stream[r].out)  BY <2>2, <3>1 DEF Waits
    <3>3. r \notin sched'.pending  BY <2>1
    <3>4. ~Queued(sched, r)' /\ ~InHand(r)'  BY <2>1 DEF Occupies, Queued, InHand
    <3> QED  BY <1>1, <2>1, <3>1, <3>2, <3>3, <3>4 DEF Waits
  <2> QED  BY <1>3, <2>8, <2>9 DEF Awaited
<1> QED  BY <1>5, <1>6

(* Within a step: a request moves from the queue into the batch, back only *)
(* to be retried, and out of it only when its client is gone.              *)
LEMMA MovesAwaited ==
  ASSUME IInv, Orderly, Flowing, Awaited, OwnIds, InsertsWhole, RetriesAlone,
         \/ AdmitEnd \/ Reconcile \/ Insert \/ Corrupt
         \/ \E i \in DOMAIN sched.waiting : Admit(i) \/ Defer(i)
  PROVE  Awaited'
<1>1. /\ UNCHANGED <<client, stream, jobs, loop, produced>> /\ ~Between /\ step.at # "drain"
      /\ sched'.pending = sched.pending
      /\ \A x \in Ids : Occupies(x)' => Occupies(x)
  BY MovesEffect
<1>2. /\ loop = "awaiting" /\ ~FailQueued /\ \A x \in Ids : produced[x] = None
  BY <1>1, InStepFacts
<1>3. ~RaisedNow /\ ~DrainedFirst /\ loop # "unrecovered"
  BY <1>1, <1>2 DEF RaisedNow, DrainedFirst, Between
<1>4. FailuresFinish' /\ Reasoned'
  BY <1>1, <1>2 DEF FailuresFinish, Reasoned, RaisedNow, FailQueued
<1>5. \A x \in Ids : client[x].at = "reading" => sched.requests[x] = Obj(x)
  BY WaitsFacts
<1>6. ASSUME NEW x \in Ids
      PROVE  /\ client[x].at = "reading" /\ Lives(x) => Lives(x)'
             /\ Queued(sched, x)' \/ InHand(x)' => Queued(sched, x) \/ InHand(x) \/ Recovers
  <2>1. Lives(x) => Queued(sched, x) \/ sched.running[x] # None \/ (InHand(x) /\ step.at = "insert")
    BY <1>3 DEF Lives
  <2>2. CASE AdmitEnd
    <3>1. sched' = sched /\ step.at = "admit"  BY <2>2 DEF AdmitEnd
    <3>2. step'.admitting = None  BY <2>2, OrderlyFacts DEF AdmitEnd, StepType
    <3> QED  BY <2>1, <3>1, <3>2, ObjFacts DEF Lives, Queued, InHand
  <2>3. CASE Reconcile
    <3>1. step.at = "reconcile" /\ step'.admitting = step.admitting
      BY <2>3, OrderlyFacts DEF Reconcile, StepType
    <3>2. /\ sched'.waiting = sched.waiting
          /\ x \in Reaped(sched) => sched.requests[x] = None
          /\ sched'.running[x] = IF x \in Reaped(sched) THEN None ELSE sched.running[x]
      BY <2>3, ReconcileEffect, OrderlyFacts
    <3>3. client[x].at = "reading" => x \notin Reaped(sched)  BY <1>5, <3>2, ObjFacts
    <3> QED  BY <2>1, <3>1, <3>2, <3>3 DEF Lives, Queued, InHand
  <2>4. CASE Insert
    <3>1. step.at = "insert" /\ step'.admitting = None
      BY <2>4, OrderlyFacts DEF Insert, StepType
    <3>2. PICK r \in Ids : InHand(r)  BY <3>1, Inserted
    <3>3. sched'.waiting = sched.waiting /\ sched'.running = [sched.running EXCEPT ![r] = Obj(r)]
      BY <2>4, <3>2, InsertEffect, OrderlyFacts
    <3>4. InHand(x) => x = r  BY <3>2, ObjFacts DEF InHand
    <3>5. sched'.running[x] = IF x = r THEN Obj(r) ELSE sched.running[x]
      BY <3>3, OrderlyFacts DEF SchedulerType
    <3> QED  BY <2>1, <3>1, <3>3, <3>4, <3>5, ObjFacts DEF Lives, Queued, InHand
  <2>5. CASE Corrupt
    <3>1. step.at = "decode" /\ "decodeCorrupt" \in Faults  BY <2>5 DEF Corrupt, InsertsWhole
    <3>2. Recovers  BY <3>1 DEF RetriesAlone
    <3>3. ~InHand(x)  BY <3>1, ObjFacts, OrderlyFacts DEF Turns, InHand
    <3>4. \A y \in Ids : Queued(sched', y) <=> Queued(sched, y) \/ sched.running[y] # None
      BY <2>5, RescheduleEffect, OrderlyFacts DEF Corrupt, IInv
    <3>5. Lives(x) => Queued(sched, x)'  BY <2>1, <3>3, <3>4 DEF Queued
    <3> QED  BY <3>2, <3>5 DEF Lives
  <2>6. ASSUME NEW i \in DOMAIN sched.waiting, Admit(i)
        PROVE  /\ Lives(x) => Lives(x)'
               /\ Queued(sched, x)' \/ InHand(x)' => Queued(sched, x) \/ InHand(x)
    <3>1. PICK r \in Ids :
            /\ step' = [step EXCEPT !.at = "insert", !.admitting = Obj(r)]
            /\ Queued(sched, r) /\ sched'.running = sched.running
            /\ \A y \in Ids : Queued(sched', y) <=> Queued(sched, y) /\ y # r
      BY <2>6, AdmitEffect, OrderlyFacts
    <3>2. step.at = "admit" /\ step'.at = "insert" /\ step'.admitting = Obj(r)
      BY <2>6, <3>1, OrderlyFacts DEF Admit, StepType
    <3>3. InHand(x)' <=> x = r  BY <3>2, ObjFacts DEF InHand
    <3>4. Queued(sched, x)' <=> Queued(sched, x) /\ x # r  BY <3>1 DEF Queued
    <3> QED  BY <2>1, <3>1, <3>2, <3>3, <3>4 DEF Lives
  <2>7. ASSUME NEW i \in DOMAIN sched.waiting, Defer(i)
        PROVE  /\ Lives(x) => Lives(x)'
               /\ Queued(sched, x)' \/ InHand(x)' => Queued(sched, x) \/ InHand(x)
    <3>1. /\ step' = [step EXCEPT !.at = "decode", !.admitting = None]
          /\ sched'.running = sched.running
          /\ \A y \in Ids : Queued(sched', y) <=> Queued(sched, y)
      BY <2>7, DeferEffect, OrderlyFacts
    <3>2. step.at = "admit" /\ step'.admitting = None
      BY <2>7, <3>1, OrderlyFacts DEF Defer, StepType
    <3>3. ~InHand(x)'  BY <3>2, ObjFacts DEF InHand
    <3>4. Queued(sched, x)' <=> Queued(sched, x)  BY <3>1 DEF Queued
    <3> QED  BY <2>1, <3>1, <3>2, <3>3, <3>4 DEF Lives
  <2> QED  BY <2>2, <2>3, <2>4, <2>5, <2>6, <2>7
<1>7. \A x \in Ids : Waits(x)'
  BY <1>1, <1>2, <1>3, <1>6, WaitsFrame, WaitsFacts
<1> QED  BY <1>4, <1>7 DEF Awaited

(* A step that raises leaves what it was admitting to the recovery.        *)
LEMMA StepRaisesAwaited ==
  ASSUME IInv, Orderly, Flowing, Awaited, OwnIds, StepRaises
  PROVE  Awaited'
<1>1. /\ UNCHANGED <<client, stream, sched, jobs, produced>> /\ loop' = "raised"
      /\ "raise" \in Faults /\ step.at \in {"insert", "decode"} /\ ~Between
  BY DEF StepRaises, Between
<1>2. step'.admitting = step.admitting  BY OrderlyFacts DEF StepRaises, StepType
<1>3. /\ loop = "awaiting" /\ ~FailQueued /\ \A x \in Ids : produced[x] = None
  BY <1>1, InStepFacts
<1>4. FailuresFinish' /\ Reasoned'
  BY <1>1, <1>3 DEF FailuresFinish, Reasoned
<1>5. ~DrainedFirst  BY <1>1 DEF DrainedFirst
<1>6. \A x \in Ids : /\ Lives(x) => Lives(x)'
                     /\ Occupies(x)' <=> Occupies(x)
                     /\ Queued(sched, x)' <=> Queued(sched, x)
                     /\ InHand(x)' <=> InHand(x)
  BY <1>1, <1>2 DEF Lives, Occupies, Queued, InHand, RaisedNow
<1>7. \A x \in Ids : Waits(x)'
  BY <1>1, <1>3, <1>5, <1>6, WaitsFrame, WaitsFacts
<1> QED  BY <1>4, <1>7 DEF Awaited

(* The end of a step gives a request its last output and lets it go, or a  *)
(* token and keeps it decoding, or leaves it where it was.                 *)
LEMMA WaitsAnswer ==
  ASSUME NEW x \in Ids, Waits(x), ~DrainedFirst,
         client'[x] = client[x], stream'[x] = stream[x], sched'.pending = sched.pending,
         Occupies(x)' => Occupies(x),
         Queued(sched, x)' \/ InHand(x)' => Queued(sched, x) \/ InHand(x),
         produced[x] = None,
         \/ produced'[x] = None /\ (Lives(x) => Lives(x)')
         \/ produced'[x] # None /\ Finished(produced'[x]) /\ ~Occupies(x)'
         \/ produced'[x] # None /\ ~Finished(produced'[x]) /\ sched'.running[x] # None
  PROVE  Waits(x)'
<1> DEFINE s == stream[x]
           p == produced'[x]
           at == client[x].at
<1>1. at = "reading" => Lives(x)' \/ Terminal(p) \/ Terminal(s.out)
  BY DEF Waits, Terminal, Lives
<1>2. at = "reading" /\ x \in sched'.pending => FALSE
  BY DEF Waits
<1>3. p # None => IF Finished(p) THEN at = "reading" => ~Occupies(x)'
                                 ELSE sched'.running[x] # None
  OBVIOUS
<1>4. s.event /\ at \in {"adding", "cancelled"} => ~Recovers /\ Terminal(s.out)
  BY DEF Waits
<1>5. s.event /\ at = "reading" =>
        /\ Occupies(x)' => ~Recovers
        /\ Queued(sched, x)' \/ InHand(x)' => Terminal(s.out)
  BY DEF Waits
<1> QED  BY <1>1, <1>2, <1>3, <1>4, <1>5 DEF Waits

LEMMA DecodeAwaited ==
  ASSUME IInv, Orderly, Flowing, Awaited, OwnIds, Decode \/ DecodeNothing
  PROVE  Awaited'
<1>1. /\ UNCHANGED <<client, stream, jobs>> /\ step' = Free /\ loop' = "delivering"
      /\ step.at = "decode" /\ ~Between
  BY DEF Decode, DecodeNothing, EndStep, Between
<1>2. /\ loop = "awaiting" /\ ~FailQueued /\ \A x \in Ids : produced[x] = None
  BY <1>1, InStepFacts
<1>3. FailuresFinish' /\ Reasoned'
  BY <1>1, <1>2 DEF FailuresFinish, Reasoned, RaisedNow, FailQueued
<1>4. ~DrainedFirst /\ \A x \in Ids : ~InHand(x) /\ ~InHand(x)'
  BY <1>1, ObjFacts, OrderlyFacts DEF Turns, DrainedFirst, InHand, Free
<1>5. CASE Decode
  <2>1. PICK ends \in [Rows -> {"no", "stop", "length", "repetition"}] :
          LET Done(x) == Decoding(x) /\ ends[Obj(x)] # "no" IN
          /\ sched'.pending = sched.pending /\ sched'.waiting = sched.waiting
          /\ \A x \in Ids :
               /\ Decoding(x) => ends[Obj(x)] \in Ending(Obj(x))
               /\ produced'[x] = IF Decoding(x) THEN TokenOutput(Obj(x), ends[Obj(x)]) ELSE None
               /\ sched'.running[x] = IF Done(x) THEN None ELSE sched.running[x]
    BY <1>5, DecodeEffect, OrderlyFacts
  <2>2. ASSUME NEW x \in Ids  PROVE Waits(x)'
    <3>1. Queued(sched, x)' <=> Queued(sched, x)  BY <2>1 DEF Queued
    <3>2. CASE ~Decoding(x)
      <4>1. produced'[x] = None /\ sched'.running[x] = sched.running[x]  BY <2>1, <3>2
      <4>2. /\ Lives(x) => Lives(x)'
            /\ Occupies(x)' => Occupies(x)
        BY <1>4, <3>1, <4>1 DEF Lives, Occupies
      <4> QED  BY <1>1, <1>2, <1>4, <2>1, <3>1, <4>1, <4>2, WaitsAnswer, WaitsFacts
    <3>3. CASE Decoding(x)
      <4> DEFINE e == ends[Obj(x)]
      <4>1. e \in {"no", "stop", "length", "repetition"}  BY <2>1, <3>3 DEF Ending
      <4>2. MadeFor(x) \in Nat  BY FlowFacts DEF Flows
      <4>3. /\ produced'[x] = TokenOutput(Obj(x), e)
            /\ sched'.running[x] = IF e # "no" THEN None ELSE sched.running[x]
        BY <2>1, <3>3
      <4> HIDE DEF e
      <4>4. produced'[x] # None /\ (Finished(produced'[x]) <=> e # "no")
        BY <4>1, <4>2, <4>3, TokenFacts
      <4>5. sched.running[x] # None /\ ~Queued(sched, x)
        BY <3>3, OrderlyFacts DEF Decoding, Place
      <4>6. Occupies(x) /\ (e # "no" => ~Occupies(x)')
        BY <1>4, <3>1, <4>3, <4>5 DEF Occupies
      <4>7. e = "no" => sched'.running[x] # None  BY <4>3, <4>5
      <4> QED  BY <1>1, <1>2, <1>4, <2>1, <3>1, <4>4, <4>6, <4>7, WaitsAnswer, WaitsFacts
    <3> QED  BY <3>2, <3>3
  <2> QED  BY <1>3, <2>2 DEF Awaited
<1>6. CASE DecodeNothing
  <2>1. /\ sched'.pending = sched.pending /\ sched'.waiting = sched.waiting
        /\ sched'.running = sched.running /\ produced' = Nothing
    BY <1>6, OrderlyFacts DEF DecodeNothing, EndStep, SchedulerType
  <2>2. ASSUME NEW x \in Ids  PROVE Waits(x)'
    <3>1. produced'[x] = None  BY <2>1 DEF Nothing
    <3>2. /\ Queued(sched, x)' <=> Queued(sched, x)
          /\ Lives(x) => Lives(x)'
          /\ Occupies(x)' => Occupies(x)
      BY <1>4, <2>1 DEF Queued, Lives, Occupies
    <3> QED  BY <1>1, <1>2, <1>4, <2>1, <3>1, <3>2, WaitsAnswer, WaitsFacts
  <2> QED  BY <1>3, <2>2 DEF Awaited
<1> QED  BY <1>5, <1>6

(* A failure that the step knows the request of.                           *)
LEMMA FailOwnAwaited ==
  ASSUME IInv, Orderly, Flowing, Awaited, OwnIds, FailOwn
  PROVE  Awaited'
<1>1. step.at = "insert" /\ ~Between  BY DEF FailOwn, Between
<1>2. PICK r \in Ids : InHand(r)  BY <1>1, Inserted
<1>3. /\ step.admitting[1] = r /\ sched.running[r] = None /\ ~Queued(sched, r)
      /\ sched.status[Obj(r)] = "waiting"
      /\ \A x \in Ids : InHand(x) => x = r
  BY <1>2, ObjFacts, OrderlyFacts DEF InHand, Place
<1>4. /\ loop = "awaiting" /\ ~FailQueued /\ \A x \in Ids : produced[x] = None
  BY <1>1, InStepFacts
<1> DEFINE t == AbortAll(sched, {r})
           outs == ErrorOutputs(sched, {r})
<1>5. EndStep(t, outs)  BY <1>3 DEF FailOwn
<1>6. \A x \in Ids : Queued(sched, x) => sched.status[Obj(x)] = "waiting"
  BY OrderlyFacts DEF Place
<1>7. /\ t.pending = sched.pending
      /\ \A x \in Ids :
           /\ t.running[x] = IF x \in Taken(sched, {r}) THEN None ELSE sched.running[x]
           /\ Queued(t, x) <=> Queued(sched, x) /\ x \notin Taken(sched, {r})
  BY <1>6, AbortAllEffect, OrderlyFacts
<1>8. \A x \in Taken(sched, {r}) : x = r  BY DEF Taken
<1>9. \A x \in Ids : IF x = r THEN outs[x] # None /\ Finished(outs[x]) ELSE outs[x] = None
  <2>1. \A x \in Ids : MadeFor(x) \in Nat  BY FlowFacts DEF Flows
  <2> QED  BY <2>1, ErrorFacts DEF Fails
<1> HIDE DEF t, outs
<1>10. /\ UNCHANGED <<client, stream, jobs>> /\ sched' = t /\ produced' = outs
       /\ loop' = "delivering" /\ step' = Free
  BY <1>5 DEF EndStep
<1>11. \A x \in Ids : ~InHand(x)'  BY <1>10, ObjFacts DEF InHand, Free
<1>12. FailuresFinish' /\ Reasoned'
  BY <1>4, <1>10 DEF FailuresFinish, Reasoned, RaisedNow, FailQueued
<1>13. ~DrainedFirst /\ ~RaisedNow /\ loop # "unrecovered"
  BY <1>1, <1>4 DEF DrainedFirst, RaisedNow
<1>14. ASSUME NEW x \in Ids \ {r}  PROVE Waits(x)'
  <2>1. x \notin Taken(sched, {r}) /\ ~InHand(x) /\ produced'[x] = None
    BY <1>3, <1>8, <1>9, <1>10
  <2>2. /\ sched'.running[x] = sched.running[x]
        /\ Queued(sched, x)' <=> Queued(sched, x)
    BY <1>7, <1>10, <2>1 DEF Queued
  <2>3. /\ Lives(x) => Lives(x)'
        /\ Occupies(x)' => Occupies(x)
    BY <1>11, <2>1, <2>2 DEF Lives, Occupies
  <2> QED  BY <1>4, <1>7, <1>10, <1>11, <1>13, <2>1, <2>2, <2>3, WaitsAnswer, WaitsFacts
<1>15. Waits(r)'
  <2>1. ~Queued(sched, r)' /\ sched'.running[r] = None
    BY <1>3, <1>7, <1>10 DEF Queued
  <2>2. ~Occupies(r)'  BY <1>11, <2>1 DEF Occupies
  <2> QED  BY <1>4, <1>7, <1>9, <1>10, <1>11, <1>13, <2>1, <2>2, WaitsAnswer, WaitsFacts
<1> QED  BY <1>12, <1>14, <1>15 DEF Awaited

(* Any other failure: of the batch, in the step or in the job after it.    *)
LEMMA FailSharedAwaited ==
  ASSUME IInv, Orderly, Flowing, Awaited, OwnIds, ~DrainedFirst,
         \A x \in Ids : produced[x] = None,
         UNCHANGED <<client, stream>>, sched' = FailShared(sched, step.admitting),
         produced' = ErrorOutputs(sched, Failing(sched, step.admitting)),
         \A x \in Ids : ~InHand(x)'
  PROVE  /\ \A x \in Ids : Waits(x)'
         /\ \A x \in Ids : produced'[x] # None => Finished(produced'[x])
<1> DEFINE F == Failing(sched, step.admitting)
<1>1. \A x \in Ids : \/ x \notin F /\ produced'[x] = None
                     \/ x \in F /\ produced'[x] # None /\ Finished(produced'[x])
  <2>1. \A x \in Ids : MadeFor(x) \in Nat  BY FlowFacts DEF Flows
  <2> QED  BY <2>1, ErrorFacts DEF Fails
<1>2. \A x \in Ids :
        /\ x \notin F => sched.running[x] = None
        /\ Queued(sched', x) <=> Queued(sched, x) /\ ~(x \in F /\ sched.requests[x] = Obj(x))
  BY FailSharedEffect, OrderlyFacts
<1>3. /\ sched'.pending = sched.pending
      /\ \A x \in Ids : /\ Occupies(x)' => Occupies(x)
                        /\ x \in F => ~Occupies(x)'
  BY FailSharedPlaces
<1>4. \A x \in Ids : InHand(x) => x \in F
  BY ObjFacts DEF InHand, Failing
<1> HIDE DEF F
<1>5. ASSUME NEW x \in Ids  PROVE Waits(x)'
  <2>1. Queued(sched, x)' => Queued(sched, x)  BY <1>2 DEF Queued
  <2>2. CASE x \in F
    BY <1>1, <1>3, <2>1, <2>2, WaitsAnswer, WaitsFacts
  <2>3. CASE x \notin F
    <3>1. produced'[x] = None /\ ~InHand(x) /\ sched.running[x] = None
      BY <1>1, <1>2, <1>4, <2>3
    <3>2. Queued(sched, x) => Queued(sched, x)'  BY <1>2, <2>3 DEF Queued
    <3>3. Lives(x) => Lives(x)'  BY <3>1, <3>2 DEF Lives
    <3> QED  BY <1>3, <2>1, <3>1, <3>3, WaitsAnswer, WaitsFacts
  <2> QED  BY <2>2, <2>3
<1> QED  BY <1>1, <1>5

LEMMA FailStepAwaited ==
  ASSUME IInv, Orderly, Flowing, Awaited, OwnIds, FailStep
  PROVE  Awaited'
<1>1. /\ step.at \in {"admit", "insert", "decode"} /\ ~Between
      /\ EndStep(FailShared(sched, step.admitting),
                 ErrorOutputs(sched, Failing(sched, step.admitting)))
  BY DEF FailStep, Between
<1>2. /\ UNCHANGED <<client, stream, jobs>> /\ sched' = FailShared(sched, step.admitting)
      /\ produced' = ErrorOutputs(sched, Failing(sched, step.admitting))
      /\ loop' = "delivering" /\ step' = Free
  BY <1>1 DEF EndStep
<1>3. /\ loop = "awaiting" /\ ~FailQueued /\ \A x \in Ids : produced[x] = None
  BY <1>1, InStepFacts
<1>4. ~DrainedFirst /\ \A x \in Ids : ~InHand(x)'
  BY <1>1, <1>2, ObjFacts DEF DrainedFirst, InHand, Free
<1>5. FailuresFinish' /\ Reasoned'
  BY <1>2, <1>3 DEF FailuresFinish, Reasoned, RaisedNow, FailQueued
<1>6. \A x \in Ids : Waits(x)'
  BY <1>2, <1>3, <1>4, FailSharedAwaited
<1> QED  BY <1>5, <1>6 DEF Awaited

(* fail_step as a job: it fails what was in flight, or raises in its turn  *)
(* and leaves every client to the engine.                                  *)
LEMMA FailJobAwaited ==
  ASSUME IInv, Orderly, Flowing, Awaited, OwnIds, FailJob
  PROVE  Awaited'
<1>1. UNCHANGED <<client, stream>> /\ Taking("fail")  BY DEF FailJob
<1>2. /\ jobs \in Seq(JobType) /\ jobs # <<>> /\ jobs' = Tail(jobs) /\ jobs[1].do = "fail"
      /\ SubmittedOnce /\ Lone /\ produced = Nothing /\ loop = "awaiting" /\ step.at = "free"
  BY <1>1, FirstOther, OrderlyFacts DEF Taking, Turns
<1>3. FailQueued  BY <1>2 DEF FailQueued
<1>4. /\ RaisedNow /\ ~DrainedFirst /\ "raise" \in Faults
      /\ \A x \in Ids : produced[x] = None
  BY <1>2, <1>3, WaitsFacts DEF RaisedNow, DrainedFirst, Reasoned, Nothing
<1>5. CASE /\ sched' = FailShared(sched, step.admitting)
           /\ produced' = ErrorOutputs(sched, Failing(sched, step.admitting))
           /\ loop' = "failed"
           /\ step' = [step EXCEPT !.admitting = None]
  <2>1. step'.admitting = None  BY <1>5, OrderlyFacts DEF StepType
  <2>2. \A x \in Ids : ~InHand(x)'  BY <2>1, ObjFacts DEF InHand
  <2>3. /\ \A x \in Ids : Waits(x)'
        /\ \A x \in Ids : produced'[x] # None => Finished(produced'[x])
    BY <1>1, <1>4, <1>5, <2>2, FailSharedAwaited
  <2>4. FailuresFinish' /\ Reasoned'
    BY <1>4, <1>5, <2>3 DEF FailuresFinish, Reasoned
  <2> QED  BY <2>3, <2>4 DEF Awaited
<1>6. CASE /\ "recovery" \in Faults
           /\ sched' = [sched EXCEPT !.failures = Counted(sched)]
           /\ loop' = "unrecovered"
           /\ UNCHANGED <<produced, step>>
  <2>1. /\ sched'.pending = sched.pending /\ sched'.waiting = sched.waiting
        /\ sched'.running = sched.running
    BY <1>6, OrderlyFacts DEF SchedulerType
  <2>2. FailuresFinish' /\ Reasoned'
    BY <1>4, <1>6 DEF FailuresFinish, Reasoned, Recovers
  <2>3. \A x \in Ids : /\ Lives(x) => Lives(x)'
                       /\ Occupies(x)' <=> Occupies(x)
                       /\ Queued(sched, x)' <=> Queued(sched, x)
                       /\ InHand(x)' <=> InHand(x)
    BY <1>6, <2>1 DEF Lives, Occupies, Queued, InHand
  <2>4. \A x \in Ids : Waits(x)'
    BY <1>1, <1>4, <1>6, <2>1, <2>3, WaitsFrame, WaitsFacts
  <2> QED  BY <2>2, <2>4 DEF Awaited
<1> QED  BY <1>5, <1>6 DEF FailJob

-----------------------------------------------------------------------------
LEMMA AwaitedPreserved ==
  ASSUME OwnIds, NeverCancelled, InsertsWhole, RetriesAlone,
         IInv, Orderly, Flowing, Awaited, [Next]_vars
  PROVE  Awaited'
<1>1. CASE UNCHANGED vars
  <2>1. UNCHANGED <<client, stream, sched, jobs, step, loop, produced>>  BY <1>1 DEF vars
  <2> QED  BY <2>1 DEF Awaited, FailuresFinish, Reasoned, RaisedNow, FailQueued, Waits, Lives,
              DrainedFirst, Occupies, Queued, InHand
<1>2. CASE Pause \/ Loop
  BY <1>2, DispatchAwaited, DeliverAwaited, SynthesiseAwaited DEF Loop
<1>3. ASSUME NEW r \in Ids, Client(r) \/ Outside(r)  PROVE Awaited'
  BY <1>3, ClientsAwaited
<1>4. CASE Worker
  <2>1. CASE AddRefused \/ AddStart \/ AddRaises \/ AddCommit \/ StepStart
    BY <2>1, AddingAwaited, AddCommitAwaited, StepStartAwaited
  <2>2. CASE DrainEnd \/ \E r \in Ids : Drain(r)
    BY <2>2, AbortedAwaited
  <2>3. CASE \/ AdmitEnd \/ Reconcile \/ Insert \/ Corrupt
             \/ \E i \in DOMAIN sched.waiting : Admit(i) \/ Defer(i)
    BY <2>3, MovesAwaited
  <2>4. CASE Decode \/ DecodeNothing \/ FailOwn \/ FailStep \/ FailJob \/ StepRaises
    BY <2>4, DecodeAwaited, FailOwnAwaited, FailStepAwaited, FailJobAwaited, StepRaisesAwaited
  <2> QED  BY <1>4, <2>1, <2>2, <2>3, <2>4 DEF Worker
<1> QED  BY <1>1, <1>2, <1>3, <1>4 DEF Next

LEMMA AwaitedSuffices ==
  ASSUME OwnIds, IInv, Orderly, Awaited
  PROVE  NoRequestStranded
<1> SUFFICES ASSUME NEW r \in Ids, client[r].at = "reading"
             PROVE  Current(r) \in Live \/ Terminal(produced[r]) \/ Terminal(stream[r].out)
  BY DEF NoRequestStranded
<1>1. Obj(r) # None /\ Current(r) = Obj(r)
  BY ObjFacts, OrderlyFacts DEF Life, Current, Obj
<1>2. Lives(r) \/ Terminal(produced[r]) \/ Terminal(stream[r].out)  BY DEF Awaited, Waits
<1>3. CASE Queued(sched, r)  BY <1>1, <1>3 DEF Queued, Live
<1>4. CASE sched.running[r] # None
  <2>1. sched.running[r] = Obj(r)  BY <1>4, OrderlyFacts DEF Place
  <2> QED  BY <1>1, <1>4, <2>1 DEF Live, InBatch, Running
<1>5. CASE InHand(r) /\ (step.at = "insert" \/ RaisedNow \/ loop = "unrecovered")
  <2>1. step.at = "insert" \/ Raised  BY <1>5 DEF RaisedNow, Raised, FailQueued
  <2>2. Obj(r) \in Admitting  BY <1>1, <1>5, <2>1 DEF Admitting, InHand
  <2> QED  BY <1>1, <2>2 DEF Live
<1> QED  BY <1>2, <1>3, <1>4, <1>5 DEF Lives

(* With ids of their own and without cancellations; if no corruption is    *)
(* met while a request is being inserted, and none while decoding once a   *)
(* recovery has raised: whatever else fails -- a request alone, the batch, *)
(* the step, the recovery from it -- a client that waits has its request   *)
(* in the queue, in the batch or in the worker's hands, or its last output *)
(* on the way to it.                                                       *)
THEOREM NoClientIsStranded ==
  ASSUME OwnIds, NeverCancelled, InsertsWhole, RetriesAlone
  PROVE  Spec => []NoRequestStranded
<1>1. Init => IInv /\ Orderly /\ Flowing /\ Awaited
  BY InitHolds, OrderlyInit, FlowInit, AwaitedInit
<1>2. IInv /\ Orderly /\ Flowing /\ Awaited /\ [Next]_vars => (IInv /\ Orderly /\ Flowing /\ Awaited)'
  BY NextPreserves, OrderlyPreserved, FlowingPreserved, AwaitedPreserved
<1>3. IInv /\ Orderly /\ Awaited => NoRequestStranded  BY AwaitedSuffices
<1> QED  BY <1>1, <1>2, <1>3, PTL DEF Spec

=============================================================================
