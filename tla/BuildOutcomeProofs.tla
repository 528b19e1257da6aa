------------------------- MODULE BuildOutcomeProofs -------------------------
(***************************************************************************)
(* Proofs about the outcomes of builds: what redelivery may do to them.    *)
(*                                                                         *)
(* The properties of this module do not hold of every deployment (the runs *)
(* build_stolen and build_race show how they fail).  Each theorem names    *)
(* the conditions it rests on, and holds for every number of functions,    *)
(* builds, relay ticks and failures.                                       *)
(***************************************************************************)
EXTENDS BuildPipelineProofs, FiniteSetTheorems

\* No message outlives BUILD_CLAIM_IDLE_MS in the hands of a running consumer.
Patient == ~SlowHandling

\* Postgres answers every write it applies.
NoLostReply == "reply" \notin FaultKinds

\* One API process runs, it builds with the local Docker daemon, and functions
\* of one name belong to one account.
OneBuilder ==
    /\ \A p, q \in Apis : p = q
    /\ ~RemoteBuilds
    /\ \A f, g \in Fns : NameOf[f] = NameOf[g] => UserOf[f] = UserOf[g]

Working == {"find", "next", "build", "commit"}

-----------------------------------------------------------------------------
(***************************************************************************)
(* The steps, by what they do to the tables and the consumers.             *)
(***************************************************************************)

\* The relay, idle clocks and orphaned CodeBuild runs.
QuietStep ==
    \/ UNCHANGED vars
    \/ \E t \in Slots : RelayStep(t) \/ RelayFault(t)
    \/ \E i \in DOMAIN log : IdleOut(i)
    \/ \E o \in orphans : OrphanLands(o)

\* They change neither an outcome nor what a stream position carries.
LEMMA QuietFacts ==
    ASSUME TypeInv, QuietStep
    PROVE  /\ UNCHANGED <<fns, versions, cons>>
           /\ \A b \in BuildIds : /\ builds'[b].st = builds[b].st
                                  /\ builds'[b].fn = builds[b].fn
                                  /\ builds'[b].tag = builds[b].tag
           /\ \A i \in DOMAIN log : i \in DOMAIN log' /\ log'[i].val = log[i].val
<1>a. log \in Seq(Entries(BuildIds, Apis))
  BY DEF TypeInv, TypeOK
<1>1. CASE UNCHANGED vars
  BY <1>1 DEF vars, db, stream
<1>2. ASSUME NEW t \in Slots, RelayLock(t) \/ RelayDbFails(t) \/ XaddFails(t)
      PROVE  UNCHANGED <<fns, versions, cons, builds, log>>
  BY <1>2 DEF RelayLock, RelayDbFails, XaddFails, db, stream
<1>3. ASSUME NEW t \in Slots, RelayCommit(t) \/ RelayReplyLost(t)
      PROVE  /\ UNCHANGED <<fns, versions, cons, log>>
             /\ \A b \in BuildIds : /\ builds'[b].st = builds[b].st
                                    /\ builds'[b].fn = builds[b].fn
                                    /\ builds'[b].tag = builds[b].tag
  BY <1>3, MarkFacts DEF RelayCommit, RelayReplyLost, stream
<1>4. ASSUME NEW t \in Slots, RelayXadd(t)
      PROVE  /\ UNCHANGED <<fns, versions, cons, builds>>
             /\ \A i \in DOMAIN log : i \in DOMAIN log' /\ log'[i] = log[i]
  <2>1. PICK b \in relay[t].ids : log' = XAdd(log, b)
    BY <1>4 DEF RelayXadd
  <2>2. b \in BuildIds
    BY DEF TypeInv, TypeOK, TickState
  <2>3. \A i \in DOMAIN log : i \in DOMAIN log' /\ log'[i] = log[i]
    BY <2>1, <2>2, PublishFacts
  <2> QED BY <1>4, <2>3 DEF RelayXadd, db
<1>5. ASSUME NEW i \in DOMAIN log, IdleOut(i)
      PROVE  /\ UNCHANGED <<fns, versions, cons, builds>>
             /\ \A j \in DOMAIN log : j \in DOMAIN log' /\ log'[j].val = log[j].val
  BY <1>5, <1>a, ExpireFacts DEF IdleOut, db
<1>6. ASSUME NEW o \in orphans, OrphanLands(o)
      PROVE  UNCHANGED <<fns, versions, cons, builds, log>>
  BY <1>6 DEF OrphanLands, db, stream
<1> QED BY <1>1, <1>2, <1>3, <1>4, <1>5, <1>6 DEF QuietStep, RelayStep, RelayFault

\* Every step is one of six kinds.
LEMMA StepKinds ==
    ASSUME [Next]_vars
    PROVE  \/ QuietStep
           \/ \E f \in Fns : Register(f) \/ Remove(f)
           \/ \E b \in BuildIds, f \in Fns : SubmitBuild(b, f)
           \/ \E p \in Apis : Boot(p) \/ Crash(p)
           \/ \E p \in Apis : ConsumerStep(p) \/ ConsumerFault(p)
  BY DEF Next, QuietStep

\* The rows and the consumers across a start or a crash of a process.
LEMMA ProcessFacts ==
    ASSUME TypeInv, NEW p \in Apis, Boot(p) \/ Crash(p)
    PROVE  /\ UNCHANGED <<fns, versions, builds, images>>
           /\ DOMAIN log' = DOMAIN log /\ \A i \in DOMAIN log : log'[i].val = log[i].val
           /\ cons'[p].pc \in {"loop", "down"} /\ cons'[p].todo = {}
           /\ \A q \in Apis : q # p => cons'[q] = cons[q]
<1>a. log \in Seq(Entries(BuildIds, Apis)) /\ cons \in [Apis -> ConsumerState]
  BY DEF TypeInv, TypeOK
<1>1. CASE Boot(p)
  <2>1. DOMAIN log' = DOMAIN log /\ \A i \in DOMAIN log : log'[i].val = log[i].val
    BY <1>1, <1>a, XGroupCreateFacts DEF Boot
  <2> QED BY <1>1, <1>a, <2>1 DEF Boot, Booted, db
<1>2. CASE Crash(p)
  BY <1>2, <1>a DEF Crash, Booted, Stopped, db, stream
<1> QED BY <1>1, <1>2

\* The two writes of runBuild, row by row.
LEMMA RecordEffects ==
    ASSUME TypeInv, NEW b \in BuildIds
    PROVE  /\ RecordFailed(b) =>
                /\ builds'[b].st = "FAILED" /\ builds'[b].fn = builds[b].fn
                /\ \A a \in BuildIds : a # b => builds'[a] = builds[a]
           /\ \A n : RecordSuccess(b, n) =>
                /\ builds'[b].st = "SUCCESS" /\ builds'[b].fn = builds[b].fn
                /\ builds'[b].tag = TagOf(FnOf(b), n)
                /\ \A a \in BuildIds : a # b => builds'[a] = builds[a]
<1>1. builds \in [BuildIds -> BuildRow] /\ builds[b] \in BuildRow
  BY DEF TypeInv, TypeOK
<1>2. [builds[b] EXCEPT !.st = "FAILED"].st = "FAILED" /\ [builds[b] EXCEPT !.st = "FAILED"].fn = builds[b].fn
  BY <1>1 DEF BuildRow
<1>3. ASSUME RecordFailed(b)
      PROVE  /\ builds'[b].st = "FAILED" /\ builds'[b].fn = builds[b].fn
             /\ \A a \in BuildIds : a # b => builds'[a] = builds[a]
  BY <1>1, <1>2, <1>3 DEF RecordFailed
<1>4. ASSUME NEW n, RecordSuccess(b, n)
      PROVE  /\ builds'[b].st = "SUCCESS" /\ builds'[b].fn = builds[b].fn
             /\ builds'[b].tag = TagOf(FnOf(b), n)
             /\ \A a \in BuildIds : a # b => builds'[a] = builds[a]
  <2> DEFINE r == [builds[b] EXCEPT !.st = "SUCCESS", !.tag = TagOf(FnOf(b), n)]
  <2>1. r.st = "SUCCESS" /\ r.fn = builds[b].fn /\ r.tag = TagOf(FnOf(b), n)
    BY <1>1 DEF BuildRow
  <2>2. builds' = [builds EXCEPT ![b] = r]
    BY <1>4 DEF RecordSuccess
  <2> HIDE DEF r
  <2> QED BY <1>1, <2>1, <2>2
<1> QED BY <1>3, <1>4

\* The step or failure of consumer p writes nothing, FAILED or a version.
WritesNothing == UNCHANGED <<builds, versions>>

WritesFailed(p) ==
    /\ cons[p].pc = "catch" /\ Exists(Current(p)) /\ RecordFailed(Current(p))
    /\ Goto(p, "ack") \/ (~NoLostReply /\ Done(p))
    /\ UNCHANGED <<versions, log, images, orphans>>

WritesVersion(p) ==
    /\ cons[p].pc = "commit" /\ ~CommitRefused(Current(p), cons[p].num)
    /\ RecordSuccess(Current(p), cons[p].num)
    /\ Goto(p, "ack") \/ (~NoLostReply /\ Goto(p, "catch"))
    /\ UNCHANGED <<log, images, orphans>>

\* A consumer step or failure writes in one of these three ways.
LEMMA ConsumerWrites ==
    ASSUME NEW p \in Apis, ConsumerStep(p) \/ ConsumerFault(p)
    PROVE  WritesNothing \/ WritesFailed(p) \/ WritesVersion(p)
<1>1. CASE \/ Reclaim(p) \/ ReadNew(p) \/ ReadNothing(p) \/ HandleMessage(p)
           \/ FindFunction(p) \/ NextVersionNumber(p)
           \/ ExecutorBuilds(p) \/ ExecutorFails(p) \/ ExecutorGivesUp(p)
           \/ AckMessage(p) \/ ConsumerDbFails(p) \/ ConsumerRedisFails(p)
  BY <1>1 DEF Reclaim, ReadNew, ReadNothing, HandleMessage, FindFunction, NextVersionNumber,
     ExecutorBuilds, ExecutorFails, ExecutorGivesUp, AckMessage, ConsumerDbFails,
     ConsumerRedisFails, db, WritesNothing
<1>2. CASE CommitVersion(p)
  BY <1>2 DEF CommitVersion, WritesNothing, WritesVersion, db, stream
<1>3. CASE CatchFailed(p)
  BY <1>3 DEF CatchFailed, WritesNothing, WritesFailed, stream
<1>4. CASE ConsumerReplyLost(p)
  BY <1>4 DEF ConsumerReplyLost, Fault, NoLostReply, WritesFailed, WritesVersion, stream
<1> QED BY <1>1, <1>2, <1>3, <1>4 DEF ConsumerStep, ConsumerFault

\* Consumer p takes a message of its batch up, or goes on with the one it has.
TakesUp(p) ==
    /\ cons[p].pc = "loop" /\ UNCHANGED <<log, builds>>
    /\ \E i \in cons[p].todo : /\ cons'[p].cur = i /\ cons'[p].todo = cons[p].todo \ {i}
                               /\ cons'[p].pc = AfterLookup(log[i].val)

GoesOn(p) ==
    /\ cons[p].pc \in Handling /\ UNCHANGED log
    /\ cons'[p].cur = cons[p].cur /\ cons'[p].todo = cons[p].todo
    /\ \/ /\ cons[p].pc = "find" /\ cons'[p].pc = "next" /\ fns[FnOf(Current(p))] = "live"
          /\ UNCHANGED <<builds, versions>>
       \/ /\ cons[p].pc = "next" /\ cons'[p].pc = "build" /\ UNCHANGED <<builds, versions>>
          /\ \E n \in 0..(MaxVersion - 1) : IsLatest(FnOf(Current(p)), n) /\ cons'[p].num = n + 1
       \/ /\ cons[p].pc = "build" /\ cons'[p].pc = "commit" /\ cons'[p].num = cons[p].num
          /\ images' = [images EXCEPT ![BuildTag(p)] = Current(p)] /\ UNCHANGED <<builds, versions>>
       \/ cons[p].pc \in Working /\ cons'[p].pc = "catch" /\ (NoLostReply => UNCHANGED builds)
       \/ cons'[p].pc = "ack"

\* The effect of Goto on the consumer it moves.
LEMMA GotoFacts ==
    ASSUME TypeInv, NEW p \in Apis, NEW pc \in ConsumerPc, Goto(p, pc)
    PROVE  /\ cons'[p].pc = pc /\ cons'[p].cur = cons[p].cur
           /\ cons'[p].num = cons[p].num /\ cons'[p].todo = cons[p].todo
<1>1. cons \in [Apis -> ConsumerState] /\ cons[p] \in ConsumerState
  BY DEF TypeInv, TypeOK
<1> QED BY <1>1 DEF Goto, ConsumerState

\* Consumer p loops, takes a message up or goes on with one.
LEMMA ConsumerPaths ==
    ASSUME TypeInv, NEW p \in Apis, ConsumerStep(p) \/ ConsumerFault(p)
    PROVE  cons'[p].pc = "loop" \/ TakesUp(p) \/ GoesOn(p)
<1>a. cons \in [Apis -> ConsumerState] /\ cons[p] \in ConsumerState
  BY DEF TypeInv, TypeOK
<1>b. {"find", "next", "build", "commit", "catch", "ack"} \subseteq ConsumerPc
  BY DEF ConsumerPc
<1>c. ASSUME Done(p) PROVE cons'[p].pc = "loop"
  BY <1>a, <1>c DEF Done, ConsumerState
<1>1. CASE Reclaim(p) \/ ReadNew(p) \/ ReadNothing(p)
  BY <1>1, <1>a DEF Reclaim, ReadNew, ReadNothing, InLoop, ConsumerState
<1>2. CASE HandleMessage(p)
  <2>1. PICK i \in cons[p].todo :
           cons' = [cons EXCEPT ![p] =
                      [cons[p] EXCEPT !.todo = @ \ {i},
                                      !.pc = AfterLookup(log[i].val),
                                      !.cur = IF AfterLookup(log[i].val) = "loop" THEN 0 ELSE i]]
    BY <1>2 DEF HandleMessage
  <2>2. /\ cons'[p].pc = AfterLookup(log[i].val) /\ cons'[p].todo = cons[p].todo \ {i}
        /\ cons'[p].cur = IF AfterLookup(log[i].val) = "loop" THEN 0 ELSE i
    BY <1>a, <2>1 DEF ConsumerState
  <2> QED BY <1>2, <2>2 DEF HandleMessage, TakesUp, db, stream
<1>3. CASE FindFunction(p)
  BY <1>3, <1>b, GotoFacts DEF FindFunction, GoesOn, Working, Handling, db, stream
<1>4. CASE NextVersionNumber(p)
  <2>1. PICK n \in 0..(MaxVersion - 1) :
           /\ IsLatest(FnOf(Current(p)), n)
           /\ cons' = [cons EXCEPT ![p] = [@ EXCEPT !.pc = "build", !.num = n + 1]]
    BY <1>4 DEF NextVersionNumber
  <2>2. /\ cons'[p].pc = "build" /\ cons'[p].num = n + 1
        /\ cons'[p].cur = cons[p].cur /\ cons'[p].todo = cons[p].todo
    BY <1>a, <2>1 DEF ConsumerState
  <2> QED BY <1>4, <1>b, <2>1, <2>2 DEF NextVersionNumber, GoesOn, Handling, db, stream
<1>5. CASE ExecutorBuilds(p)
  <2>1. Goto(p, "commit") /\ "commit" \in ConsumerPc
    BY <1>5, <1>b DEF ExecutorBuilds
  <2>2. /\ cons'[p].pc = "commit" /\ cons'[p].cur = cons[p].cur
        /\ cons'[p].num = cons[p].num /\ cons'[p].todo = cons[p].todo
    BY <2>1, GotoFacts
  <2> QED BY <1>5, <1>b, <2>2 DEF ExecutorBuilds, GoesOn, Handling, db, stream
<1>6. CASE ExecutorFails(p) \/ ExecutorGivesUp(p)
  BY <1>6, <1>b, GotoFacts DEF ExecutorFails, ExecutorGivesUp, GoesOn, Working, Handling, db, stream
<1>7. CASE CommitVersion(p)
  BY <1>7, <1>b, GotoFacts DEF CommitVersion, GoesOn, Working, Handling, db, stream
<1>8. CASE CatchFailed(p)
  BY <1>8, <1>b, <1>c, GotoFacts DEF CatchFailed, GoesOn, Handling, stream
<1>9. CASE AckMessage(p)
  BY <1>9, <1>c DEF AckMessage
<1>10. CASE ConsumerDbFails(p)
  <2>1. CASE cons[p].pc \in {"find", "next", "commit"} /\ Goto(p, "catch")
    BY <1>10, <1>b, <2>1, GotoFacts DEF ConsumerDbFails, GoesOn, Working, Handling, db, stream
  <2>2. CASE cons[p].pc = "loop" /\ \E i \in cons[p].todo : cons' = [cons EXCEPT ![p].todo = @ \ {i}]
    BY <1>a, <2>2 DEF ConsumerState
  <2> QED BY <1>10, <1>c, <2>1, <2>2 DEF ConsumerDbFails
<1>11. CASE ConsumerReplyLost(p)
  BY <1>11, <1>b, <1>c, GotoFacts
     DEF ConsumerReplyLost, Fault, NoLostReply, GoesOn, Working, Handling, stream
<1>12. CASE ConsumerRedisFails(p)
  BY <1>12, <1>a, <1>c DEF ConsumerRedisFails, InLoop, ConsumerState
<1> QED BY <1>1, <1>2, <1>3, <1>4, <1>5, <1>6, <1>7, <1>8, <1>9, <1>10, <1>11, <1>12
        DEF ConsumerStep, ConsumerFault

\* Only a finished docker build, or a CodeBuild run that is given up, leaves
\* something behind outside the tables.
LEMMA ConsumerImages ==
    ASSUME TypeInv, NEW p \in Apis, ConsumerStep(p) \/ ConsumerFault(p)
    PROVE  /\ RemoteBuilds \/ UNCHANGED orphans
           /\ UNCHANGED images \/ (GoesOn(p) /\ cons[p].pc = "build" /\ cons'[p].pc = "commit")
<1>1. CASE ExecutorBuilds(p)
  <2>1. Goto(p, "commit") /\ "commit" \in ConsumerPc /\ cons[p].pc = "build"
    BY <1>1 DEF ExecutorBuilds, ConsumerPc
  <2>2. cons'[p].pc = "commit"
    BY <2>1, GotoFacts
  <2>3. GoesOn(p)
    BY <2>2, ConsumerPaths DEF TakesUp, AfterLookup
  <2> QED BY <1>1, <2>1, <2>2, <2>3 DEF ExecutorBuilds
<1>2. CASE ~ExecutorBuilds(p)
  BY <1>2 DEF ConsumerStep, ConsumerFault, Reclaim, ReadNew, ReadNothing, HandleMessage, FindFunction,
     NextVersionNumber, ExecutorFails, ExecutorGivesUp, CommitVersion, CatchFailed,
     AckMessage, ConsumerDbFails, ConsumerReplyLost, ConsumerRedisFails
<1> QED BY <1>1, <1>2

-----------------------------------------------------------------------------
(***************************************************************************)
(* The tables.  The rows of a function go with it, an account has one      *)
(* function of a name, and all the numbers below a version's are taken.    *)
(***************************************************************************)
RowLife ==
    \A b \in BuildIds : /\ Exists(b) => fns[FnOf(b)] = "live"
                        /\ builds[b].st = "deleted" => fns[FnOf(b)] = "deleted"
                        /\ builds[b].st = "none" => FnOf(b) = NoFn

VersionLife ==
    \A v \in versions : /\ fns[v.fn] = "live" /\ v.tag = TagOf(v.fn, v.num)
                        /\ \A k \in 1..v.num : \E w \in versions : w.fn = v.fn /\ w.num = k

NameLife ==
    \A f, g \in Fns :
        fns[f] = "live" /\ fns[g] = "live" /\ UserOf[f] = UserOf[g] /\ NameOf[f] = NameOf[g] => f = g

LifeInv == RowLife /\ VersionLife /\ NameLife

\* The build a consumer commits or fails is a PENDING or finished row.
LEMMA WrittenExists ==
    ASSUME TypeInv, LifeInv, NEW p \in Apis, WritesFailed(p) \/ WritesVersion(p)
    PROVE  Current(p) \in BuildIds /\ Exists(Current(p)) /\ fns[FnOf(Current(p))] = "live"
<1>1. cons[p].pc \in Handling
  BY DEF WritesFailed, WritesVersion, Handling, ConsumerPc
<1>2. Current(p) \in BuildIds /\ builds[Current(p)].st # "none"
  BY <1>1, CurrentFacts
<1>3. Exists(Current(p)) \/ fns[FnOf(Current(p))] = "live"
  BY DEF WritesFailed, WritesVersion, CommitRefused
<1> QED BY <1>2, <1>3 DEF LifeInv, RowLife, Exists

\* Every step preserves LifeInv.
LEMMA LifeInvStep ==
    ASSUME TypeInv, VersionInv, LifeInv, [Next]_vars
    PROVE  LifeInv'
<1>a. /\ fns \in [Fns -> {"absent", "live", "deleted"}] /\ versions \subseteq VersionRow
      /\ builds \in [BuildIds -> BuildRow]
      /\ \A v \in versions : v.fn \in Fns /\ v.num \in 1..MaxVersion
  BY DEF TypeInv, TypeOK, VersionRow
<1>b. ASSUME UNCHANGED <<fns, versions>>,
             \A b \in BuildIds : builds'[b].st = builds[b].st /\ builds'[b].fn = builds[b].fn
      PROVE  LifeInv'
  BY <1>b DEF LifeInv, RowLife, VersionLife, NameLife, Exists, FnOf
<1>1. CASE QuietStep
  BY <1>1, <1>b, QuietFacts
<1>2. ASSUME NEW f \in Fns, Register(f) PROVE LifeInv'
  <2>1. /\ fns[f] = "absent" /\ fns' = [fns EXCEPT ![f] = "live"] /\ UNCHANGED <<builds, versions>>
        /\ \A g \in Fns : fns[g] = "live" => ~(UserOf[g] = UserOf[f] /\ NameOf[g] = NameOf[f])
    BY <1>2 DEF Register
  <2>2. RowLife'
    <3> SUFFICES ASSUME NEW b \in BuildIds
                 PROVE  /\ Exists(b) => fns'[FnOf(b)] = "live"
                        /\ builds[b].st = "deleted" => fns'[FnOf(b)] = "deleted"
                        /\ builds[b].st = "none" => FnOf(b) = NoFn
      BY <2>1 DEF RowLife, Exists, FnOf
    <3>1. builds[b].st # "none" => FnOf(b) \in Fns
      BY DEF TypeInv, RowInv, FnOf
    <3> QED BY <1>a, <2>1, <3>1 DEF LifeInv, RowLife, Exists
  <2>3. VersionLife'
    BY <1>a, <2>1 DEF LifeInv, VersionLife
  <2>4. NameLife'
    BY <1>a, <2>1 DEF LifeInv, NameLife
  <2> QED BY <2>2, <2>3, <2>4 DEF LifeInv
<1>3. ASSUME NEW f \in Fns, Remove(f) PROVE LifeInv'
  <2>1. /\ fns[f] = "live" /\ fns' = [fns EXCEPT ![f] = "deleted"]
        /\ versions' = {v \in versions : v.fn # f}
    BY <1>3 DEF Remove
  <2>2. RowLife'
    <3> SUFFICES ASSUME NEW b \in BuildIds
                 PROVE  /\ builds'[b].st \notin {"none", "deleted"} => fns'[builds'[b].fn] = "live"
                        /\ builds'[b].st = "deleted" => fns'[builds'[b].fn] = "deleted"
                        /\ builds'[b].st = "none" => builds'[b].fn = NoFn
      BY DEF RowLife, Exists, FnOf
    <3>1. /\ builds'[b].fn = builds[b].fn
          /\ builds'[b].st = "none" <=> builds[b].st = "none"
          /\ builds'[b].st # builds[b].st => builds'[b].st = "deleted"
          /\ builds[b].fn = f => builds'[b].st \in {"none", "deleted"}
      BY <1>3, RemoveFacts
    <3>2. builds[b].st # "none" => builds[b].fn \in Fns
      BY DEF TypeInv, RowInv
    <3>3. builds'[b].st # builds[b].st => builds[b].fn = f
      BY <1>3 DEF Remove, FnOf
    <3>4. /\ builds[b].st \notin {"none", "deleted"} => fns[builds[b].fn] = "live"
          /\ builds[b].st = "deleted" => fns[builds[b].fn] = "deleted"
          /\ builds[b].st = "none" => builds[b].fn = NoFn
      BY DEF LifeInv, RowLife, Exists, FnOf
    <3> QED BY <1>a, <2>1, <3>1, <3>2, <3>3, <3>4
  <2>3. VersionLife'
    BY <1>a, <2>1 DEF LifeInv, VersionLife
  <2>4. NameLife'
    BY <1>a, <2>1 DEF LifeInv, NameLife
  <2> QED BY <2>2, <2>3, <2>4 DEF LifeInv
<1>4. ASSUME NEW b \in BuildIds, NEW f \in Fns, SubmitBuild(b, f) PROVE LifeInv'
  <2>1. PICK r \in BuildRow : r.fn = f /\ r.st = "PENDING" /\ builds' = [builds EXCEPT ![b] = r]
    BY <1>4, SubmitFacts
  <2>2. fns[f] = "live" /\ UNCHANGED <<fns, versions>>
    BY <1>4 DEF SubmitBuild
  <2>3. RowLife'
    BY <1>a, <2>1, <2>2 DEF LifeInv, RowLife, Exists, FnOf
  <2> QED BY <2>2, <2>3 DEF LifeInv, VersionLife, NameLife
<1>5. ASSUME NEW p \in Apis, Boot(p) \/ Crash(p) PROVE LifeInv'
  BY <1>5, <1>b, ProcessFacts
<1>6. ASSUME NEW p \in Apis, ConsumerStep(p) \/ ConsumerFault(p) PROVE LifeInv'
  <2> DEFINE b == Current(p)
  <2>1. UNCHANGED fns
    BY <1>6, ConsumerKeeps
  <2>2. CASE WritesNothing
    BY <1>b, <2>1, <2>2 DEF WritesNothing
  <2>3. CASE WritesFailed(p) \/ WritesVersion(p)
    <3>1. b \in BuildIds /\ Exists(b) /\ fns[FnOf(b)] = "live"
      BY <2>3, WrittenExists
    <3>2. /\ builds'[b].st \in {"SUCCESS", "FAILED"} /\ builds'[b].fn = builds[b].fn
          /\ \A a \in BuildIds : a # b => builds'[a] = builds[a]
      BY <2>3, <3>1, RecordEffects DEF WritesFailed, WritesVersion
    <3> HIDE DEF b
    <3>3. RowLife'
      BY <2>1, <3>1, <3>2 DEF LifeInv, RowLife, Exists, FnOf
    <3>4. NameLife'
      BY <2>1 DEF LifeInv, NameLife
    <3>5. VersionLife'
      <4>1. CASE UNCHANGED versions
        BY <2>1, <4>1 DEF LifeInv, VersionLife
      <4>2. CASE WritesVersion(p)
        <5> DEFINE f == FnOf(b)
                   n == cons[p].num
                   v == [fn |-> f, num |-> n, tag |-> TagOf(f, n), by |-> b]
        <5>1. v.fn = f /\ v.num = n /\ v.tag = TagOf(f, n) /\ versions' = versions \cup {v}
          BY <4>2 DEF WritesVersion, RecordSuccess, b
        <5>2. cons[p].pc = "commit" /\ n \in 1..MaxVersion
          BY <4>2, CurrentFacts DEF WritesVersion, Handling, ConsumerPc
        <5>3. Precedes(f, n)
          BY <3>1, <5>2 DEF VersionInv, NumberInv, b
        <5>4. fns[f] = "live"
          BY <3>1
        <5> HIDE DEF v, f, n
        <5>5. \A k \in 1..n : \E w \in versions' : w.fn = f /\ w.num = k
          <6> TAKE k \in 1..n
          <6>1. CASE k = n
            BY <5>1, <6>1
          <6>2. CASE k # n
            <7>1. PICK u \in versions : u.fn = f /\ u.num = n - 1
              BY <5>2, <5>3, <6>2 DEF Precedes
            <7>2. k \in 1..u.num
              BY <5>2, <6>2, <7>1
            <7> QED BY <5>1, <7>1, <7>2 DEF LifeInv, VersionLife
          <6> QED BY <6>1, <6>2
        <5> QED BY <2>1, <5>1, <5>4, <5>5 DEF LifeInv, VersionLife
      <4> QED BY <2>3, <4>1, <4>2 DEF WritesFailed
    <3> QED BY <3>3, <3>4, <3>5 DEF LifeInv
  <2> QED BY <1>6, <2>2, <2>3, ConsumerWrites
<1> QED BY <1>1, <1>2, <1>3, <1>4, <1>5, <1>6, StepKinds

\* The tables are empty at first.
LEMMA LifeInvInit == Init => LifeInv
  BY DEF Init, LifeInv, RowLife, VersionLife, NameLife, Exists, FnOf

\* A consumer that keeps its message keeps its build and its function.
LEMMA CurrentKept ==
    ASSUME TypeInv, NEW q \in Apis, cons[q].pc \in Handling, cons'[q].cur = cons[q].cur,
           \A i \in DOMAIN log : log'[i].val = log[i].val,
           \A b \in BuildIds : builds[b].st # "none" => builds'[b].fn = builds[b].fn
    PROVE  Current(q)' = Current(q) /\ FnOf(Current(q))' = FnOf(Current(q))
<1>1. cons[q].cur \in DOMAIN log /\ Current(q) \in BuildIds /\ builds[Current(q)].st # "none"
  BY CurrentFacts
<1>2. Current(q)' = Current(q)
  BY <1>1 DEF Current
<1> QED BY <1>1, <1>2 DEF FnOf

\* Created rows stay with their function, and positions keep their message.
LEMMA StepKeeps ==
    ASSUME TypeInv, [Next]_vars
    PROVE  /\ \A i \in DOMAIN log : i \in DOMAIN log' /\ log'[i].val = log[i].val
           /\ \A b \in BuildIds : builds[b].st # "none" => builds'[b].fn = builds[b].fn
<1>1. CASE QuietStep
  BY <1>1, QuietFacts
<1>2. ASSUME NEW f \in Fns, Register(f) \/ Remove(f)
      PROVE  /\ \A i \in DOMAIN log : i \in DOMAIN log' /\ log'[i].val = log[i].val
             /\ \A b \in BuildIds : builds[b].st # "none" => builds'[b].fn = builds[b].fn
  BY <1>2, RemoveFacts DEF Register, Remove, stream
<1>3. ASSUME NEW b \in BuildIds, NEW f \in Fns, SubmitBuild(b, f)
      PROVE  /\ \A i \in DOMAIN log : i \in DOMAIN log' /\ log'[i].val = log[i].val
             /\ \A a \in BuildIds : builds[a].st # "none" => builds'[a].fn = builds[a].fn
  <2>1. PICK r \in BuildRow : builds' = [builds EXCEPT ![b] = r]
    BY <1>3, SubmitFacts
  <2> QED BY <1>3, <2>1 DEF SubmitBuild, stream, TypeInv, TypeOK
<1>4. ASSUME NEW p \in Apis, Boot(p) \/ Crash(p)
      PROVE  /\ \A i \in DOMAIN log : i \in DOMAIN log' /\ log'[i].val = log[i].val
             /\ \A b \in BuildIds : builds[b].st # "none" => builds'[b].fn = builds[b].fn
  BY <1>4, ProcessFacts
<1>5. ASSUME NEW p \in Apis, ConsumerStep(p) \/ ConsumerFault(p)
      PROVE  /\ \A i \in DOMAIN log : i \in DOMAIN log' /\ log'[i].val = log[i].val
             /\ \A b \in BuildIds : builds[b].st # "none" => builds'[b].fn = builds[b].fn
  BY <1>5, ConsumerKeeps DEF StreamKept, RowsKept
<1> QED BY <1>1, <1>2, <1>3, <1>4, <1>5, StepKinds

-----------------------------------------------------------------------------
(***************************************************************************)
(* Images.  A tag holds only the function's name and the version number.   *)
(* With one builder the number it has computed is still free when it tags  *)
(* the image and when it commits, and a function of the same name that was *)
(* removed has taken its versions with it.                                 *)
(***************************************************************************)
TagInv ==
    \A p \in Apis :
        /\ cons[p].pc \in {"next", "build", "commit"} =>
             \A v \in versions : NameOf[v.fn] = NameOf[FnOf(Current(p))] => v.fn = FnOf(Current(p))
        /\ cons[p].pc \in {"build", "commit"} => \A v \in versions : v.tag # BuildTag(p)
        /\ cons[p].pc = "commit" => images[BuildTag(p)] = Current(p)

ImageInv == orphans = {} /\ ImageMatchesVersion /\ TagInv

\* Steps that tag no image and add no version.
LEMMA ImageFrame ==
    ASSUME TypeInv, ImageInv, [Next]_vars, versions' \subseteq versions, UNCHANGED <<images, orphans>>,
           \A p \in Apis : cons'[p] = cons[p] \/ cons'[p].pc \notin {"next", "build", "commit"}
    PROVE  ImageInv'
<1>1. ImageMatchesVersion'
  BY DEF ImageInv, ImageMatchesVersion
<1>2. TagInv'
  <2> SUFFICES ASSUME NEW p \in Apis, cons'[p].pc \in {"next", "build", "commit"}
               PROVE  /\ \A v \in versions' : NameOf[v.fn] = NameOf[FnOf(Current(p))'] => v.fn = FnOf(Current(p))'
                      /\ cons'[p].pc \in {"build", "commit"} => \A v \in versions' : v.tag # BuildTag(p)'
                      /\ cons'[p].pc = "commit" => images'[BuildTag(p)'] = Current(p)'
    BY DEF TagInv
  <2>1. cons'[p] = cons[p] /\ cons[p].pc \in Handling
    BY DEF Handling, ConsumerPc
  <2>2. Current(p)' = Current(p) /\ FnOf(Current(p))' = FnOf(Current(p))
    BY <2>1, StepKeeps, CurrentKept
  <2>3. BuildTag(p)' = BuildTag(p)
    BY <2>1, <2>2 DEF BuildTag
  <2> QED BY <2>1, <2>2, <2>3 DEF ImageInv, TagInv
<1> QED BY <1>1, <1>2 DEF ImageInv

\* Every step of a system with one builder preserves ImageInv.
LEMMA ImageInvStep ==
    ASSUME OneBuilder, TypeInv, LifeInv, ImageInv, [Next]_vars
    PROVE  ImageInv'
<1>a. \A v \in versions : v.fn \in Fns /\ v.num \in 1..MaxVersion
  BY DEF TypeInv, TypeOK, VersionRow
<1>1. CASE QuietStep
  <2>1. UNCHANGED <<images, orphans>>
    BY <1>1 DEF QuietStep, vars, RelayStep, RelayFault, RelayLock, RelayCommit, RelayXadd, RelayDbFails,
       RelayReplyLost, XaddFails, IdleOut, ImageInv
  <2> QED BY <1>1, <2>1, QuietFacts, ImageFrame
<1>2. ASSUME NEW f \in Fns, Register(f) \/ Remove(f) PROVE ImageInv'
  BY <1>2, ImageFrame DEF Register, Remove
<1>3. ASSUME NEW b \in BuildIds, NEW f \in Fns, SubmitBuild(b, f) PROVE ImageInv'
  BY <1>3, ImageFrame DEF SubmitBuild
<1>4. ASSUME NEW p \in Apis, Boot(p) \/ Crash(p) PROVE ImageInv'
  <2>1. UNCHANGED orphans
    BY <1>4 DEF Boot, Crash, OneBuilder
  <2>2. \A q \in Apis : cons'[q] = cons[q] \/ cons'[q].pc \notin {"next", "build", "commit"}
    BY <1>4, ProcessFacts
  <2> QED BY <1>4, <2>1, <2>2, ProcessFacts, ImageFrame
<1>5. ASSUME NEW p \in Apis, ConsumerStep(p) \/ ConsumerFault(p) PROVE ImageInv'
  <2> DEFINE f == FnOf(Current(p))
  <2>a. UNCHANGED orphans /\ \A q \in Apis : q = p
    BY <1>5, ConsumerImages DEF OneBuilder
  <2>b. ASSUME versions' = versions, cons'[p].pc \notin {"next", "build", "commit"} PROVE ImageInv'
    <3>1. UNCHANGED images
      BY <1>5, <2>b, ConsumerImages
    <3> QED BY <2>a, <2>b, <3>1, ImageFrame
  <2>c. GoesOn(p) => Current(p)' = Current(p) /\ FnOf(Current(p))' = f
    BY StepKeeps, CurrentKept DEF GoesOn
  <2>d. GoesOn(p) => f \in Fns
    BY CurrentFacts DEF GoesOn
  <2>1. CASE WritesVersion(p)
    <3> DEFINE n == cons[p].num
               v == [fn |-> f, num |-> n, tag |-> TagOf(f, n), by |-> Current(p)]
    <3>1. v.tag = TagOf(f, n) /\ v.by = Current(p) /\ versions' = versions \cup {v}
      BY <2>1 DEF WritesVersion, RecordSuccess
    <3>2. cons[p].pc = "commit" /\ UNCHANGED images /\ BuildTag(p) = TagOf(f, n)
      BY <2>1 DEF WritesVersion, BuildTag
    <3>3. images[TagOf(f, n)] = Current(p)
      BY <3>2 DEF ImageInv, TagInv
    <3> HIDE DEF v
    <3>4. ImageMatchesVersion'
      BY <3>1, <3>2, <3>3 DEF ImageInv, ImageMatchesVersion
    <3>5. cons'[p].pc \in {"ack", "catch"}
      BY <2>1, GotoFacts DEF WritesVersion, ConsumerPc
    <3>6. TagInv'
      BY <2>a, <3>5 DEF TagInv
    <3> QED BY <2>a, <3>4, <3>6 DEF ImageInv
  <2>2. CASE WritesFailed(p)
    <3>1. cons'[p].pc \in {"ack", "loop"}
      <4>1. cons \in [Apis -> ConsumerState]
        BY DEF TypeInv, TypeOK
      <4> QED BY <2>2, <4>1 DEF WritesFailed, Goto, Done, ConsumerState
    <3> QED BY <2>2, <2>b, <3>1 DEF WritesFailed
  <2>3. CASE WritesNothing /\ cons'[p].pc \notin {"next", "build", "commit"}
    BY <2>3, <2>b DEF WritesNothing
  <2>4. CASE WritesNothing /\ GoesOn(p) /\ cons'[p].pc = "next"
    <3>1. fns[f] = "live" /\ UNCHANGED <<versions, images>>
      BY <1>5, <2>4, ConsumerImages DEF GoesOn, WritesNothing
    <3>2. \A v \in versions : NameOf[v.fn] = NameOf[f] => v.fn = f
      BY <1>a, <2>d, <2>4, <3>1 DEF LifeInv, VersionLife, NameLife, OneBuilder
    <3> HIDE DEF f
    <3>3. TagInv'
      BY <2>a, <2>c, <2>4, <3>1, <3>2 DEF TagInv
    <3> QED BY <2>a, <3>1, <3>3 DEF ImageInv, ImageMatchesVersion
  <2>5. CASE WritesNothing /\ GoesOn(p) /\ cons'[p].pc = "build"
    <3>1. PICK n \in 0..(MaxVersion - 1) : IsLatest(f, n) /\ cons'[p].num = n + 1
      BY <2>5 DEF GoesOn
    <3>2. cons[p].pc = "next" /\ UNCHANGED <<versions, images>>
      BY <1>5, <2>5, ConsumerImages DEF GoesOn
    <3>3. \A v \in versions : NameOf[v.fn] = NameOf[f] => v.fn = f
      BY <3>2 DEF ImageInv, TagInv
    <3>4. BuildTag(p)' = TagOf(f, n + 1)
      BY <2>c, <2>5, <3>1 DEF BuildTag
    <3>5. \A v \in versions : v.tag # TagOf(f, n + 1)
      <4> SUFFICES ASSUME NEW v \in versions, v.tag = TagOf(f, n + 1) PROVE FALSE
        OBVIOUS
      <4>1. NameOf[v.fn] = NameOf[f] /\ v.num = n + 1
        BY DEF LifeInv, VersionLife, TagOf
      <4> QED BY <3>1, <3>3, <4>1 DEF IsLatest
    <3> HIDE DEF f
    <3>6. TagInv'
      BY <2>a, <2>c, <2>5, <3>2, <3>3, <3>4, <3>5 DEF TagInv
    <3> QED BY <2>a, <3>2, <3>6 DEF ImageInv, ImageMatchesVersion
  <2>6. CASE WritesNothing /\ GoesOn(p) /\ cons'[p].pc = "commit"
    <3>1. /\ cons[p].pc = "build" /\ cons'[p].num = cons[p].num /\ UNCHANGED versions
          /\ images' = [images EXCEPT ![BuildTag(p)] = Current(p)]
      BY <2>6 DEF GoesOn
    <3>2. BuildTag(p)' = BuildTag(p)
      BY <2>c, <2>6, <3>1 DEF BuildTag
    <3>3. BuildTag(p) \in Tags /\ images \in [Tags -> BuildIds \cup {0}]
      BY <3>1, CurrentFacts DEF Handling, ConsumerPc, TypeInv, TypeOK
    <3>4. \A v \in versions : v.tag # BuildTag(p)
      BY <3>1 DEF ImageInv, TagInv
    <3>5. images'[BuildTag(p)] = Current(p) /\ \A v \in versions : images'[v.tag] = images[v.tag]
      <4>1. \A v \in versions : v.tag \in Tags
        BY DEF TypeInv, TypeOK, VersionRow
      <4> QED BY <3>1, <3>3, <3>4, <4>1
    <3>6. \A v \in versions : NameOf[v.fn] = NameOf[f] => v.fn = f
      BY <3>1 DEF ImageInv, TagInv
    <3> HIDE DEF f
    <3>7. TagInv'
      BY <2>a, <2>c, <2>6, <3>1, <3>2, <3>4, <3>5, <3>6 DEF TagInv
    <3> QED BY <2>a, <3>1, <3>5, <3>7 DEF ImageInv, ImageMatchesVersion
  <2>7. TakesUp(p) => cons'[p].pc \notin {"next", "build", "commit"}
    BY DEF TakesUp, AfterLookup
  <2> QED BY <1>5, <2>1, <2>2, <2>3, <2>4, <2>5, <2>6, <2>7, ConsumerWrites, ConsumerPaths
<1> QED BY <1>1, <1>2, <1>3, <1>4, <1>5, StepKinds

\* A version is immutable: with one builder, no later build, redelivery, crash or
\* lost reply, and no function that takes over a removed one's name, ever moves
\* the tag of a version to another build's image.
THEOREM BuildImageMatchesVersion ==
    ASSUME OneBuilder
    PROVE  Spec => []ImageMatchesVersion
<1>1. Init => TypeInv /\ VersionInv /\ LifeInv /\ ImageInv
  <2> SUFFICES ASSUME Init PROVE VersionInv /\ ImageInv
    BY TypeInvInit, LifeInvInit
  <2>1. VersionInv
    BY DEF Init, VersionInv, VersionsContiguous, SuccessHasVersion, NumberInv, Stopped, Booted
  <2>2. ImageInv
    BY DEF Init, ImageInv, ImageMatchesVersion, TagInv, Stopped, Booted
  <2> QED BY <2>1, <2>2
<1>2. TypeInv /\ VersionInv /\ LifeInv /\ ImageInv /\ [Next]_vars
        => (TypeInv /\ VersionInv /\ LifeInv /\ ImageInv)'
  BY TypeInvStep, VersionInvStep, LifeInvStep, ImageInvStep
<1>3. ImageInv => ImageMatchesVersion
  BY DEF ImageInv
<1> QED BY <1>1, <1>2, <1>3, PTL DEF Spec

-----------------------------------------------------------------------------
(***************************************************************************)
(* Who handles a message.  As long as no message outlives the claim's idle *)
(* time in a running consumer, what a consumer holds is in its own PEL and *)
(* not idle: XAUTOCLAIM takes nothing from a running consumer, and no two  *)
(* consumers hold the same message.                                        *)
(***************************************************************************)
Holds(p, i) == i \in cons[p].todo \/ (cons[p].pc \in Handling /\ i = cons[p].cur)

InPelOf(p, i) == log[i].st = "pending" /\ log[i].owner = p /\ ~log[i].idle

HoldInv ==
    \A p \in Apis :
        /\ cons[p].pc = "down" => cons[p].todo = {}
        /\ cons[p].pc \in Handling => cons[p].cur \notin cons[p].todo
        /\ \A i \in DOMAIN log : Holds(p, i) => InPelOf(p, i)

\* What a consumer holds exists, and is Held in the sense of IdleOut.
LEMMA HoldFacts ==
    ASSUME TypeInv, HoldInv, NEW p \in Apis, NEW i, Holds(p, i)
    PROVE  i \in DOMAIN log /\ InPelOf(p, i) /\ Held(i)
<1>1. i \in DOMAIN log
  BY DEF TypeInv, ConsumerInv, Holds
<1>2. cons[p].pc # "down" /\ (i = cons[p].cur \/ i \in cons[p].todo)
  BY DEF HoldInv, Holds, Handling
<1> QED BY <1>1, <1>2 DEF HoldInv, Held

\* Steps after which nobody holds more, and what is held is as it was.
LEMMA HoldShrinks ==
    ASSUME TypeInv, HoldInv,
           \A q \in Apis : /\ cons'[q].pc = "down" => cons'[q].todo = {}
                           /\ cons'[q].pc \in Handling => cons'[q].cur \notin cons'[q].todo
                           /\ \A i \in DOMAIN log' : Holds(q, i)' => Holds(q, i) /\ log'[i] = log[i]
    PROVE  HoldInv'
<1> SUFFICES ASSUME NEW q \in Apis, NEW i \in DOMAIN log', Holds(q, i)' PROVE InPelOf(q, i)'
  BY DEF HoldInv
<1>1. Holds(q, i) /\ log'[i] = log[i]
  OBVIOUS
<1>2. InPelOf(q, i)
  BY <1>1, HoldFacts
<1> QED BY <1>1, <1>2 DEF InPelOf

\* Steps of the other parts of the system, and of consumers that keep what they hold.
LEMMA HoldKept ==
    ASSUME TypeInv, HoldInv, UNCHANGED cons,
           \A q \in Apis : \A i \in DOMAIN log : Holds(q, i) => log'[i] = log[i]
    PROVE  HoldInv'
<1>1. ASSUME NEW q \in Apis, NEW i \in DOMAIN log', Holds(q, i)' PROVE Holds(q, i) /\ log'[i] = log[i]
  <2>1. Holds(q, i)
    BY <1>1 DEF Holds
  <2> QED BY <2>1, HoldFacts
<1>2. \A q \in Apis : /\ cons'[q].pc = "down" => cons'[q].todo = {}
                      /\ cons'[q].pc \in Handling => cons'[q].cur \notin cons'[q].todo
  BY DEF HoldInv
<1> QED BY <1>1, <1>2, HoldShrinks

\* Steps of consumer p that give it the entries S, which nobody held.
LEMMA HoldGrows ==
    ASSUME TypeInv, HoldInv, NEW p \in Apis, NEW S,
           cons'[p].pc = "loop", cons'[p].todo = S,
           \A q \in Apis : q # p => cons'[q] = cons[q],
           \A i \in S : InPelOf(p, i)',
           \A q \in Apis : \A i \in DOMAIN log : Holds(q, i) => log'[i] = log[i]
    PROVE  HoldInv'
<1> SUFFICES ASSUME NEW q \in Apis
             PROVE  /\ cons'[q].pc = "down" => cons'[q].todo = {}
                    /\ cons'[q].pc \in Handling => cons'[q].cur \notin cons'[q].todo
                    /\ \A i \in DOMAIN log' : Holds(q, i)' => InPelOf(q, i)'
  BY DEF HoldInv
<1>1. CASE q = p
  BY <1>1 DEF Holds, Handling
<1>2. CASE q # p
  <2>1. cons'[q] = cons[q]
    BY <1>2
  <2>2. ASSUME NEW i \in DOMAIN log', Holds(q, i)' PROVE InPelOf(q, i)'
    <3>1. Holds(q, i)
      BY <2>1, <2>2 DEF Holds
    <3> QED BY <3>1, HoldFacts DEF InPelOf
  <2> QED BY <2>1, <2>2 DEF HoldInv
<1> QED BY <1>1, <1>2

\* A delivery of a new entry, and an XAUTOCLAIM, take nothing anybody holds.
LEMMA HeldUntouched ==
    ASSUME TypeInv, HoldInv, NEW p \in Apis, NEW q \in Apis, NEW j \in DOMAIN log, Holds(q, j)
    PROVE  /\ XAutoClaim(log, p)[j] = log[j]
           /\ \A i \in DOMAIN log : log[i].st = "new" => Deliver(log, i, p)[j] = log[j]
<1>a. log \in Seq(Entries(BuildIds, Apis))
  BY DEF TypeInv, TypeOK
<1>1. log[j].st = "pending" /\ ~log[j].idle
  BY HoldFacts DEF InPelOf
<1>2. j \notin Expired(log)
  BY <1>1 DEF Expired
<1>3. ASSUME NEW i \in DOMAIN log, log[i].st = "new" PROVE Deliver(log, i, p)[j] = log[j]
  <2>1. i # j
    BY <1>1, <1>3
  <2> QED BY <1>a, <2>1, DeliverFacts
<1> QED BY <1>a, <1>2, <1>3, XAutoClaimOwner

\* Every step of a patient system preserves HoldInv.
LEMMA HoldInvStep ==
    ASSUME Patient, TypeInv, TrackInv, HoldInv, [Next]_vars
    PROVE  HoldInv'
<1>a. log \in Seq(Entries(BuildIds, Apis)) /\ cons \in [Apis -> ConsumerState]
  BY DEF TypeInv, TypeOK
<1>b. ASSUME UNCHANGED <<cons, log>> PROVE HoldInv'
  BY <1>b, HoldKept
<1>1. CASE UNCHANGED vars
  BY <1>1, <1>b DEF vars, stream
<1>2. ASSUME NEW f \in Fns, Register(f) \/ Remove(f) PROVE HoldInv'
  BY <1>2, <1>b DEF Register, Remove, stream
<1>3. ASSUME NEW b \in BuildIds, NEW f \in Fns, SubmitBuild(b, f) PROVE HoldInv'
  BY <1>3, <1>b DEF SubmitBuild, stream
<1>4. ASSUME NEW t \in Slots, RelayStep(t) \/ RelayFault(t) PROVE HoldInv'
  <2>1. CASE RelayXadd(t)
    <3>1. PICK b \in relay[t].ids : log' = XAdd(log, b)
      BY <2>1 DEF RelayXadd
    <3>2. b \in BuildIds
      BY DEF TypeInv, TypeOK, TickState
    <3>3. \A i \in DOMAIN log : log'[i] = log[i]
      BY <3>1, <3>2, PublishFacts
    <3> QED BY <2>1, <3>3, HoldKept DEF RelayXadd
  <2>2. CASE ~RelayXadd(t)
    BY <1>4, <1>b, <2>2 DEF RelayStep, RelayFault, RelayLock, RelayCommit, RelayDbFails, RelayReplyLost,
       XaddFails, stream
  <2> QED BY <2>1, <2>2
<1>5. ASSUME NEW i \in DOMAIN log, IdleOut(i) PROVE HoldInv'
  <2>1. ~Held(i) /\ log' = Expire(log, i) /\ UNCHANGED cons
    BY <1>5 DEF IdleOut, Patient
  <2>2. \A q \in Apis : \A j \in DOMAIN log : Holds(q, j) => j # i
    BY <2>1, HoldFacts
  <2>3. \A j \in DOMAIN log : j # i => log'[j] = log[j]
    BY <1>a, <2>1 DEF Expire
  <2> QED BY <2>1, <2>2, <2>3, HoldKept
<1>6. ASSUME NEW o \in orphans, OrphanLands(o) PROVE HoldInv'
  BY <1>6, <1>b DEF OrphanLands, stream
<1>7. ASSUME NEW p \in Apis, Boot(p) \/ Crash(p) PROVE HoldInv'
  <2>1. log' = log \/ DOMAIN log = {}
    BY <1>7 DEF Boot, Crash, stream, TrackInv, GroupInv
  <2>2. /\ DOMAIN log' = DOMAIN log /\ cons'[p].pc \in {"loop", "down"} /\ cons'[p].todo = {}
        /\ \A q \in Apis : q # p => cons'[q] = cons[q]
    BY <1>7, ProcessFacts
  <2>3. \A i : ~Holds(p, i)'
    BY <2>2 DEF Holds, Handling
  <2>4. \A q \in Apis : \A i \in DOMAIN log' : Holds(q, i)' => Holds(q, i) /\ log'[i] = log[i]
    BY <2>1, <2>2, <2>3 DEF Holds
  <2>5. \A q \in Apis : /\ cons'[q].pc = "down" => cons'[q].todo = {}
                        /\ cons'[q].pc \in Handling => cons'[q].cur \notin cons'[q].todo
    BY <2>2 DEF HoldInv
  <2> QED BY <2>4, <2>5, HoldShrinks
<1>8. ASSUME NEW p \in Apis, ConsumerStep(p) \/ ConsumerFault(p) PROVE HoldInv'
  <2>a. \A q \in Apis : q # p => cons'[q] = cons[q]
    BY <1>8, ConsumerAck
  <2>b. DOMAIN log' = DOMAIN log
    BY <1>8, ConsumerKeeps DEF StreamKept
  <2>c. ASSUME cons'[p].pc # "down", cons'[p].pc \in Handling => cons'[p].cur \notin cons'[p].todo,
               \A i \in DOMAIN log : Holds(p, i)' => Holds(p, i),
               \A q \in Apis : \A i \in DOMAIN log : Holds(q, i)' => log'[i] = log[i]
        PROVE  HoldInv'
    <3>1. \A q \in Apis : \A i \in DOMAIN log' : Holds(q, i)' => Holds(q, i) /\ log'[i] = log[i]
      BY <2>a, <2>b, <2>c DEF Holds
    <3>2. \A q \in Apis : /\ cons'[q].pc = "down" => cons'[q].todo = {}
                          /\ cons'[q].pc \in Handling => cons'[q].cur \notin cons'[q].todo
      BY <2>a, <2>c DEF HoldInv
    <3> QED BY <3>1, <3>2, HoldShrinks
  <2>d. ASSUME UNCHANGED log, NEW pc \in Handling, cons[p].pc \in Handling,
               cons'[p].pc = pc, cons'[p].cur = cons[p].cur, cons'[p].todo = cons[p].todo
        PROVE  HoldInv'
    BY <2>c, <2>d DEF Holds, Handling, HoldInv
  <2>e. ASSUME Done(p) PROVE cons'[p].pc = "loop" /\ cons'[p].todo = cons[p].todo
    BY <1>a, <2>e DEF Done, ConsumerState
  <2>1. CASE Reclaim(p)
    <3>1. log' = XAutoClaim(log, p) /\ cons'[p].pc = "loop" /\ cons'[p].todo = Expired(log)
      BY <2>1, <1>a DEF Reclaim, InLoop, ConsumerState
    <3>2. \A i \in Expired(log) : InPelOf(p, i)'
      BY <1>a, <3>1, XAutoClaimOwner DEF InPelOf
    <3>3. \A q \in Apis : \A i \in DOMAIN log : Holds(q, i) => log'[i] = log[i]
      BY <3>1, HeldUntouched
    <3> QED BY <2>a, <3>1, <3>2, <3>3, HoldGrows
  <2>2. CASE ReadNew(p)
    <3>1. PICK i \in DOMAIN log :
             /\ IsNextNew(log, i) /\ log' = Deliver(log, i, p)
             /\ cons' = [cons EXCEPT ![p] = [@ EXCEPT !.src = "read", !.todo = {i}]]
      BY <2>2 DEF ReadNew
    <3>2. cons'[p].pc = "loop" /\ cons'[p].todo = {i}
      BY <1>a, <2>2, <3>1 DEF ReadNew, InLoop, ConsumerState
    <3>3. InPelOf(p, i)'
      BY <1>a, <3>1, DeliverFacts, DeliverOwner DEF InPelOf
    <3>4. \A q \in Apis : \A j \in DOMAIN log : Holds(q, j) => log'[j] = log[j]
      BY <3>1, HeldUntouched DEF IsNextNew
    <3>5. \A j \in {i} : InPelOf(p, j)'
      BY <3>3
    <3> QED BY <2>a, <3>2, <3>4, <3>5, HoldGrows
  <2>3. CASE TakesUp(p)
    <3>1. PICK i \in cons[p].todo : /\ cons'[p].cur = i /\ cons'[p].todo = cons[p].todo \ {i}
                                    /\ cons'[p].pc = AfterLookup(log[i].val)
      BY <2>3 DEF TakesUp
    <3>2. cons'[p].pc \in {"loop", "ack", "find"}
      BY <3>1 DEF AfterLookup
    <3>3. UNCHANGED log
      BY <2>3 DEF TakesUp
    <3> QED BY <2>c, <3>1, <3>2, <3>3 DEF Holds
  <2>4. CASE GoesOn(p)
    <3>1. cons'[p].pc \in Handling
      BY <2>4 DEF GoesOn, Handling, ConsumerPc
    <3> QED BY <2>d, <2>4, <3>1 DEF GoesOn
  <2>5. CASE AckMessage(p)
    <3>1. log' = XAck(log, cons[p].cur) /\ Done(p) /\ cons[p].pc \in Handling
      BY <2>5 DEF AckMessage, Handling, ConsumerPc
    <3>2. PICK k \in DOMAIN log : k = cons[p].cur
      BY <3>1, CurrentFacts
    <3>3. \A i \in DOMAIN log : i # k => log'[i] = log[i]
      BY <1>a, <3>1, <3>2, XAckFacts
    <3>4. k \notin cons[p].todo /\ InPelOf(p, k)
      BY <3>1, <3>2 DEF HoldInv, Holds
    <3>5. ASSUME NEW q \in Apis, Holds(q, k)' PROVE FALSE
      <4>1. CASE q = p
        BY <2>e, <3>1, <3>4, <3>5, <4>1 DEF Holds, Handling
      <4>2. CASE q # p
        <5>1. Holds(q, k)
          BY <2>a, <3>5, <4>2 DEF Holds
        <5> QED BY <3>4, <4>2, <5>1, HoldFacts DEF InPelOf
      <4> QED BY <4>1, <4>2
    <3>6. \A i \in DOMAIN log : Holds(p, i)' => Holds(p, i)
      BY <2>e, <3>1 DEF Holds, Handling
    <3>7. \A q \in Apis : \A i \in DOMAIN log : Holds(q, i)' => log'[i] = log[i]
      BY <3>3, <3>5
    <3> QED BY <2>c, <2>e, <3>1, <3>6, <3>7 DEF Handling
  <2>6. CASE ConsumerRedisFails(p)
    <3>1. CASE Done(p) /\ UNCHANGED log
      BY <2>c, <2>e, <3>1 DEF Holds, Handling
    <3>2. CASE log' = XAutoClaim(log, p) /\ UNCHANGED cons
      BY <3>2, HeldUntouched, HoldKept
    <3>3. CASE /\ InLoop(p, "reclaim") /\ cons' = [cons EXCEPT ![p].src = "read"]
               /\ \E i \in DOMAIN log : IsNextNew(log, i) /\ log' = Deliver(log, i, p)
      <4>1. cons'[p].pc = "loop" /\ cons'[p].todo = cons[p].todo
        BY <1>a, <3>3 DEF InLoop, ConsumerState
      <4>2. \A q \in Apis : \A j \in DOMAIN log : Holds(q, j) => log'[j] = log[j]
        BY <3>3, HeldUntouched DEF IsNextNew
      <4>3. \A q \in Apis : \A j \in DOMAIN log : Holds(q, j)' => Holds(q, j)
        BY <2>a, <4>1 DEF Holds, Handling
      <4> QED BY <2>c, <4>1, <4>2, <4>3 DEF Handling
    <3> QED BY <2>6, <3>1, <3>2, <3>3 DEF ConsumerRedisFails
  <2>7. CASE /\ cons'[p].pc = "loop" /\ UNCHANGED log /\ cons'[p].todo \subseteq cons[p].todo
    BY <2>c, <2>7 DEF Holds, Handling
  <2>8. CASE ReadNothing(p) \/ ConsumerDbFails(p) \/ ConsumerReplyLost(p) \/ CatchFailed(p)
    <3>1. UNCHANGED log
      BY <2>8 DEF ReadNothing, ConsumerDbFails, ConsumerReplyLost, CatchFailed, stream
    <3>2. \/ GoesOn(p) \/ Done(p)
          \/ cons[p].pc = "loop" /\ cons' = [cons EXCEPT ![p].src = "read"]
          \/ cons[p].pc = "loop" /\ \E i \in cons[p].todo : cons' = [cons EXCEPT ![p].todo = @ \ {i}]
      <4>1. ASSUME NEW pc \in {"ack", "catch"}, Goto(p, pc) PROVE GoesOn(p) \/ TakesUp(p)
        <5>1. cons'[p].pc = pc
          BY <4>1, GotoFacts DEF ConsumerPc
        <5> QED BY <1>8, <5>1, ConsumerPaths
      <4> QED BY <2>8, <4>1 DEF ReadNothing, InLoop, ConsumerDbFails, ConsumerReplyLost, CatchFailed, TakesUp
    <3>3. GoesOn(p) \/ (cons'[p].pc = "loop" /\ cons'[p].todo \subseteq cons[p].todo)
      BY <1>a, <2>e, <3>2 DEF ConsumerState
    <3> QED BY <2>4, <2>7, <3>1, <3>3
  <2>9. CASE HandleMessage(p)
    <3>1. PICK i \in cons[p].todo :
             cons' = [cons EXCEPT ![p] =
                        [cons[p] EXCEPT !.todo = @ \ {i},
                                        !.pc = AfterLookup(log[i].val),
                                        !.cur = IF AfterLookup(log[i].val) = "loop" THEN 0 ELSE i]]
      BY <2>9 DEF HandleMessage
    <3>2. cons'[p].todo = cons[p].todo \ {i}
      BY <1>a, <3>1 DEF ConsumerState
    <3>3. UNCHANGED log /\ cons[p].pc = "loop"
      BY <2>9 DEF HandleMessage, stream
    <3>4. TakesUp(p) \/ cons'[p].pc = "loop"
      BY <1>8, <3>3, ConsumerPaths DEF GoesOn, Handling
    <3> QED BY <2>3, <2>7, <3>2, <3>3, <3>4
  <2>10. CASE \/ FindFunction(p) \/ NextVersionNumber(p) \/ ExecutorBuilds(p)
              \/ ExecutorFails(p) \/ ExecutorGivesUp(p) \/ CommitVersion(p)
    <3>1. cons[p].pc \in Working /\ cons'[p].pc # "loop"
      BY <2>10, <1>a DEF FindFunction, NextVersionNumber, ExecutorBuilds, ExecutorFails, ExecutorGivesUp,
         CommitVersion, Goto, Working, ConsumerState
    <3> QED BY <1>8, <2>4, <3>1, ConsumerPaths DEF TakesUp, Working
  <2> QED BY <1>8, <2>1, <2>2, <2>5, <2>6, <2>8, <2>9, <2>10 DEF ConsumerStep, ConsumerFault
<1> QED BY <1>1, <1>2, <1>3, <1>4, <1>5, <1>6, <1>7, <1>8 DEF Next

\* No two consumers handle the same build.
LEMMA Exclusive ==
    ASSUME TypeInv, PublishInv, HoldInv, NEW p \in Apis, NEW q \in Apis, p # q,
           cons[p].pc \in Handling, cons[q].pc \in Handling
    PROVE  Current(p) # Current(q)
<1>1. cons[p].cur \in DOMAIN log /\ cons[q].cur \in DOMAIN log
  BY CurrentFacts
<1>2. InPelOf(p, cons[p].cur) /\ InPelOf(q, cons[q].cur)
  BY <1>1 DEF HoldInv, Holds
<1>3. cons[p].cur # cons[q].cur
  BY <1>2 DEF InPelOf
<1> QED BY <1>1, <1>3 DEF PublishInv, PublishedOnce, Current

-----------------------------------------------------------------------------
(***************************************************************************)
(* Outcomes.  While a consumer works on a build the row has no outcome     *)
(* (it may have been deleted), so the transaction that adds a version is   *)
(* the first to finish its build, and redelivery only finds the outcome.   *)
(* When a reply may be lost this ends with the transaction: the catch      *)
(* block may then turn a SUCCESS into FAILED, but it adds no version.      *)
(***************************************************************************)
Busy == Working \cup (IF NoLostReply THEN {"catch"} ELSE {})

Unfinished(b) == builds[b].st \in {"PENDING", "deleted"}

BusyInv == \A p \in Apis : cons[p].pc \in Busy => Unfinished(Current(p))

OriginInv ==
    \A v \in versions : /\ Finished(v.by) /\ FnOf(v.by) = v.fn
                        /\ NoLostReply => builds[v.by].st = "SUCCESS" /\ builds[v.by].tag = v.tag

OwnVersionInv == \A b \in BuildIds : builds[b].st = "SUCCESS" => \E v \in versions : v.by = b

OutcomeInv == BusyInv /\ OriginInv /\ OwnVersionInv /\ OneVersionPerBuild

\* A busy consumer is handling a message.
LEMMA BusyHandles == Busy \subseteq Handling
  BY DEF Busy, Working, Handling, ConsumerPc

\* Steps that finish no build and add no version.
LEMMA OutcomeFrame ==
    ASSUME TypeInv, OutcomeInv, [Next]_vars, versions' \subseteq versions,
           \A v \in versions' : /\ builds'[v.by].st = builds[v.by].st
                                /\ builds'[v.by].fn = builds[v.by].fn
                                /\ builds'[v.by].tag = builds[v.by].tag,
           \A b \in BuildIds : builds'[b].st = "SUCCESS" =>
                builds[b].st = "SUCCESS" /\ \A v \in versions : v.by = b => v \in versions',
           \A b \in BuildIds : Unfinished(b) => Unfinished(b)',
           \A p \in Apis : cons'[p].pc \in Busy => cons[p].pc \in Busy /\ cons'[p].cur = cons[p].cur
    PROVE  OutcomeInv'
<1>1. BusyInv'
  <2> SUFFICES ASSUME NEW p \in Apis, cons'[p].pc \in Busy PROVE Unfinished(Current(p))'
    BY DEF BusyInv, Busy
  <2>1. cons[p].pc \in Busy /\ cons[p].pc \in Handling /\ cons'[p].cur = cons[p].cur
    BY BusyHandles
  <2>2. Current(p)' = Current(p) /\ Current(p) \in BuildIds
    BY <2>1, StepKeeps, CurrentKept, CurrentFacts
  <2>3. Unfinished(Current(p))
    BY <2>1 DEF OutcomeInv, BusyInv
  <2> QED BY <2>2, <2>3 DEF Unfinished
<1>2. OriginInv'
  BY DEF OutcomeInv, OriginInv, Finished, FnOf, NoLostReply
<1>3. OwnVersionInv'
  BY DEF OutcomeInv, OwnVersionInv
<1>4. OneVersionPerBuild'
  BY DEF OutcomeInv, OneVersionPerBuild
<1> QED BY <1>1, <1>2, <1>3, <1>4 DEF OutcomeInv

\* The build p has written is the one of no other consumer.
LEMMA OthersBusy ==
    ASSUME TypeInv, PublishInv, HoldInv, OutcomeInv, [Next]_vars, NEW p \in Apis,
           \A q \in Apis : q # p => cons'[q] = cons[q],
           cons[p].pc \in Handling, cons'[p].pc \notin Busy,
           \A a \in BuildIds : a # Current(p) => builds'[a] = builds[a]
    PROVE  BusyInv'
<1> SUFFICES ASSUME NEW q \in Apis, cons'[q].pc \in Busy PROVE Unfinished(Current(q))'
  BY DEF BusyInv, Busy
<1>1. q # p /\ cons'[q] = cons[q] /\ cons[q].pc \in Busy /\ cons[q].pc \in Handling
  BY BusyHandles
<1>2. Current(q)' = Current(q) /\ Current(q) \in BuildIds
  BY <1>1, StepKeeps, CurrentKept, CurrentFacts
<1>3. Current(q) # Current(p)
  BY <1>1, Exclusive
<1>4. Unfinished(Current(q))
  BY <1>1 DEF OutcomeInv, BusyInv
<1> QED BY <1>2, <1>3, <1>4 DEF Unfinished

\* Every step that keeps consumers apart preserves OutcomeInv.
LEMMA OutcomeInvStep ==
    ASSUME TypeInv, PublishInv, LifeInv, HoldInv, OutcomeInv, [Next]_vars
    PROVE  OutcomeInv'
<1>a. /\ \A v \in versions : v.by \in BuildIds
      /\ builds \in [BuildIds -> BuildRow] /\ cons \in [Apis -> ConsumerState]
  BY DEF TypeInv, TypeOK, VersionRow
<1>b. ASSUME versions' = versions,
             \A b \in BuildIds : /\ builds'[b].st = builds[b].st
                                 /\ builds'[b].fn = builds[b].fn
                                 /\ builds'[b].tag = builds[b].tag,
             \A p \in Apis : cons'[p].pc \in Busy => cons[p].pc \in Busy /\ cons'[p].cur = cons[p].cur
      PROVE  OutcomeInv'
  BY <1>a, <1>b, OutcomeFrame DEF Unfinished
<1>1. CASE QuietStep
  BY <1>1, <1>b, QuietFacts
<1>2. ASSUME NEW f \in Fns, Register(f) PROVE OutcomeInv'
  BY <1>2, <1>b DEF Register
<1>3. ASSUME NEW f \in Fns, Remove(f) PROVE OutcomeInv'
  <2>1. \A b \in BuildIds : /\ builds'[b].fn = builds[b].fn /\ builds'[b].tag = builds[b].tag
                            /\ builds'[b].st = "none" <=> builds[b].st = "none"
                            /\ builds'[b].st # builds[b].st => builds'[b].st = "deleted"
                            /\ builds[b].fn = f => builds'[b].st \in {"none", "deleted"}
    BY <1>3, RemoveFacts
  <2>2. \A b \in BuildIds : builds[b].fn # f => builds'[b] = builds[b]
    BY <1>3 DEF Remove, FnOf
  <2>3. versions' = {v \in versions : v.fn # f} /\ UNCHANGED cons
    BY <1>3 DEF Remove
  <2>4. \A v \in versions : builds[v.by].fn = v.fn
    BY DEF OutcomeInv, OriginInv, FnOf
  <2>5. \A b \in BuildIds : Unfinished(b) => Unfinished(b)'
    BY <2>1 DEF Unfinished
  <2> QED BY <1>a, <2>1, <2>2, <2>3, <2>4, <2>5, OutcomeFrame
<1>4. ASSUME NEW b \in BuildIds, NEW f \in Fns, SubmitBuild(b, f) PROVE OutcomeInv'
  <2>1. PICK r \in BuildRow : r.st = "PENDING" /\ builds' = [builds EXCEPT ![b] = r]
    BY <1>4, SubmitFacts
  <2>2. builds[b].st = "none" /\ UNCHANGED <<versions, cons>>
    BY <1>4 DEF SubmitBuild
  <2>3. \A v \in versions : v.by # b
    BY <2>2 DEF OutcomeInv, OriginInv, Finished
  <2>4. \A a \in BuildIds : Unfinished(a) => Unfinished(a)'
    BY <1>a, <2>1, <2>2 DEF Unfinished
  <2> QED BY <1>a, <2>1, <2>2, <2>3, <2>4, OutcomeFrame
<1>5. ASSUME NEW p \in Apis, Boot(p) \/ Crash(p) PROVE OutcomeInv'
  <2>1. cons'[p].pc \notin Busy
    BY <1>5, ProcessFacts DEF Busy, Working
  <2> QED BY <1>5, <1>b, <2>1, ProcessFacts
<1>6. ASSUME NEW p \in Apis, ConsumerStep(p) \/ ConsumerFault(p) PROVE OutcomeInv'
  <2> DEFINE b == Current(p)
  <2>a. \A q \in Apis : q # p => cons'[q] = cons[q]
    BY <1>6, ConsumerAck
  <2>1. CASE WritesNothing /\ cons'[p].pc = "loop"
    <3>1. cons'[p].pc \notin Busy
      BY <2>1 DEF Busy, Working
    <3> QED BY <1>b, <2>a, <2>1, <3>1 DEF WritesNothing
  <2>2. CASE WritesNothing /\ TakesUp(p)
    <3>1. PICK i \in cons[p].todo : cons'[p].cur = i /\ cons'[p].pc = AfterLookup(log[i].val)
      BY <2>2 DEF TakesUp
    <3>2. i \in DOMAIN log /\ log' = log /\ builds' = builds /\ versions' = versions
      BY <2>2, ConsumerShapes DEF TakesUp, WritesNothing
    <3>3. cons'[p].pc \in Busy => builds[log[i].val].st = "PENDING"
      <4>1. log[i].val \in BuildIds
        BY <3>2, EntryFacts
      <4> QED BY <1>a, <3>1, <4>1 DEF AfterLookup, Busy, Working, Exists, Finished, BuildRow
    <3>4. BusyInv'
      <4> SUFFICES ASSUME NEW q \in Apis, cons'[q].pc \in Busy PROVE Unfinished(Current(q))'
        BY DEF BusyInv, Busy
      <4>1. CASE q = p
        BY <3>1, <3>2, <3>3, <4>1 DEF Current, Unfinished
      <4>2. CASE q # p
        <5>1. cons'[q] = cons[q]
          BY <2>a, <4>2
        <5> QED BY <3>2, <5>1 DEF OutcomeInv, BusyInv, Unfinished, Current
      <4> QED BY <4>1, <4>2
    <3>5. OriginInv' /\ OwnVersionInv' /\ OneVersionPerBuild'
      BY <3>2 DEF OutcomeInv, OriginInv, OwnVersionInv, OneVersionPerBuild, Finished, FnOf, NoLostReply
    <3> QED BY <3>4, <3>5 DEF OutcomeInv
  <2>3. CASE WritesNothing /\ GoesOn(p)
    <3>1. cons'[p].pc \in Busy => cons[p].pc \in Busy /\ cons'[p].cur = cons[p].cur
      BY <2>3 DEF GoesOn, Busy, Working
    <3> QED BY <1>b, <2>a, <2>3, <3>1 DEF WritesNothing
  <2>4. CASE WritesFailed(p)
    <3>1. b \in BuildIds /\ Exists(b) /\ cons[p].pc = "catch" /\ cons[p].pc \in Handling
      BY <2>4, WrittenExists DEF WritesFailed, Handling, ConsumerPc
    <3>2. /\ builds'[b].st = "FAILED" /\ builds'[b].fn = builds[b].fn
          /\ \A a \in BuildIds : a # b => builds'[a] = builds[a]
      BY <2>4, <3>1, RecordEffects DEF WritesFailed
    <3>3. cons'[p].pc \in {"ack", "loop"} /\ UNCHANGED versions
      BY <2>4, <1>a DEF WritesFailed, Goto, Done, ConsumerState
    <3>4. cons'[p].pc \notin Busy
      BY <3>3 DEF Busy, Working
    <3>5. BusyInv'
      BY <2>a, <3>1, <3>2, <3>4, OthersBusy
    <3>6. NoLostReply => \A v \in versions : v.by # b
      <4>1. NoLostReply => cons[p].pc \in Busy
        BY <3>1 DEF Busy
      <4> QED BY <4>1 DEF OutcomeInv, BusyInv, OriginInv, Unfinished
    <3> HIDE DEF b
    <3>7. OriginInv'
      BY <1>a, <3>2, <3>3, <3>6 DEF OutcomeInv, OriginInv, Finished, FnOf, NoLostReply
    <3>8. OwnVersionInv'
      BY <3>2, <3>3 DEF OutcomeInv, OwnVersionInv
    <3>9. OneVersionPerBuild'
      BY <3>3 DEF OutcomeInv, OneVersionPerBuild
    <3> QED BY <3>5, <3>7, <3>8, <3>9 DEF OutcomeInv
  <2>5. CASE WritesVersion(p)
    <3> DEFINE f == FnOf(b)
               n == cons[p].num
               v == [fn |-> f, num |-> n, tag |-> TagOf(f, n), by |-> b]
    <3>1. b \in BuildIds /\ Exists(b) /\ cons[p].pc = "commit" /\ cons[p].pc \in Handling
      BY <2>5, WrittenExists DEF WritesVersion, Handling, ConsumerPc
    <3>2. /\ builds'[b].st = "SUCCESS" /\ builds'[b].fn = builds[b].fn
          /\ builds'[b].tag = TagOf(f, n)
          /\ \A a \in BuildIds : a # b => builds'[a] = builds[a]
      BY <2>5, <3>1, RecordEffects DEF WritesVersion
    <3>3. v.fn = f /\ v.tag = TagOf(f, n) /\ v.by = b /\ versions' = versions \cup {v}
      BY <2>5 DEF WritesVersion, RecordSuccess
    <3>4. cons'[p].pc = "ack" \/ (cons'[p].pc = "catch" /\ ~NoLostReply)
      BY <2>5, GotoFacts DEF WritesVersion, ConsumerPc
    <3>5. cons'[p].pc \notin Busy
      BY <3>4 DEF Busy, Working
    <3>6. BusyInv'
      BY <2>a, <3>1, <3>2, <3>5, OthersBusy
    <3>7. \A w \in versions : w.by # b
      <4>1. cons[p].pc \in Busy
        BY <3>1 DEF Busy, Working
      <4>2. Unfinished(b)
        BY <4>1 DEF OutcomeInv, BusyInv
      <4> QED BY <4>2 DEF OutcomeInv, OriginInv, Finished, Unfinished
    <3>8. builds[b].fn = f
      BY DEF FnOf
    <3> HIDE DEF b, f, n, v
    <3>9. OriginInv'
      BY <1>a, <3>2, <3>3, <3>7, <3>8 DEF OutcomeInv, OriginInv, Finished, FnOf, NoLostReply
    <3>10. OwnVersionInv'
      BY <3>2, <3>3 DEF OutcomeInv, OwnVersionInv
    <3>11. OneVersionPerBuild'
      BY <3>3, <3>7 DEF OutcomeInv, OneVersionPerBuild
    <3> QED BY <3>6, <3>9, <3>10, <3>11 DEF OutcomeInv
  <2> QED BY <1>6, <2>1, <2>2, <2>3, <2>4, <2>5, ConsumerWrites, ConsumerPaths
<1> QED BY <1>1, <1>2, <1>3, <1>4, <1>5, <1>6, StepKinds

-----------------------------------------------------------------------------
(***************************************************************************)
(* The invariants of a patient system, and what follows from them.         *)
(***************************************************************************)
PatientInv ==
    TypeInv /\ PublishInv /\ AckInv /\ VersionInv /\ TrackInv /\ LifeInv /\ HoldInv /\ OutcomeInv

\* The initial state satisfies PatientInv.
LEMMA PatientInvInit == Init => PatientInv
<1> SUFFICES ASSUME Init PROVE PatientInv
  OBVIOUS
<1>1. TypeInv /\ LifeInv
  BY TypeInvInit, LifeInvInit
<1>2. DOMAIN log = {} /\ versions = {}
  BY DEF Init
<1>3. \A p \in Apis : cons[p].pc = "down" /\ cons[p].todo = {}
  BY DEF Init, Stopped, Booted
<1>4. \A t \in Slots : relay[t].pc = "idle" /\ relay[t].ids = {}
  BY DEF Init, IdleTick
<1>5. \A b \in BuildIds : builds[b].st = "none"
  BY DEF Init
<1>6. PublishInv
  BY <1>2, <1>4 DEF PublishInv, TickOwnership, PublishedOnce
<1>7. AckInv
  BY <1>2, <1>3 DEF AckInv, AckedOnlyWhenFinished
<1>8. VersionInv
  BY <1>2, <1>3, <1>5 DEF VersionInv, VersionsContiguous, SuccessHasVersion, NumberInv
<1>9. TrackInv
  <2>1. \A p \in Apis : ~up[p]
    BY DEF Init
  <2> QED BY <1>2, <1>4, <1>5, <2>1 DEF TrackInv, GroupInv, PublishedIsTracked
<1>10. HoldInv
  BY <1>2, <1>3 DEF HoldInv, Handling
<1>11. OutcomeInv
  <2>1. BusyInv
    BY <1>3 DEF BusyInv, Busy, Working
  <2> QED BY <1>2, <1>5, <2>1 DEF OutcomeInv, OriginInv, OwnVersionInv, OneVersionPerBuild
<1> QED BY <1>1, <1>6, <1>7, <1>8, <1>9, <1>10, <1>11 DEF PatientInv

\* Every step of a patient system preserves PatientInv.
LEMMA PatientInvStep ==
    ASSUME Patient
    PROVE  PatientInv /\ [Next]_vars => PatientInv'
<1> SUFFICES ASSUME PatientInv, [Next]_vars PROVE PatientInv'
  OBVIOUS
<1>1. TypeInv' /\ PublishInv' /\ AckInv' /\ VersionInv' /\ TrackInv'
  BY TypeInvStep, PublishInvStep, AckInvStep, VersionInvStep, TrackInvStep DEF PatientInv
<1>2. LifeInv' /\ HoldInv' /\ OutcomeInv'
  BY LifeInvStep, HoldInvStep, OutcomeInvStep DEF PatientInv
<1> QED BY <1>1, <1>2 DEF PatientInv

\* The inductive invariant of a patient system.
THEOREM BuildPatientInvariant ==
    ASSUME Patient
    PROVE  Spec => []PatientInv
  BY PatientInvInit, PatientInvStep, PTL DEF Spec

\* No two API processes hold the same message of builds:pending.
OneHolder == \A p, q \in Apis : \A i \in DOMAIN log : Holds(p, i) /\ Holds(q, i) => p = q

\* A message is in the hands of one consumer at a time, through crashes, reclaims
\* and lost replies of Redis, if none outlives BUILD_CLAIM_IDLE_MS in a running one.
THEOREM BuildOneHolder ==
    ASSUME Patient
    PROVE  Spec => []OneHolder
<1>1. PatientInv => OneHolder
  BY DEF PatientInv, HoldInv, InPelOf, OneHolder
<1> QED BY <1>1, BuildPatientInvariant, PTL

\* Redelivery is idempotent: a build yields at most one version, even when the
\* reply to the transaction that adds it is lost.
THEOREM BuildOneVersionPerBuild ==
    ASSUME Patient
    PROVE  Spec => []OneVersionPerBuild
<1>1. PatientInv => OneVersionPerBuild
  BY DEF PatientInv, OutcomeInv
<1> QED BY <1>1, BuildPatientInvariant, PTL

\* Every version belongs to a build recorded as SUCCESS with the version's image.
THEOREM BuildVersionHasSuccess ==
    ASSUME Patient, NoLostReply
    PROVE  Spec => []VersionHasSuccess
<1>1. PatientInv => VersionHasSuccess
  <2> SUFFICES ASSUME PatientInv, NEW v \in versions
               PROVE  \E b \in BuildIds : builds[b].st = "SUCCESS" /\ FnOf(b) = v.fn /\ builds[b].tag = v.tag
    BY DEF VersionHasSuccess
  <2>1. v.by \in BuildIds
    BY DEF PatientInv, TypeInv, TypeOK, VersionRow
  <2> QED BY <2>1 DEF PatientInv, OutcomeInv, OriginInv
<1> QED BY <1>1, BuildPatientInvariant, PTL

-----------------------------------------------------------------------------
(***************************************************************************)
(* The refinement.  The number of a build's version, looked up in a set of *)
(* version rows.                                                           *)
(***************************************************************************)
NumIn(V, b) == IF \E v \in V : v.by = b THEN (CHOOSE v \in V : v.by = b).num ELSE 0

JobRow(bs, V, b) == [st |-> bs[b].st, fn |-> bs[b].fn, num |-> NumIn(V, b)]

\* What a build's number is when it has at most one version.
LEMMA NumInFacts ==
    ASSUME NEW V, \A v, w \in V : v.by = w.by => v = w, NEW b
    PROVE  /\ (\A v \in V : v.by # b) => NumIn(V, b) = 0
           /\ \A v \in V : v.by = b => NumIn(V, b) = v.num
  BY DEF NumIn

\* The same versions of a build in two sets give it the same number.
LEMMA NumInSame ==
    ASSUME NEW V, \A v, w \in V : v.by = w.by => v = w,
           NEW W, \A v, w \in W : v.by = w.by => v = w,
           NEW b, \A v : v.by = b => (v \in V <=> v \in W)
    PROVE  NumIn(V, b) = NumIn(W, b)
<1>1. CASE \A v \in V : v.by # b
  BY <1>1, NumInFacts
<1>2. ASSUME NEW v \in V, v.by = b PROVE NumIn(V, b) = NumIn(W, b)
  BY <1>2, NumInFacts
<1> QED BY <1>1, <1>2

\* The abstract state, from the two tables before and after a step.
LEMMA JobsAre ==
    /\ Jobs = [b \in BuildIds |-> JobRow(builds, versions, b)]
    /\ Jobs' = [b \in BuildIds |-> JobRow(builds', versions', b)]
  BY DEF Jobs, JobOf, JobRow, NumIn, FnOf

\* Steps that change no status and no version are invisible to a client.
LEMMA JobsKept ==
    ASSUME versions' = versions,
           \A b \in BuildIds : builds'[b].st = builds[b].st /\ builds'[b].fn = builds[b].fn
    PROVE  Jobs' = Jobs
  BY JobsAre DEF JobRow

\* With one version per build, the numbers of the successful builds of f are those
\* below the number a commit of f uses: so many builds have succeeded.
LEMMA VersionCount ==
    ASSUME NoLostReply, PatientInv, NEW f \in Fns, NEW n \in 1..MaxVersion, Precedes(f, n),
           \A v \in versions : ~(v.fn = f /\ v.num = n)
    PROVE  Cardinality({a \in BuildIds : builds[a].fn = f /\ builds[a].st = "SUCCESS"}) = n - 1
<1> DEFINE S == {a \in BuildIds : builds[a].fn = f /\ builds[a].st = "SUCCESS"}
           T == 1..(n - 1)
           g == [a \in S |-> NumIn(versions, a)]
<1>a. /\ \A v \in versions : v.by \in BuildIds /\ v.num \in Nat /\ v.num >= 1
      /\ n \in Nat /\ n >= 1
  BY BuildAssumption DEF PatientInv, TypeInv, TypeOK, VersionRow
<1>b. \A v, w \in versions : v.by = w.by => v = w
  BY DEF PatientInv, OutcomeInv, OneVersionPerBuild
<1>c. \A v, w \in versions : v.fn = w.fn /\ v.num = w.num => v = w
  BY DEF PatientInv, VersionInv, VersionsContiguous
<1>d. \A v \in versions : \A k \in 1..v.num : \E w \in versions : w.fn = v.fn /\ w.num = k
  BY DEF PatientInv, LifeInv, VersionLife
<1>e. \A v \in versions : builds[v.by].fn = v.fn /\ builds[v.by].st = "SUCCESS"
  BY DEF PatientInv, OutcomeInv, OriginInv, FnOf
<1>1. ASSUME NEW a \in S
      PROVE  \E v \in versions : v.by = a /\ v.fn = f /\ g[a] = v.num /\ v.num \in T
  <2>1. PICK v \in versions : v.by = a
    BY DEF PatientInv, OutcomeInv, OwnVersionInv
  <2>2. v.fn = f /\ g[a] = v.num
    BY <1>b, <1>e, <2>1, NumInFacts
  <2>3. ~(n <= v.num)
    <3>1. n <= v.num => n \in 1..v.num
      BY <1>a
    <3> QED BY <1>d, <2>2, <3>1
  <2>4. v.num \in T
    BY <1>a, <2>3
  <2> QED BY <2>1, <2>2, <2>4
<1>2. g \in Injection(S, T)
  <2>1. g \in [S -> T]
    BY <1>1
  <2>2. \A a, c \in S : g[a] = g[c] => a = c
    BY <1>1, <1>c
  <2> HIDE DEF g
  <2> QED BY <2>1, <2>2 DEF Injection, IsInjective
<1>3. g \in Surjection(S, T)
  <2>1. ASSUME NEW k \in T PROVE \E a \in S : g[a] = k
    <3>1. PICK v \in versions : v.fn = f /\ v.num = n - 1
      BY <1>a, <2>1 DEF Precedes
    <3>2. PICK w \in versions : w.fn = f /\ w.num = k
      BY <1>d, <2>1, <3>1
    <3>3. w.by \in S
      BY <1>a, <1>e, <3>2
    <3>4. g[w.by] = k
      BY <1>b, <3>2, <3>3, NumInFacts
    <3> QED BY <3>3, <3>4
  <2>2. g \in [S -> T]
    BY <1>1
  <2> HIDE DEF g
  <2> QED BY <2>1, <2>2 DEF Surjection
<1>4. IsFiniteSet(T) /\ Cardinality(T) = n - 1
  BY <1>a, FS_Interval
<1> HIDE DEF S, T, g
<1>5. Cardinality(S) = Cardinality(T)
  BY <1>2, <1>3, <1>4, FS_Injection
<1> QED BY <1>4, <1>5 DEF S

\* BuildJob counts with the same operator.
LEMMA JobCardinality == \A S : Job!Cardinality(S) = Cardinality(S)
  BY Zenon DEF Job!Cardinality, Cardinality

\* A new build is a Submit of BuildJob.
LEMMA AbsSubmit ==
    ASSUME NEW b \in BuildIds, NEW f \in Fns, Jobs[b].st = "none",
           Jobs' = [Jobs EXCEPT ![b] = [st |-> "PENDING", fn |-> f, num |-> 0]]
    PROVE  Job!Next
<1>1. Job!Submit(b, f)
  BY DEF Job!Submit
<1> QED BY <1>1 DEF Job!Next

\* A PENDING build that turns FAILED is a Fail.
LEMMA AbsFail ==
    ASSUME NEW b \in BuildIds, Jobs[b].st = "PENDING",
           Jobs' = [Jobs EXCEPT ![b].st = "FAILED"]
    PROVE  Job!Next
<1>1. Job!Fail(b)
  BY DEF Job!Fail
<1> QED BY <1>1 DEF Job!Next

\* A PENDING build that turns SUCCESS with the next number of its function is a Succeed.
LEMMA AbsSucceed ==
    ASSUME NEW b \in BuildIds, Jobs[b].st = "PENDING", NEW S, NEW n, NEW r,
           S = {a \in BuildIds : Jobs[a].fn = Jobs[b].fn /\ Jobs[a].st = "SUCCESS"},
           n = Cardinality(S) + 1,
           r = [Jobs[b] EXCEPT !.st = "SUCCESS", !.num = n], Jobs' = [Jobs EXCEPT ![b] = r]
    PROVE  Job!Next
<1>1. Job!Succeed(b)
  BY JobCardinality DEF Job!Succeed, Job!VersionsOf
<1> QED BY <1>1 DEF Job!Next

\* All builds of a function turning deleted is a DeleteFunction.
LEMMA AbsDelete ==
    ASSUME NEW f \in Fns,
           Jobs' = [b \in BuildIds |-> IF Jobs[b].fn = f THEN [st |-> "deleted", fn |-> f, num |-> 0]
                                       ELSE Jobs[b]]
    PROVE  Job!Next
<1>1. Job!DeleteFunction(f)
  BY DEF Job!DeleteFunction
<1> QED BY <1>1 DEF Job!Next

\* FunctionsService.remove is DeleteFunction: all builds of the function go, those
\* that have a version included, and no build of another function.
LEMMA RemoveRefines ==
    ASSUME PatientInv, PatientInv', NEW f \in Fns, Remove(f)
    PROVE  Job!Next
<1>a. TypeInv /\ fns[f] = "live" /\ versions' = {v \in versions : v.fn # f}
  BY DEF PatientInv, Remove
<1>b. /\ \A v, w \in versions : v.by = w.by => v = w
      /\ \A v, w \in versions' : v.by = w.by => v = w
      /\ \A v \in versions : builds[v.by].fn = v.fn
  BY DEF PatientInv, OutcomeInv, OneVersionPerBuild, OriginInv, FnOf
<1>1. ASSUME NEW b \in BuildIds, builds[b].fn = f
      PROVE  JobRow(builds', versions', b) = [st |-> "deleted", fn |-> f, num |-> 0]
  <2>1. builds[b].st # "none"
    BY <1>1, NoFnAssumption DEF PatientInv, LifeInv, RowLife, FnOf
  <2>2. builds'[b].st = "deleted" /\ builds'[b].fn = f
    BY <1>a, <1>1, <2>1, RemoveFacts
  <2>3. NumIn(versions', b) = 0
    BY <1>a, <1>b, <1>1, NumInFacts
  <2> QED BY <2>2, <2>3 DEF JobRow
<1>2. ASSUME NEW b \in BuildIds, builds[b].fn # f
      PROVE  JobRow(builds', versions', b) = JobRow(builds, versions, b)
  <2>1. builds'[b] = builds[b]
    BY <1>2 DEF Remove, FnOf
  <2>2. NumIn(versions', b) = NumIn(versions, b)
    <3>1. \A v : v.by = b => (v \in versions <=> v \in versions')
      BY <1>a, <1>b, <1>2
    <3> QED BY <1>b, <3>1, NumInSame
  <2> QED BY <2>1, <2>2 DEF JobRow
<1>3. \A b \in BuildIds : Jobs[b] = JobRow(builds, versions, b) /\ Jobs[b].fn = builds[b].fn
  BY JobsAre DEF JobRow
<1>4. Jobs' = [b \in BuildIds |-> IF Jobs[b].fn = f THEN [st |-> "deleted", fn |-> f, num |-> 0]
                                  ELSE Jobs[b]]
  BY <1>1, <1>2, <1>3, JobsAre
<1> QED BY <1>4, AbsDelete

\* BuildService.submitBuild is Submit.
LEMMA SubmitRefines ==
    ASSUME PatientInv, NEW b \in BuildIds, NEW f \in Fns, SubmitBuild(b, f)
    PROVE  Job!Next
<1>a. TypeInv /\ builds[b].st = "none" /\ versions' = versions /\ builds \in [BuildIds -> BuildRow]
  BY DEF PatientInv, TypeInv, TypeOK, SubmitBuild
<1>1. PICK r \in BuildRow : r.fn = f /\ r.st = "PENDING" /\ builds' = [builds EXCEPT ![b] = r]
  BY <1>a, SubmitFacts
<1>2. NumIn(versions, b) = 0
  BY <1>a, NumInFacts DEF PatientInv, OutcomeInv, OneVersionPerBuild, OriginInv, Finished
<1>3. /\ builds'[b].st = "PENDING" /\ builds'[b].fn = f
      /\ \A a \in BuildIds : a # b => builds'[a] = builds[a]
  BY <1>a, <1>1
<1>4. /\ JobRow(builds', versions', b) = [st |-> "PENDING", fn |-> f, num |-> 0]
      /\ \A a \in BuildIds : a # b => JobRow(builds', versions', a) = JobRow(builds, versions, a)
  BY <1>a, <1>2, <1>3 DEF JobRow
<1>5. Jobs' = [Jobs EXCEPT ![b] = [st |-> "PENDING", fn |-> f, num |-> 0]]
  BY <1>4, JobsAre
<1>6. Jobs[b].st = "none"
  BY <1>a, JobsAre DEF JobRow
<1> QED BY <1>5, <1>6, AbsSubmit

\* The build a consumer gives its outcome is still PENDING.
LEMMA WritesPending ==
    ASSUME NoLostReply, PatientInv, NEW p \in Apis, WritesFailed(p) \/ WritesVersion(p)
    PROVE  Current(p) \in BuildIds /\ builds[Current(p)].st = "PENDING"
<1>1. Current(p) \in BuildIds /\ Exists(Current(p))
  BY WrittenExists DEF PatientInv
<1>2. cons[p].pc \in Busy
  BY DEF WritesFailed, WritesVersion, Busy, Working
<1> QED BY <1>1, <1>2 DEF PatientInv, OutcomeInv, BusyInv, Unfinished, Exists

\* The catch block of runBuild is Fail.
LEMMA FailRefines ==
    ASSUME NoLostReply, PatientInv, NEW p \in Apis, WritesFailed(p)
    PROVE  Job!Next
<1> DEFINE b == Current(p)
<1>1. b \in BuildIds /\ builds[b].st = "PENDING" /\ versions' = versions
  BY WritesPending DEF WritesFailed
<1>2. /\ builds'[b].st = "FAILED" /\ builds'[b].fn = builds[b].fn
      /\ \A a \in BuildIds : a # b => builds'[a] = builds[a]
  BY <1>1, RecordEffects DEF PatientInv, WritesFailed
<1> HIDE DEF b
<1>3. /\ JobRow(builds', versions', b) = [JobRow(builds, versions, b) EXCEPT !.st = "FAILED"]
      /\ \A a \in BuildIds : a # b => JobRow(builds', versions', a) = JobRow(builds, versions, a)
  BY <1>1, <1>2 DEF JobRow
<1>4. Jobs' = [Jobs EXCEPT ![b].st = "FAILED"]
  BY <1>1, <1>3, JobsAre
<1>5. Jobs[b].st = "PENDING"
  BY <1>1, JobsAre DEF JobRow
<1> QED BY <1>1, <1>4, <1>5, AbsFail

\* The transaction of runBuild is Succeed: the number nextVersionNumber computed
\* some steps ago is still the number of successful builds of the function plus one.
LEMMA SucceedRefines ==
    ASSUME NoLostReply, PatientInv, PatientInv', NEW p \in Apis, WritesVersion(p)
    PROVE  Job!Next
<1> DEFINE b == Current(p)
           f == FnOf(b)
           n == cons[p].num
           v == [fn |-> f, num |-> n, tag |-> TagOf(f, n), by |-> b]
<1>1. b \in BuildIds /\ builds[b].st = "PENDING" /\ builds[b].fn = f
  BY WritesPending DEF FnOf
<1>2. f \in Fns /\ n \in 1..MaxVersion /\ cons[p].pc = "commit"
  BY CurrentFacts DEF PatientInv, WritesVersion, Handling, ConsumerPc
<1>3. fns[f] = "live" /\ \A w \in versions : ~(w.fn = f /\ w.num = n)
  BY DEF WritesVersion, CommitRefused
<1>4. Precedes(f, n)
  BY <1>2, <1>3 DEF PatientInv, VersionInv, NumberInv
<1>5. v.num = n /\ v.by = b /\ versions' = versions \cup {v}
  BY DEF WritesVersion, RecordSuccess
<1>6. /\ builds'[b].st = "SUCCESS" /\ builds'[b].fn = builds[b].fn
      /\ \A a \in BuildIds : a # b => builds'[a] = builds[a]
  BY <1>1, RecordEffects DEF PatientInv, WritesVersion
<1> HIDE DEF b, f, n, v
<1>7. /\ \A u, w \in versions : u.by = w.by => u = w
      /\ \A u, w \in versions' : u.by = w.by => u = w
  BY DEF PatientInv, OutcomeInv, OneVersionPerBuild
<1>8. NumIn(versions', b) = n
  BY <1>5, <1>7, NumInFacts
<1>9. ASSUME NEW a \in BuildIds, a # b PROVE NumIn(versions', a) = NumIn(versions, a)
  <2>1. \A u : u.by = a => (u \in versions' <=> u \in versions)
    BY <1>5, <1>9
  <2> QED BY <1>7, <2>1, NumInSame
<1>10. JobRow(builds', versions', b) = [st |-> "SUCCESS", fn |-> builds[b].fn, num |-> n]
  BY <1>6, <1>8 DEF JobRow
<1>11. \A a \in BuildIds : a # b => JobRow(builds', versions', a) = JobRow(builds, versions, a)
  BY <1>6, <1>9 DEF JobRow
<1>12. \A a \in BuildIds : Jobs[a].st = builds[a].st /\ Jobs[a].fn = builds[a].fn
  BY JobsAre DEF JobRow
<1> DEFINE r == JobRow(builds', versions', b)
<1>13. r = [Jobs[b] EXCEPT !.st = "SUCCESS", !.num = n]
  <2>1. Jobs[b] = [st |-> builds[b].st, fn |-> builds[b].fn, num |-> NumIn(versions, b)]
    BY <1>1, JobsAre DEF JobRow
  <2>2. [Jobs[b] EXCEPT !.st = "SUCCESS"]
          = [st |-> "SUCCESS", fn |-> builds[b].fn, num |-> NumIn(versions, b)]
    BY <2>1
  <2>3. [[st |-> "SUCCESS", fn |-> builds[b].fn, num |-> NumIn(versions, b)] EXCEPT !.num = n]
          = [st |-> "SUCCESS", fn |-> builds[b].fn, num |-> n]
    OBVIOUS
  <2> QED BY <1>10, <2>2, <2>3, Zenon
<1>14. Jobs' = [Jobs EXCEPT ![b] = r]
  BY <1>1, <1>11, JobsAre
<1> DEFINE S == {a \in BuildIds : builds[a].fn = f /\ builds[a].st = "SUCCESS"}
<1>15. S = {a \in BuildIds : Jobs[a].fn = Jobs[b].fn /\ Jobs[a].st = "SUCCESS"}
  BY <1>1, <1>12
<1>16. Cardinality(S) = n - 1
  BY <1>2, <1>3, <1>4, VersionCount
<1> HIDE DEF S, r
<1>17. n = Cardinality(S) + 1
  BY <1>2, <1>16
<1>18. Jobs[b].st = "PENDING"
  BY <1>1, <1>12
<1> QED BY <1>1, <1>13, <1>14, <1>15, <1>17, <1>18, AbsSucceed, Zenon

\* Every step of the pipeline is a step of BuildJob or invisible to a client.
LEMMA JobsStep ==
    ASSUME NoLostReply, PatientInv, PatientInv', [Next]_vars
    PROVE  [Job!Next]_Jobs
<1>a. TypeInv
  BY DEF PatientInv
<1>1. CASE QuietStep
  BY <1>1, <1>a, QuietFacts, JobsKept
<1>2. ASSUME NEW f \in Fns, Register(f) PROVE Jobs' = Jobs
  BY <1>2, JobsKept DEF Register
<1>3. ASSUME NEW p \in Apis, Boot(p) \/ Crash(p) PROVE Jobs' = Jobs
  BY <1>3, <1>a, ProcessFacts, JobsKept
<1>4. ASSUME NEW p \in Apis, ConsumerStep(p) \/ ConsumerFault(p) PROVE Job!Next \/ Jobs' = Jobs
  <2>1. CASE WritesNothing
    BY <2>1, JobsKept DEF WritesNothing
  <2> QED BY <1>4, <2>1, ConsumerWrites, FailRefines, SucceedRefines
<1> QED BY <1>1, <1>2, <1>3, <1>4, StepKinds, RemoveRefines, SubmitRefines

\* The pipeline implements BuildJob: through crashes, redelivery, failed queries and
\* lost messages, a client that polls sees each build leave PENDING once, for FAILED
\* or for SUCCESS with the next version number of its function, and stay there until
\* the function is deleted.
THEOREM BuildImplementsJob ==
    ASSUME Patient, NoLostReply
    PROVE  Spec => ImplementsBuildJob
<1>1. Init => Job!Init
  <2> SUFFICES ASSUME Init PROVE Job!Init
    OBVIOUS
  <2>1. \A b \in BuildIds : builds[b].st = "none" /\ builds[b].fn = NoFn
    BY DEF Init
  <2>2. \A b \in BuildIds : NumIn(versions, b) = 0
    BY DEF Init, NumIn
  <2>3. Jobs = [b \in BuildIds |-> [st |-> "none", fn |-> NoFn, num |-> 0]]
    BY <2>1, <2>2, JobsAre DEF JobRow
  <2> QED BY <2>3, Zenon DEF Job!Init
<1>2. PatientInv /\ PatientInv' /\ [Next]_vars => [Job!Next]_Jobs
  BY JobsStep
<1> QED BY <1>1, <1>2, BuildPatientInvariant, PTL DEF Spec, ImplementsBuildJob, Job!Spec
=============================================================================
