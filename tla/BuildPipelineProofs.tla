------------------------ MODULE BuildPipelineProofs ------------------------
(***************************************************************************)
(* Proofs about BuildPipeline, for every number of API processes, relay    *)
(* ticks, functions, builds and failures.                                  *)
(***************************************************************************)
EXTENDS BuildPipeline, RedisStreamProofs

\* A row that has been created belongs to a function that has been registered,
\* and only a created row is published.
RowInv ==
    \A b \in BuildIds :
        /\ builds[b].st # "none" => builds[b].fn \in Fns /\ fns[builds[b].fn] # "absent"
        /\ builds[b].pub => builds[b].st # "none"

\* Only published builds are in the stream.
StreamInv == \A i \in DOMAIN log : builds[log[i].val].pub

Handling == ConsumerPc \ {"down", "loop"}

\* A consumer works on stream positions that exist, and has a version number
\* when it builds.
ConsumerInv ==
    \A p \in Apis :
        /\ cons[p].todo \subseteq DOMAIN log
        /\ cons[p].pc \in Handling => cons[p].cur \in DOMAIN log
        /\ cons[p].pc \in {"build", "commit"} => cons[p].num \in 1..MaxVersion

\* A relay tick works on rows that exist, and publishes those it has marked.
TickInv ==
    \A t \in Slots : \A b \in relay[t].ids :
        /\ builds[b].st # "none"
        /\ relay[t].pc = "xadd" => builds[b].pub

TypeInv == TypeOK /\ RowInv /\ StreamInv /\ ConsumerInv /\ TickInv

\* The initial state satisfies the type invariant.
LEMMA TypeInvInit == Init => TypeInv
<1> SUFFICES ASSUME Init PROVE TypeInv
  OBVIOUS
<1>1. TypeOK
  <2>1. builds \in [BuildIds -> BuildRow]
    BY DEF Init, BuildRow
  <2>2. relay \in [Slots -> TickState]
    BY DEF Init, TickState, IdleTick
  <2>3. cons \in [Apis -> ConsumerState]
    BY BuildAssumption DEF Init, ConsumerState, Stopped, Booted, ConsumerPc
  <2>4. log \in Seq(Entries(BuildIds, Apis))
    BY DEF Init
  <2>5. /\ up \in [Apis -> BOOLEAN]
        /\ fns \in [Fns -> {"absent", "live", "deleted"}]
        /\ versions \subseteq VersionRow
        /\ images \in [Tags -> BuildIds \cup {0}]
        /\ group \in BOOLEAN
        /\ orphans \subseteq Tags \X BuildIds
        /\ lost \subseteq BuildIds
    BY DEF Init
  <2>6. faults \in 0..MaxFaults
    BY BuildAssumption DEF Init
  <2> QED BY <2>1, <2>2, <2>3, <2>4, <2>5, <2>6 DEF TypeOK
<1>2. RowInv
  BY DEF RowInv, Init
<1>3. StreamInv /\ ConsumerInv /\ TickInv
  BY DEF StreamInv, ConsumerInv, TickInv, Stopped, Booted, IdleTick, Handling, Init
<1> QED BY <1>1, <1>2, <1>3 DEF TypeInv

\* What TypeInv says of the message at a stream position.
LEMMA EntryFacts ==
    ASSUME TypeInv, NEW i \in DOMAIN log
    PROVE  /\ log[i].val \in BuildIds
           /\ builds[log[i].val] \in BuildRow
           /\ builds[log[i].val].pub
           /\ builds[log[i].val].st # "none"
           /\ FnOf(log[i].val) \in Fns
           /\ fns[FnOf(log[i].val)] # "absent"
<1>1. log[i] \in Entries(BuildIds, Apis)
  BY DEF TypeInv, TypeOK
<1>2. log[i].val \in BuildIds
  BY <1>1 DEF Entries
<1>3. builds[log[i].val] \in BuildRow
  BY <1>2 DEF TypeInv, TypeOK
<1> QED BY <1>2, <1>3 DEF TypeInv, StreamInv, RowInv, FnOf

\* The stream keeps its positions and what they carry.
StreamKept ==
    /\ log' \in Seq(Entries(BuildIds, Apis))
    /\ DOMAIN log' = DOMAIN log
    /\ \A i \in DOMAIN log : log'[i].val = log[i].val

\* No row is created, deleted, published or moved to another function.
RowsKept ==
    /\ builds' \in [BuildIds -> BuildRow]
    /\ \A b \in BuildIds : /\ builds'[b].fn = builds[b].fn
                           /\ builds'[b].pub = builds[b].pub
                           /\ builds'[b].st = "none" <=> builds[b].st = "none"

\* The type invariant across a step of consumer p, which leaves the relays, the
\* functions and the processes alone.
LEMMA ConsumerFrame ==
    ASSUME TypeInv, NEW p \in Apis, NEW c \in ConsumerState,
           cons' = [cons EXCEPT ![p] = c],
           c.todo \subseteq DOMAIN log,
           c.pc \in Handling => c.cur \in DOMAIN log,
           c.pc \in {"build", "commit"} => c.num \in 1..MaxVersion,
           StreamKept, RowsKept,
           versions' \subseteq VersionRow,
           images' \in [Tags -> BuildIds \cup {0}],
           orphans' \subseteq Tags \X BuildIds,
           faults' \in 0..MaxFaults,
           UNCHANGED <<up, fns, group, relay, lost>>
    PROVE  TypeInv'
<1>1. cons' \in [Apis -> ConsumerState]
  BY DEF TypeInv, TypeOK
<1>2. TypeOK'
  BY <1>1 DEF TypeInv, TypeOK, StreamKept, RowsKept
<1>3. RowInv'
  BY DEF TypeInv, RowInv, RowsKept
<1>4. StreamInv'
  <2> SUFFICES ASSUME NEW i \in DOMAIN log PROVE builds'[log'[i].val].pub
    BY DEF StreamInv, StreamKept
  <2> QED BY EntryFacts DEF StreamKept, RowsKept
<1>5. ConsumerInv'
  BY <1>1 DEF TypeInv, TypeOK, ConsumerInv, StreamKept
<1>6. TickInv'
  BY DEF TypeInv, TypeOK, TickInv, TickState, RowsKept
<1> QED BY <1>2, <1>3, <1>4, <1>5, <1>6 DEF TypeInv

\* An unchanged stream or table is kept.
LEMMA KeptWhenUnchanged ==
    ASSUME TypeInv
    PROVE  /\ log' = log => StreamKept
           /\ builds' = builds => RowsKept
  BY DEF TypeInv, TypeOK, StreamKept, RowsKept

\* The shapes a consumer's next state has.
LEMMA ConsumerShapes ==
    ASSUME TypeInv, NEW p \in Apis
    PROVE  /\ cons[p] \in ConsumerState
           /\ cons[p].todo \subseteq DOMAIN log
           /\ \A pc \in ConsumerPc : [cons[p] EXCEPT !.pc = pc] \in ConsumerState
           /\ [cons[p] EXCEPT !.pc = "loop", !.cur = 0, !.num = 0] \in ConsumerState
           /\ [cons[p] EXCEPT !.src = "read"] \in ConsumerState
           /\ \A i : [cons[p] EXCEPT !.todo = @ \ {i}] \in ConsumerState
<1>1. cons[p] \in ConsumerState /\ cons[p].todo \subseteq DOMAIN log
  BY DEF TypeInv, TypeOK, ConsumerInv
<1> DEFINE c == cons[p]
<1> HIDE DEF c
<1>2. \A pc \in ConsumerPc : [c EXCEPT !.pc = pc] \in ConsumerState
  BY <1>1 DEF ConsumerState, c
<1>3. [c EXCEPT !.pc = "loop", !.cur = 0, !.num = 0] \in ConsumerState
  <2>1. c \in ConsumerState /\ 0 \in Nat /\ 0 \in 0..MaxVersion /\ "loop" \in ConsumerPc
    BY <1>1, BuildAssumption DEF ConsumerPc, c
  <2> QED BY <2>1 DEF ConsumerState
<1>4. [c EXCEPT !.src = "read"] \in ConsumerState
  BY <1>1 DEF ConsumerState, c
<1>5. ASSUME NEW i PROVE [c EXCEPT !.todo = @ \ {i}] \in ConsumerState
  <2>1. c \in ConsumerState /\ c.todo \ {i} \in SUBSET Nat
    BY <1>1 DEF ConsumerState, c
  <2> QED BY <2>1 DEF ConsumerState
<1> QED BY <1>1, <1>2, <1>3, <1>4, <1>5 DEF c

\* The steps of a consumer and its failures that only move it along.
LEMMA ConsumerMoves ==
    ASSUME TypeInv, NEW p \in Apis,
           \/ Done(p)
           \/ \E pc \in {"next", "catch", "ack"} : cons[p].pc \in Handling /\ Goto(p, pc)
           \/ cons[p].pc = "build" /\ Goto(p, "commit"),
           StreamKept, RowsKept,
           versions' \subseteq VersionRow,
           images' \in [Tags -> BuildIds \cup {0}],
           orphans' \subseteq Tags \X BuildIds,
           faults' \in 0..MaxFaults,
           UNCHANGED <<up, fns, group, relay, lost>>
    PROVE  TypeInv'
<1>1. CASE Done(p)
  <2> DEFINE c == [cons[p] EXCEPT !.pc = "loop", !.cur = 0, !.num = 0]
  <2>1. c \in ConsumerState
    BY ConsumerShapes
  <2>2. c.todo = cons[p].todo /\ c.pc = "loop"
    BY ConsumerShapes DEF ConsumerState
  <2>3. cons' = [cons EXCEPT ![p] = c]
    BY <1>1 DEF Done
  <2> HIDE DEF c
  <2>4. c.pc \notin Handling /\ c.pc \notin {"build", "commit"}
    BY <2>2 DEF Handling
  <2> QED BY <2>1, <2>2, <2>3, <2>4, ConsumerFrame, ConsumerShapes
<1>2. CASE \E pc \in {"next", "catch", "ack"} : cons[p].pc \in Handling /\ Goto(p, pc)
  <2> PICK pc \in {"next", "catch", "ack"} : cons[p].pc \in Handling /\ Goto(p, pc)
    BY <1>2
  <2> DEFINE c == [cons[p] EXCEPT !.pc = pc]
  <2>1. c \in ConsumerState
    BY ConsumerShapes DEF ConsumerPc
  <2>2. c.todo = cons[p].todo /\ c.pc = pc /\ c.cur = cons[p].cur
    BY ConsumerShapes DEF ConsumerState
  <2>3. cons' = [cons EXCEPT ![p] = c]
    BY DEF Goto
  <2> HIDE DEF c
  <2>4. c.cur \in DOMAIN log
    BY <2>2 DEF TypeInv, ConsumerInv
  <2> QED BY <2>1, <2>2, <2>3, <2>4, ConsumerFrame, ConsumerShapes
<1>3. CASE cons[p].pc = "build" /\ Goto(p, "commit")
  <2> DEFINE c == [cons[p] EXCEPT !.pc = "commit"]
  <2>1. c \in ConsumerState
    BY ConsumerShapes DEF ConsumerPc
  <2>2. c.todo = cons[p].todo /\ c.pc = "commit" /\ c.cur = cons[p].cur /\ c.num = cons[p].num
    BY ConsumerShapes DEF ConsumerState
  <2>3. cons' = [cons EXCEPT ![p] = c]
    BY <1>3 DEF Goto
  <2> HIDE DEF c
  <2>4. c.cur \in DOMAIN log /\ c.num \in 1..MaxVersion
    BY <1>3, <2>2 DEF TypeInv, ConsumerInv, Handling, ConsumerPc
  <2> QED BY <2>1, <2>2, <2>3, <2>4, ConsumerFrame, ConsumerShapes
<1> QED BY <1>1, <1>2, <1>3

\* What TypeInv says of a consumer that is handling a message.
LEMMA CurrentFacts ==
    ASSUME TypeInv, NEW p \in Apis, cons[p].pc \in Handling
    PROVE  /\ cons[p].cur \in DOMAIN log
           /\ Current(p) \in BuildIds
           /\ builds[Current(p)] \in BuildRow
           /\ builds[Current(p)].pub
           /\ builds[Current(p)].st # "none"
           /\ FnOf(Current(p)) \in Fns
           /\ fns[FnOf(Current(p))] # "absent"
           /\ cons[p].pc \in {"build", "commit"} =>
                /\ cons[p].num \in 1..MaxVersion
                /\ BuildTag(p) \in Tags
                /\ BuildTag(p) = TagOf(FnOf(Current(p)), cons[p].num)
<1>1. cons[p].cur \in DOMAIN log
  BY DEF TypeInv, ConsumerInv
<1>2. cons[p].pc \in {"build", "commit"} => cons[p].num \in 1..MaxVersion
  BY DEF TypeInv, ConsumerInv
<1>3. FnOf(Current(p)) \in Fns
  BY <1>1, EntryFacts DEF Current
<1>4. cons[p].pc \in {"build", "commit"} => BuildTag(p) \in Tags
  BY <1>2, <1>3, BuildAssumption DEF BuildTag, TagOf, Tags
<1> QED BY <1>1, <1>2, <1>4, EntryFacts DEF Current, BuildTag

\* The two writes of runBuild.
LEMMA RecordFacts ==
    ASSUME TypeInv, NEW p \in Apis, cons[p].pc \in Handling
    PROVE  /\ cons[p].pc = "commit" /\ RecordSuccess(Current(p), cons[p].num)
                => RowsKept /\ versions' \subseteq VersionRow
           /\ RecordFailed(Current(p)) => RowsKept
<1> DEFINE b == Current(p)
           n == cons[p].num
<1>1. b \in BuildIds /\ builds[b] \in BuildRow /\ builds[b].st # "none" /\ FnOf(b) \in Fns
  BY CurrentFacts
<1>2. ASSUME cons[p].pc = "commit" PROVE n \in 1..MaxVersion /\ TagOf(FnOf(b), n) \in Tags
  BY <1>2, CurrentFacts
<1> HIDE DEF b, n
<1>3. ASSUME cons[p].pc = "commit", RecordSuccess(b, n)
      PROVE  RowsKept /\ versions' \subseteq VersionRow
  <2>1. [fn |-> FnOf(b), num |-> n, tag |-> TagOf(FnOf(b), n), by |-> b] \in VersionRow
    BY <1>1, <1>2, <1>3 DEF VersionRow
  <2>2. versions' \subseteq VersionRow
    BY <1>3, <2>1 DEF RecordSuccess, TypeInv, TypeOK
  <2> DEFINE r == [builds[b] EXCEPT !.st = "SUCCESS", !.tag = TagOf(FnOf(b), n)]
  <2>3. /\ r \in BuildRow /\ r.fn = builds[b].fn /\ r.pub = builds[b].pub
        /\ r.st # "none"
    BY <1>1, <1>2, <1>3 DEF BuildRow
  <2>4. builds' = [builds EXCEPT ![b] = r]
    BY <1>3 DEF RecordSuccess
  <2> HIDE DEF r
  <2> QED BY <1>1, <2>2, <2>3, <2>4 DEF RowsKept, TypeInv, TypeOK
<1>4. ASSUME RecordFailed(b) PROVE RowsKept
  <2> DEFINE r == [builds[b] EXCEPT !.st = "FAILED"]
  <2>3. r \in BuildRow /\ r.fn = builds[b].fn /\ r.pub = builds[b].pub /\ r.st # "none"
    BY <1>1 DEF BuildRow
  <2>4. builds' = [builds EXCEPT ![b] = r]
    BY <1>4 DEF RecordFailed
  <2> HIDE DEF r
  <2> QED BY <1>1, <2>3, <2>4 DEF RowsKept, TypeInv, TypeOK
<1> QED BY <1>3, <1>4 DEF b, n

\* updateMany(publishedToStreamAt) on the rows a tick has locked.
LEMMA MarkFacts ==
    ASSUME TypeInv, NEW t \in Slots, builds' = MarkPublished(relay[t].ids)
    PROVE  /\ builds' \in [BuildIds -> BuildRow]
           /\ \A b \in BuildIds : /\ builds'[b].fn = builds[b].fn
                                  /\ builds'[b].st = builds[b].st
                                  /\ builds'[b].tag = builds[b].tag
                                  /\ builds'[b].pub <=> builds[b].pub \/ b \in relay[t].ids
           /\ RowInv' \/ fns' # fns
<1>1. \A b \in BuildIds : /\ builds'[b] \in BuildRow
                          /\ builds'[b].fn = builds[b].fn
                          /\ builds'[b].st = builds[b].st
                          /\ builds'[b].tag = builds[b].tag
                          /\ builds'[b].pub <=> builds[b].pub \/ b \in relay[t].ids
  <2> TAKE b \in BuildIds
  <2>1. builds[b] \in BuildRow
    BY DEF TypeInv, TypeOK
  <2>2. builds'[b] = IF b \in relay[t].ids THEN [builds[b] EXCEPT !.pub = TRUE] ELSE builds[b]
    BY DEF MarkPublished
  <2> QED BY <2>1, <2>2 DEF BuildRow
<1>2. builds' \in [BuildIds -> BuildRow]
  BY <1>1 DEF MarkPublished
<1>3. ASSUME fns' = fns PROVE RowInv'
  BY <1>1, <1>3 DEF TypeInv, RowInv, TickInv
<1> QED BY <1>1, <1>2, <1>3

\* A tick after one of its builds, and the builds that are left.
LEMMA NextClaimedFacts ==
    ASSUME TypeInv, NEW t \in Slots, NEW b \in relay[t].ids
    PROVE  /\ NextClaimed(relay[t], b) \in TickState
           /\ NextClaimed(relay[t], b).ids = relay[t].ids \ {b}
           /\ NextClaimed(relay[t], b).pc \in {"idle", relay[t].pc}
           /\ NextClaimed(relay[t], b).pc = "idle" => NextClaimed(relay[t], b).ids = {} \/ relay[t].pc = "idle"
<1>1. relay[t] \in TickState
  BY DEF TypeInv, TypeOK
<1>2. CASE relay[t].ids = {b}
  BY <1>2 DEF NextClaimed, IdleTick, TickState
<1>3. CASE relay[t].ids # {b}
  BY <1>1, <1>3 DEF NextClaimed, TickState
<1> QED BY <1>2, <1>3

\* The stream after the relay has added build b.
LEMMA PublishFacts ==
    ASSUME TypeInv, NEW b \in BuildIds
    PROVE  /\ XAdd(log, b) \in Seq(Entries(BuildIds, Apis))
           /\ \E n : /\ n \notin DOMAIN log
                     /\ DOMAIN XAdd(log, b) = DOMAIN log \cup {n}
                     /\ XAdd(log, b)[n].val = b
                     /\ XAdd(log, b)[n].st = "new"
           /\ \A i \in DOMAIN log : XAdd(log, b)[i] = log[i]
<1>1. log \in Seq(Entries(BuildIds, Apis))
  BY DEF TypeInv, TypeOK
<1>2. PICK e \in Entries(BuildIds, Apis) : e.val = b /\ e.st = "new" /\ XAdd(log, b) = Append(log, e)
  BY XAddFacts
<1>3. /\ Append(log, e) \in Seq(Entries(BuildIds, Apis))
      /\ Len(log) + 1 \notin DOMAIN log
      /\ DOMAIN Append(log, e) = DOMAIN log \cup {Len(log) + 1}
      /\ Append(log, e)[Len(log) + 1] = e
      /\ \A i \in DOMAIN log : Append(log, e)[i] = log[i]
  BY <1>1
<1> DEFINE n == Len(log) + 1
           new == Append(log, e)
<1> HIDE DEF n, new
<1>4. /\ new \in Seq(Entries(BuildIds, Apis)) /\ n \notin DOMAIN log
      /\ DOMAIN new = DOMAIN log \cup {n} /\ new[n] = e /\ XAdd(log, b) = new
      /\ \A i \in DOMAIN log : new[i] = log[i]
  BY <1>2, <1>3 DEF n, new
<1> QED BY <1>2, <1>4

\* The cascade of a function's deletion: a row of f is deleted, the others stay.
LEMMA RemoveFacts ==
    ASSUME TypeInv, NEW f \in Fns, Remove(f), NEW b \in BuildIds
    PROVE  /\ builds'[b] \in BuildRow
           /\ builds'[b].fn = builds[b].fn
           /\ builds'[b].pub = builds[b].pub
           /\ builds'[b].tag = builds[b].tag
           /\ builds'[b].st = "none" <=> builds[b].st = "none"
           /\ builds'[b].st # builds[b].st => builds'[b].st = "deleted"
           /\ builds[b].fn = f => builds'[b].st \in {"none", "deleted"}
<1>1. builds[b] \in BuildRow
  BY DEF TypeInv, TypeOK
<1>2. builds'[b] = IF FnOf(b) = f /\ Exists(b) THEN [builds[b] EXCEPT !.st = "deleted"] ELSE builds[b]
  BY DEF Remove
<1>3. Exists(b) <=> builds[b].st \notin {"none", "deleted"}
  BY DEF Exists
<1>4. FnOf(b) = builds[b].fn
  BY DEF FnOf
<1> QED BY <1>1, <1>2, <1>3, <1>4 DEF BuildRow

\* The row a request adds.
LEMMA SubmitFacts ==
    ASSUME TypeInv, NEW b \in BuildIds, NEW f \in Fns, SubmitBuild(b, f)
    PROVE  \E r \in BuildRow : /\ r.fn = f /\ r.pub = builds[b].pub /\ r.st = "PENDING"
                               /\ builds' = [builds EXCEPT ![b] = r]
<1> DEFINE r == [builds[b] EXCEPT !.st = "PENDING", !.fn = f]
<1>1. builds[b] \in BuildRow
  BY DEF TypeInv, TypeOK
<1>2. r \in BuildRow /\ r.fn = f /\ r.pub = builds[b].pub /\ r.st = "PENDING"
  BY <1>1 DEF BuildRow
<1>3. builds' = [builds EXCEPT ![b] = r]
  BY DEF SubmitBuild
<1> HIDE DEF r
<1> QED BY <1>2, <1>3

\* The type invariant across HTTP requests, start-up, the relay and idle clocks.
LEMMA TypeInvOthers ==
    ASSUME TypeInv,
           \/ \E f \in Fns : Register(f) \/ Remove(f)
           \/ \E b \in BuildIds, f \in Fns : SubmitBuild(b, f)
           \/ \E p \in Apis : Boot(p) \/ Crash(p)
           \/ \E t \in Slots : RelayStep(t) \/ RelayFault(t)
           \/ \E i \in DOMAIN log : IdleOut(i)
           \/ \E o \in orphans : OrphanLands(o)
    PROVE  TypeInv'
<1>1. ASSUME NEW f \in Fns, Register(f) PROVE TypeInv'
  BY <1>1 DEF Register, TypeInv, TypeOK, RowInv, StreamInv, ConsumerInv, TickInv, stream
<1>2. ASSUME NEW f \in Fns, Remove(f) PROVE TypeInv'
  <2>1. \A b \in BuildIds : /\ builds'[b] \in BuildRow
                            /\ builds'[b].fn = builds[b].fn
                            /\ builds'[b].pub = builds[b].pub
                            /\ builds'[b].st = "none" <=> builds[b].st = "none"
    BY <1>2, RemoveFacts
  <2>2. builds' \in [BuildIds -> BuildRow]
    BY <1>2, <2>1 DEF Remove
  <2>3. TypeOK'
    BY <1>2, <2>2 DEF Remove, TypeInv, TypeOK, stream
  <2>4. RowInv'
    BY <1>2, <2>1 DEF Remove, TypeInv, TypeOK, RowInv
  <2>5. StreamInv'
    BY <1>2, <2>1, EntryFacts DEF Remove, StreamInv, stream
  <2>6. ConsumerInv'
    BY <1>2 DEF Remove, TypeInv, ConsumerInv, stream
  <2>7. TickInv'
    BY <1>2, <2>1 DEF Remove, TypeInv, TypeOK, TickInv, TickState
  <2> QED BY <2>3, <2>4, <2>5, <2>6, <2>7 DEF TypeInv
<1>3. ASSUME NEW b \in BuildIds, NEW f \in Fns, SubmitBuild(b, f) PROVE TypeInv'
  <2>1. PICK r \in BuildRow : /\ r.fn = f /\ r.pub = builds[b].pub /\ r.st = "PENDING"
                             /\ builds' = [builds EXCEPT ![b] = r]
    BY <1>3, SubmitFacts
  <2>2. builds' = [builds EXCEPT ![b] = r]
    BY <2>1
  <2>3. TypeOK'
    <3>1. builds' \in [BuildIds -> BuildRow]
      BY <2>1, <2>2 DEF TypeInv, TypeOK
    <3> QED BY <1>3, <3>1 DEF SubmitBuild, TypeInv, TypeOK, stream
  <2>4. RowInv'
    BY <1>3, <2>1, <2>2 DEF SubmitBuild, TypeInv, TypeOK, RowInv
  <2>5. StreamInv'
    <3> SUFFICES ASSUME NEW i \in DOMAIN log PROVE builds'[log[i].val].pub
      BY <1>3 DEF SubmitBuild, StreamInv, stream
    <3> QED BY <2>1, <2>2, EntryFacts DEF TypeInv, TypeOK
  <2>6. ConsumerInv'
    BY <1>3 DEF SubmitBuild, TypeInv, ConsumerInv, stream
  <2>7. TickInv'
    <3>1. \A t \in Slots : relay[t].ids \subseteq BuildIds
      BY DEF TypeInv, TypeOK, TickState
    <3>2. \A a \in BuildIds : builds'[a].pub = builds[a].pub /\ (builds'[a].st = "none" => builds[a].st = "none")
      BY <2>1, <2>2 DEF TypeInv, TypeOK
    <3> QED BY <1>3, <3>1, <3>2 DEF SubmitBuild, TypeInv, TickInv
  <2> QED BY <2>3, <2>4, <2>5, <2>6, <2>7 DEF TypeInv
<1>4. ASSUME NEW p \in Apis, Boot(p) PROVE TypeInv'
  <2>1. StreamKept
    BY <1>4, XGroupCreateFacts DEF Boot, StreamKept, TypeInv, TypeOK
  <2>2. Booted \in ConsumerState /\ Booted.todo = {} /\ Booted.pc = "loop"
    BY BuildAssumption DEF Booted, ConsumerState, ConsumerPc
  <2>3. cons' \in [Apis -> ConsumerState]
    BY <1>4, <2>2 DEF Boot, TypeInv, TypeOK
  <2>4. TypeOK'
    BY <1>4, <2>1, <2>3 DEF Boot, StreamKept, TypeInv, TypeOK, db
  <2>5. RowInv' /\ StreamInv' /\ TickInv'
    BY <1>4, <2>1 DEF Boot, StreamKept, TypeInv, RowInv, StreamInv, TickInv, db
  <2>6. ConsumerInv'
    BY <1>4, <2>1, <2>2 DEF Boot, StreamKept, TypeInv, TypeOK, ConsumerInv, Handling
  <2> QED BY <2>4, <2>5, <2>6 DEF TypeInv
<1>5. ASSUME NEW p \in Apis, Crash(p) PROVE TypeInv'
  <2>1. Stopped \in ConsumerState /\ Stopped.todo = {} /\ Stopped.pc = "down"
    BY BuildAssumption DEF Stopped, Booted, ConsumerState, ConsumerPc
  <2>2. cons' \in [Apis -> ConsumerState]
    BY <1>5, <2>1 DEF Crash, TypeInv, TypeOK
  <2>3. relay' \in [Slots -> TickState]
    BY <1>5 DEF Crash, TypeInv, TypeOK, IdleTick, TickState
  <2>4. lost' \subseteq BuildIds
    <3>1. \A t \in Slots : relay[t].ids \subseteq BuildIds
      BY DEF TypeInv, TypeOK, TickState
    <3> QED BY <1>5, <3>1 DEF Crash, TypeInv, TypeOK
  <2>5. orphans' \subseteq Tags \X BuildIds
    <3>1. CASE cons[p].pc = "build"
      <4>1. BuildTag(p) \in Tags /\ Current(p) \in BuildIds
        BY <3>1, CurrentFacts DEF Handling, ConsumerPc
      <4> QED BY <1>5, <4>1 DEF Crash, TypeInv, TypeOK
    <3>2. CASE cons[p].pc # "build"
      BY <1>5, <3>2 DEF Crash, TypeInv, TypeOK
    <3> QED BY <3>1, <3>2
  <2>6. TypeOK'
    BY <1>5, <2>2, <2>3, <2>4, <2>5, BuildAssumption DEF Crash, Fault, TypeInv, TypeOK, db, stream
  <2>7. RowInv' /\ StreamInv'
    BY <1>5 DEF Crash, TypeInv, RowInv, StreamInv, db, stream
  <2>8. ConsumerInv'
    BY <1>5, <2>1 DEF Crash, TypeInv, TypeOK, ConsumerInv, Handling, stream
  <2>9. TickInv'
    BY <1>5 DEF Crash, TypeInv, TypeOK, TickInv, IdleTick, db
  <2> QED BY <2>6, <2>7, <2>8, <2>9 DEF TypeInv
<1>6. ASSUME NEW i \in DOMAIN log, IdleOut(i) PROVE TypeInv'
  <2>1. StreamKept
    BY <1>6, ExpireFacts DEF IdleOut, StreamKept, TypeInv, TypeOK
  <2> QED BY <1>6, <2>1 DEF IdleOut, StreamKept, TypeInv, TypeOK, RowInv, StreamInv, ConsumerInv, TickInv, db
<1>7. ASSUME NEW o \in orphans, OrphanLands(o) PROVE TypeInv'
  BY <1>7 DEF OrphanLands, TypeInv, TypeOK, RowInv, StreamInv, ConsumerInv, TickInv, db, stream
<1>8. ASSUME NEW t \in Slots, RelayLock(t) PROVE TypeInv'
  <2> DEFINE r == [pc |-> "locked", ids |-> Oldest(Claimable)]
  <2>1. r \in TickState /\ r.pc = "locked" /\ r.ids = Oldest(Claimable)
    BY DEF TickState, Oldest, Claimable
  <2>2. \A b \in Oldest(Claimable) : builds[b].st = "PENDING"
    BY DEF Oldest, Claimable
  <2>3. relay' = [relay EXCEPT ![t] = r]
    BY <1>8 DEF RelayLock
  <2> HIDE DEF r
  <2>4. TickInv'
    BY <1>8, <2>1, <2>2, <2>3 DEF RelayLock, TypeInv, TypeOK, TickInv, db
  <2> QED BY <1>8, <2>1, <2>3, <2>4
          DEF RelayLock, TypeInv, TypeOK, RowInv, StreamInv, ConsumerInv, db, stream
<1>9. ASSUME NEW t \in Slots, relay[t].pc = "locked", builds' = MarkPublished(relay[t].ids),
             relay' = [relay EXCEPT ![t].pc = "xadd"] \/ relay' = [relay EXCEPT ![t] = IdleTick],
             lost' \subseteq BuildIds, faults' \in 0..MaxFaults,
             UNCHANGED <<up, fns, versions, images, stream, cons, orphans>>
      PROVE  TypeInv'
  <2>1. relay' \in [Slots -> TickState]
    BY <1>9 DEF TypeInv, TypeOK, TickState, IdleTick
  <2>2. TypeOK'
    BY <1>9, <2>1, MarkFacts DEF TypeInv, TypeOK, stream
  <2>3. RowInv'
    BY <1>9, MarkFacts
  <2>4. StreamInv'
    BY <1>9, MarkFacts, EntryFacts DEF StreamInv, stream
  <2>5. ConsumerInv'
    BY <1>9 DEF TypeInv, ConsumerInv, stream
  <2>6. TickInv'
    <3> SUFFICES ASSUME NEW s \in Slots, NEW b \in relay'[s].ids
                 PROVE  builds'[b].st # "none" /\ (relay'[s].pc = "xadd" => builds'[b].pub)
      BY DEF TickInv
    <3>1. /\ b \in relay[s].ids /\ b \in BuildIds
          /\ relay'[s].pc = "xadd" => relay[s].pc = "xadd" \/ s = t
      BY <1>9 DEF TypeInv, TypeOK, TickState, IdleTick
    <3> QED BY <1>9, <3>1, MarkFacts DEF TypeInv, TickInv
  <2> QED BY <2>2, <2>3, <2>4, <2>5, <2>6 DEF TypeInv
<1>10. ASSUME NEW t \in Slots, RelayCommit(t) PROVE TypeInv'
  BY <1>9, <1>10 DEF RelayCommit, TypeInv, TypeOK
<1>11. ASSUME NEW t \in Slots, RelayReplyLost(t) PROVE TypeInv'
  <2>1. relay[t].ids \subseteq BuildIds
    BY DEF TypeInv, TypeOK, TickState
  <2>2. lost' \subseteq BuildIds /\ faults' \in 0..MaxFaults
    BY <1>11, <2>1, BuildAssumption DEF RelayReplyLost, Fault, TypeInv, TypeOK
  <2> QED BY <1>9, <1>11, <2>2 DEF RelayReplyLost
<1>12. ASSUME NEW t \in Slots, RelayDbFails(t) PROVE TypeInv'
  <2>1. relay' \in [Slots -> TickState]
    BY <1>12 DEF RelayDbFails, TypeInv, TypeOK, TickState, IdleTick
  <2>2. TickInv'
    BY <1>12, <2>1 DEF RelayDbFails, TypeInv, TypeOK, TickInv, IdleTick, db
  <2>3. TypeOK'
    BY <1>12, <2>1, BuildAssumption DEF RelayDbFails, Fault, TypeInv, TypeOK, db, stream
  <2> QED BY <1>12, <2>2, <2>3 DEF RelayDbFails, TypeInv, RowInv, StreamInv, ConsumerInv, db, stream
<1>13. ASSUME NEW t \in Slots, NEW b \in relay[t].ids, relay[t].pc = "xadd",
              relay' = [relay EXCEPT ![t] = NextClaimed(@, b)],
              log' = log \/ log' = XAdd(log, b),
              lost' \subseteq BuildIds, faults' \in 0..MaxFaults,
              UNCHANGED <<up, db, images, group, cons, orphans>>
       PROVE  TypeInv'
  <2>1. b \in BuildIds /\ builds[b].pub
    BY <1>13 DEF TypeInv, TypeOK, TickState, TickInv
  <2>2. /\ log' \in Seq(Entries(BuildIds, Apis))
        /\ DOMAIN log \subseteq DOMAIN log'
        /\ \A i \in DOMAIN log' : builds[log'[i].val].pub
    <3>1. log \in Seq(Entries(BuildIds, Apis))
      BY DEF TypeInv, TypeOK
    <3>2. CASE log' = log
      BY <3>1, <3>2 DEF TypeInv, StreamInv
    <3>3. CASE log' = XAdd(log, b)
      <4>1. /\ log' \in Seq(Entries(BuildIds, Apis))
            /\ \E n : DOMAIN log' = DOMAIN log \cup {n} /\ log'[n].val = b
            /\ \A i \in DOMAIN log : log'[i] = log[i]
        BY <2>1, <3>3, PublishFacts
      <4> QED BY <2>1, <4>1 DEF TypeInv, StreamInv
    <3> QED BY <1>13, <3>2, <3>3
  <2>3. relay' \in [Slots -> TickState]
    BY <1>13, NextClaimedFacts DEF TypeInv, TypeOK
  <2>4. TypeOK'
    BY <1>13, <2>2, <2>3 DEF TypeInv, TypeOK, db
  <2>5. RowInv' /\ StreamInv'
    BY <1>13, <2>2 DEF TypeInv, RowInv, StreamInv, db
  <2>6. ConsumerInv'
    BY <1>13, <2>2 DEF TypeInv, ConsumerInv
  <2>7. TickInv'
    BY <1>13, <2>3, NextClaimedFacts DEF TypeInv, TypeOK, TickInv, db
  <2> QED BY <2>4, <2>5, <2>6, <2>7 DEF TypeInv
<1>14. ASSUME NEW t \in Slots, RelayXadd(t) PROVE TypeInv'
  BY <1>13, <1>14 DEF RelayXadd, TypeInv, TypeOK
<1>15. ASSUME NEW t \in Slots, XaddFails(t) PROVE TypeInv'
  <2>1. relay[t].ids \subseteq BuildIds
    BY DEF TypeInv, TypeOK, TickState
  <2>2. PICK b \in relay[t].ids : /\ lost' = lost \cup {b}
                                  /\ relay' = [relay EXCEPT ![t] = NextClaimed(@, b)]
    BY <1>15 DEF XaddFails
  <2>3. lost' \subseteq BuildIds
    BY <2>1, <2>2 DEF TypeInv, TypeOK
  <2>4. faults' \in 0..MaxFaults
    BY <1>15, BuildAssumption DEF XaddFails, Fault, TypeInv, TypeOK
  <2> QED BY <1>13, <1>15, <2>2, <2>3, <2>4 DEF XaddFails, stream
<1> QED BY <1>1, <1>2, <1>3, <1>4, <1>5, <1>6, <1>7, <1>8, <1>10, <1>11, <1>12, <1>14, <1>15
        DEF RelayStep, RelayFault

\* The type invariant across the steps and failures of a consumer.
LEMMA TypeInvConsumer ==
    ASSUME TypeInv, NEW p \in Apis, ConsumerStep(p) \/ ConsumerFault(p)
    PROVE  TypeInv'
<1> USE DEF TypeInv
<1>a. /\ TypeOK /\ cons[p] \in ConsumerState /\ cons[p].todo \subseteq DOMAIN log
      /\ log \in Seq(Entries(BuildIds, Apis))
  BY ConsumerShapes DEF TypeOK
<1>b. /\ log' = log => StreamKept
      /\ builds' = builds => RowsKept
      /\ versions' = versions => versions' \subseteq VersionRow
      /\ images' = images => images' \in [Tags -> BuildIds \cup {0}]
      /\ orphans' = orphans => orphans' \subseteq Tags \X BuildIds
      /\ faults' = faults => faults' \in 0..MaxFaults
      /\ \A kind : Fault(kind) => faults' \in 0..MaxFaults
  BY KeptWhenUnchanged, BuildAssumption DEF TypeOK, Fault
<1>c. ASSUME NEW c \in ConsumerState, cons' = [cons EXCEPT ![p] = c], c.pc = "loop",
             c.todo \subseteq DOMAIN log, StreamKept, faults' \in 0..MaxFaults,
             UNCHANGED <<up, db, images, group, relay, orphans, lost>>
      PROVE  TypeInv'
  BY <1>b, <1>c, ConsumerFrame DEF Handling, db
<1>d. ASSUME XAutoClaim(log, p) = log' PROVE StreamKept /\ Expired(log) \subseteq DOMAIN log
  BY <1>a, <1>d, XAutoClaimFacts DEF StreamKept
<1>e. ASSUME NEW i \in DOMAIN log, log' = Deliver(log, i, p) PROVE StreamKept
  BY <1>a, <1>e, DeliverFacts DEF StreamKept
<1>f. DOMAIN log \subseteq Nat
  BY <1>a
<1>1. CASE Reclaim(p)
  <2> DEFINE c == [cons[p] EXCEPT !.src = "reclaim", !.todo = Expired(log)]
  <2>1. StreamKept /\ Expired(log) \subseteq DOMAIN log
    BY <1>1, <1>d DEF Reclaim
  <2>2. c \in ConsumerState /\ c.pc = cons[p].pc /\ c.todo = Expired(log)
    BY <1>a, <1>f, <2>1 DEF ConsumerState
  <2>3. cons' = [cons EXCEPT ![p] = c] /\ cons[p].pc = "loop"
    BY <1>1 DEF Reclaim, InLoop
  <2> HIDE DEF c
  <2> QED BY <1>1, <1>b, <1>c, <2>1, <2>2, <2>3 DEF Reclaim
<1>2. CASE ReadNew(p)
  <2>1. PICK i \in DOMAIN log : /\ log' = Deliver(log, i, p)
                                /\ cons' = [cons EXCEPT ![p] = [@ EXCEPT !.src = "read", !.todo = {i}]]
    BY <1>2 DEF ReadNew
  <2> DEFINE c == [cons[p] EXCEPT !.src = "read", !.todo = {i}]
  <2>2. c \in ConsumerState /\ c.pc = cons[p].pc /\ c.todo = {i}
    BY <1>a, <1>f DEF ConsumerState
  <2>3. cons' = [cons EXCEPT ![p] = c] /\ cons[p].pc = "loop"
    BY <1>2, <2>1 DEF ReadNew, InLoop
  <2> HIDE DEF c
  <2> QED BY <1>2, <1>b, <1>c, <1>e, <2>1, <2>2, <2>3 DEF ReadNew
<1>g. ASSUME cons' = [cons EXCEPT ![p].src = "read"], cons[p].pc = "loop", StreamKept,
             faults' \in 0..MaxFaults,
             UNCHANGED <<up, db, images, group, relay, orphans, lost>>
      PROVE  TypeInv'
  <2> DEFINE c == [cons[p] EXCEPT !.src = "read"]
  <2>1. c \in ConsumerState /\ c.pc = cons[p].pc /\ c.todo = cons[p].todo
    BY <1>a DEF ConsumerState
  <2>2. cons' = [cons EXCEPT ![p] = c]
    BY <1>g
  <2> HIDE DEF c
  <2> QED BY <1>a, <1>c, <1>g, <2>1, <2>2
<1>3. CASE ReadNothing(p)
  BY <1>3, <1>b, <1>g DEF ReadNothing, InLoop, stream
<1>4. CASE HandleMessage(p)
  <2>1. PICK i \in cons[p].todo :
           cons' = [cons EXCEPT ![p] =
                      [cons[p] EXCEPT !.todo = @ \ {i},
                                      !.pc = AfterLookup(log[i].val),
                                      !.cur = IF AfterLookup(log[i].val) = "loop" THEN 0 ELSE i]]
    BY <1>4 DEF HandleMessage
  <2> DEFINE pc == AfterLookup(log[i].val)
             cur == IF pc = "loop" THEN 0 ELSE i
             c == [cons[p] EXCEPT !.todo = @ \ {i}, !.pc = pc, !.cur = cur]
  <2>2. pc \in {"loop", "ack", "find"}
    BY DEF AfterLookup
  <2>3. i \in DOMAIN log /\ i \in Nat
    BY <1>a, <1>f
  <2>5. cons' = [cons EXCEPT ![p] = c]
    BY <2>1
  <2> HIDE DEF pc
  <2>4. /\ c \in ConsumerState /\ c.pc = pc /\ c.todo = cons[p].todo \ {i}
        /\ c.cur = cur
    BY <1>a, <2>2, <2>3 DEF ConsumerState, ConsumerPc
  <2> HIDE DEF c
  <2> QED BY <1>4, <1>a, <1>b, <2>2, <2>3, <2>4, <2>5, ConsumerFrame
          DEF HandleMessage, Handling, db, stream
<1>5. CASE FindFunction(p)
  BY <1>5, <1>b, ConsumerMoves DEF FindFunction, Handling, ConsumerPc, db, stream
<1>6. CASE NextVersionNumber(p)
  <2>1. PICK n \in 0..(MaxVersion - 1) :
           cons' = [cons EXCEPT ![p] = [@ EXCEPT !.pc = "build", !.num = n + 1]]
    BY <1>6 DEF NextVersionNumber
  <2> DEFINE c == [cons[p] EXCEPT !.pc = "build", !.num = n + 1]
  <2>2. n + 1 \in 1..MaxVersion /\ n + 1 \in 0..MaxVersion
    BY BuildAssumption
  <2>3. /\ c \in ConsumerState /\ c.pc = "build" /\ c.todo = cons[p].todo
        /\ c.cur = cons[p].cur /\ c.num = n + 1
    BY <1>a, <2>2 DEF ConsumerState, ConsumerPc
  <2>4. cons' = [cons EXCEPT ![p] = c]
    BY <2>1
  <2>5. cons[p].cur \in DOMAIN log
    BY <1>6 DEF NextVersionNumber, ConsumerInv, Handling, ConsumerPc
  <2> HIDE DEF c
  <2> QED BY <1>6, <1>a, <1>b, <2>2, <2>3, <2>4, <2>5, ConsumerFrame
          DEF NextVersionNumber, Handling, db, stream
<1>7. CASE ExecutorBuilds(p)
  <2>1. BuildTag(p) \in Tags /\ Current(p) \in BuildIds
    BY <1>7, CurrentFacts DEF ExecutorBuilds, Handling, ConsumerPc
  <2>2. images' \in [Tags -> BuildIds \cup {0}]
    BY <1>7, <2>1 DEF ExecutorBuilds, TypeOK
  <2> QED BY <1>7, <1>b, <2>2, ConsumerMoves DEF ExecutorBuilds, db, stream
<1>8. CASE ExecutorFails(p)
  BY <1>8, <1>b, ConsumerMoves DEF ExecutorFails, Handling, ConsumerPc, db, stream
<1>9. CASE ExecutorGivesUp(p)
  <2>1. BuildTag(p) \in Tags /\ Current(p) \in BuildIds
    BY <1>9, CurrentFacts DEF ExecutorGivesUp, Handling, ConsumerPc
  <2>2. orphans' \subseteq Tags \X BuildIds
    BY <1>9, <2>1 DEF ExecutorGivesUp, TypeOK
  <2> QED BY <1>9, <1>b, <2>2, ConsumerMoves DEF ExecutorGivesUp, Handling, ConsumerPc, db, stream
<1>10. CASE CommitVersion(p)
  <2>1. CASE UNCHANGED db /\ Goto(p, "catch")
    BY <1>10, <1>b, <2>1, ConsumerMoves DEF CommitVersion, Handling, ConsumerPc, db, stream
  <2>2. CASE RecordSuccess(Current(p), cons[p].num) /\ Goto(p, "ack") /\ UNCHANGED fns
    BY <1>10, <1>b, <2>2, ConsumerMoves, RecordFacts DEF CommitVersion, Handling, ConsumerPc, stream
  <2> QED BY <1>10, <2>1, <2>2 DEF CommitVersion
<1>11. CASE CatchFailed(p)
  <2>1. CASE RecordFailed(Current(p)) /\ Goto(p, "ack")
    BY <1>11, <1>b, <2>1, ConsumerMoves, RecordFacts DEF CatchFailed, Handling, ConsumerPc, stream
  <2>2. CASE Done(p) /\ UNCHANGED builds
    BY <1>11, <1>b, <2>2, ConsumerMoves DEF CatchFailed, stream
  <2> QED BY <1>11, <2>1, <2>2 DEF CatchFailed
<1>12. CASE AckMessage(p)
  <2>1. cons[p].cur \in DOMAIN log
    BY <1>12, CurrentFacts DEF AckMessage, Handling, ConsumerPc
  <2>2. StreamKept
    BY <1>12, <1>a, <2>1, XAckFacts DEF AckMessage, StreamKept
  <2> QED BY <1>12, <1>b, <2>2, ConsumerMoves DEF AckMessage, db
<1>13. CASE ConsumerDbFails(p)
  <2>1. CASE \E i \in cons[p].todo : cons[p].pc = "loop" /\ cons' = [cons EXCEPT ![p].todo = @ \ {i}]
    <3>1. PICK i \in cons[p].todo : cons[p].pc = "loop" /\ cons' = [cons EXCEPT ![p].todo = @ \ {i}]
      BY <2>1
    <3> DEFINE c == [cons[p] EXCEPT !.todo = @ \ {i}]
    <3>2. c \in ConsumerState
      BY ConsumerShapes
    <3>3. c.pc = cons[p].pc /\ c.todo = cons[p].todo \ {i}
      BY <1>a DEF ConsumerState
    <3>4. cons' = [cons EXCEPT ![p] = c]
      BY <3>1
    <3> HIDE DEF c
    <3> QED BY <1>13, <1>a, <1>b, <1>c, <3>1, <3>2, <3>3, <3>4 DEF ConsumerDbFails, stream
  <2>2. CASE cons[p].pc \in {"find", "next", "commit"} /\ Goto(p, "catch")
    BY <1>13, <1>b, <2>2, ConsumerMoves DEF ConsumerDbFails, Handling, ConsumerPc, db, stream
  <2>3. CASE Done(p)
    BY <1>13, <1>b, <2>3, ConsumerMoves DEF ConsumerDbFails, db, stream
  <2> QED BY <1>13, <2>1, <2>2, <2>3 DEF ConsumerDbFails
<1>14. CASE ConsumerReplyLost(p)
  <2>1. CASE /\ cons[p].pc = "commit"
             /\ RecordSuccess(Current(p), cons[p].num)
             /\ Goto(p, "catch")
    BY <1>14, <1>b, <2>1, ConsumerMoves, RecordFacts DEF ConsumerReplyLost, Handling, ConsumerPc, stream
  <2>2. CASE cons[p].pc = "catch" /\ RecordFailed(Current(p)) /\ Done(p) /\ UNCHANGED versions
    BY <1>14, <1>b, <2>2, ConsumerMoves, RecordFacts DEF ConsumerReplyLost, Handling, ConsumerPc, stream
  <2> QED BY <1>14, <2>1, <2>2 DEF ConsumerReplyLost
<1>15. CASE ConsumerRedisFails(p)
  <2>1. CASE Done(p) /\ UNCHANGED log
    BY <1>15, <1>b, <2>1, ConsumerMoves DEF ConsumerRedisFails, db
  <2>2. CASE InLoop(p, "read") /\ log' = XAutoClaim(log, p) /\ UNCHANGED cons
    <3>1. cons' = [cons EXCEPT ![p].src = "read"]
      BY <1>a, <2>2 DEF InLoop, TypeOK, ConsumerState
    <3> QED BY <1>15, <1>b, <1>d, <1>g, <2>2, <3>1 DEF ConsumerRedisFails, InLoop
  <2>3. CASE /\ InLoop(p, "reclaim")
             /\ \E i \in DOMAIN log : log' = Deliver(log, i, p)
             /\ cons' = [cons EXCEPT ![p].src = "read"]
    BY <1>15, <1>b, <1>e, <1>g, <2>3 DEF ConsumerRedisFails, InLoop
  <2> QED BY <1>15, <2>1, <2>2, <2>3 DEF ConsumerRedisFails
<1> QED BY <1>1, <1>2, <1>3, <1>4, <1>5, <1>6, <1>7, <1>8, <1>9, <1>10, <1>11, <1>12, <1>13,
           <1>14, <1>15 DEF ConsumerStep, ConsumerFault

\* Every step preserves the type invariant.
LEMMA TypeInvStep == TypeInv /\ [Next]_vars => TypeInv'
<1>1. ASSUME TypeInv, UNCHANGED vars PROVE TypeInv'
  BY <1>1 DEF TypeInv, TypeOK, RowInv, StreamInv, ConsumerInv, TickInv, vars, db, stream
<1>2. ASSUME TypeInv, Next PROVE TypeInv'
  BY <1>2, TypeInvOthers, TypeInvConsumer DEF Next
<1> QED BY <1>1, <1>2

\* Type correctness of the build pipeline: the status strings, version numbers,
\* image tags and stream positions the services write stay in their ranges, and
\* no consumer, crashed or failing, ever looks at a message or a row that does
\* not exist.
THEOREM BuildTypeCorrect == Spec => []TypeOK
<1>1. Spec => []TypeInv
  BY TypeInvInit, TypeInvStep, PTL DEF Spec
<1>2. TypeInv => TypeOK
  BY DEF TypeInv
<1> QED BY <1>1, <1>2, PTL

-----------------------------------------------------------------------------
(***************************************************************************)
(* What a step or failure of consumer p does to the tables and the stream: *)
(* a row only gets an outcome, an entry is only delivered or acknowledged, *)
(* and it is acknowledged only for the build p has seen finished.          *)
(***************************************************************************)
RowProgress ==
    \A b \in BuildIds : builds'[b].st = builds[b].st \/ builds'[b].st \in {"SUCCESS", "FAILED"}

EntryProgress(p) ==
    \A i \in DOMAIN log :
        \/ log'[i].st = log[i].st
        \/ log[i].st = "new" /\ log'[i].st = "pending"
        \/ log'[i].st = "acked" /\ cons[p].pc = "ack" /\ i = cons[p].cur

\* No consumer step touches the relays, the functions or the processes.
LEMMA ConsumerKeeps ==
    ASSUME TypeInv, NEW p \in Apis, ConsumerStep(p) \/ ConsumerFault(p)
    PROVE  /\ StreamKept /\ RowsKept /\ RowProgress /\ EntryProgress(p)
           /\ UNCHANGED <<up, fns, group, relay, lost>>
<1>a. log \in Seq(Entries(BuildIds, Apis)) /\ builds \in [BuildIds -> BuildRow]
  BY DEF TypeInv, TypeOK
<1>b. ASSUME UNCHANGED builds PROVE RowsKept /\ RowProgress
  BY <1>b, KeptWhenUnchanged DEF RowProgress
<1>c. ASSUME UNCHANGED log PROVE StreamKept /\ EntryProgress(p)
  BY <1>c, KeptWhenUnchanged DEF EntryProgress
<1>d. ASSUME NEW i \in DOMAIN log, IsNextNew(log, i), log' = Deliver(log, i, p)
      PROVE  StreamKept /\ EntryProgress(p)
  BY <1>a, <1>d, DeliverFacts DEF StreamKept, EntryProgress, IsNextNew
<1>e. ASSUME log' = XAutoClaim(log, p) PROVE StreamKept /\ EntryProgress(p)
  BY <1>a, <1>e, XAutoClaimFacts DEF StreamKept, EntryProgress
<1>f. ASSUME cons[p].pc \in Handling, RecordFailed(Current(p)) PROVE RowsKept /\ RowProgress
  <2>1. RowsKept /\ Current(p) \in BuildIds
    BY <1>f, RecordFacts, CurrentFacts
  <2>2. RowProgress
    BY <1>a, <1>f, <2>1 DEF RecordFailed, RowProgress, BuildRow
  <2> QED BY <2>1, <2>2
<1>g. ASSUME cons[p].pc = "commit", RecordSuccess(Current(p), cons[p].num)
      PROVE  RowsKept /\ RowProgress
  <2>1. RowsKept /\ Current(p) \in BuildIds
    BY <1>g, RecordFacts, CurrentFacts DEF Handling, ConsumerPc
  <2>2. RowProgress
    BY <1>a, <1>g, <2>1 DEF RecordSuccess, RowProgress, BuildRow
  <2> QED BY <2>1, <2>2
<1>1. CASE Reclaim(p)
  BY <1>1, <1>b, <1>e DEF Reclaim, db
<1>2. CASE ReadNew(p)
  BY <1>2, <1>b, <1>d DEF ReadNew, db
<1>3. CASE \/ ReadNothing(p) \/ HandleMessage(p) \/ FindFunction(p) \/ NextVersionNumber(p)
           \/ ExecutorBuilds(p) \/ ExecutorFails(p) \/ ExecutorGivesUp(p)
  BY <1>3, <1>b, <1>c DEF ReadNothing, HandleMessage, FindFunction, NextVersionNumber,
     ExecutorBuilds, ExecutorFails, ExecutorGivesUp, db, stream
<1>4. CASE CommitVersion(p)
  BY <1>4, <1>b, <1>c, <1>g DEF CommitVersion, db, stream
<1>5. CASE CatchFailed(p)
  BY <1>5, <1>b, <1>c, <1>f DEF CatchFailed, Handling, ConsumerPc, stream
<1>6. CASE AckMessage(p)
  <2>1. cons[p].cur \in DOMAIN log
    BY <1>6, CurrentFacts DEF AckMessage, Handling, ConsumerPc
  <2>2. StreamKept /\ EntryProgress(p)
    BY <1>6, <1>a, <2>1, XAckFacts DEF AckMessage, StreamKept, EntryProgress
  <2> QED BY <1>6, <1>b, <2>2 DEF AckMessage, db
<1>7. CASE ConsumerDbFails(p)
  BY <1>7, <1>b, <1>c DEF ConsumerDbFails, db, stream
<1>8. CASE ConsumerReplyLost(p)
  BY <1>8, <1>c, <1>f, <1>g DEF ConsumerReplyLost, Handling, ConsumerPc, stream
<1>9. CASE ConsumerRedisFails(p)
  BY <1>9, <1>b, <1>c, <1>d, <1>e DEF ConsumerRedisFails, db
<1> QED BY <1>1, <1>2, <1>3, <1>4, <1>5, <1>6, <1>7, <1>8, <1>9 DEF ConsumerStep, ConsumerFault

-----------------------------------------------------------------------------
(***************************************************************************)
(* Published once.  The argument: a row is in the hands of at most one     *)
(* tick, because SKIP LOCKED hides the rows of an open transaction and the *)
(* COMMIT hides them for good; and a tick never holds a build that is in   *)
(* the stream, because it leaves a tick's hands the moment it is added.    *)
(***************************************************************************)
TickOwnership ==
    \A t \in Slots :
        /\ relay[t].pc = "idle" => relay[t].ids = {}
        /\ relay[t].pc = "locked" => \A b \in relay[t].ids : ~builds[b].pub
        /\ \A b \in relay[t].ids : \A i \in DOMAIN log : log[i].val # b
        /\ \A s \in Slots : \A b \in relay[t].ids : b \in relay[s].ids => s = t

PublishInv == TickOwnership /\ PublishedOnce

\* Steps that leave the relays alone and publish nothing.
LEMMA PublishFrame ==
    ASSUME TypeInv, PublishInv, UNCHANGED relay,
           DOMAIN log' = DOMAIN log, \A i \in DOMAIN log : log'[i].val = log[i].val,
           \A b \in BuildIds : builds'[b].pub = builds[b].pub
    PROVE  PublishInv'
<1>1. \A t \in Slots : relay[t].ids \subseteq BuildIds
  BY DEF TypeInv, TypeOK, TickState
<1>2. TickOwnership'
  BY <1>1 DEF PublishInv, TickOwnership
<1>3. PublishedOnce'
  BY DEF PublishInv, PublishedOnce
<1> QED BY <1>2, <1>3 DEF PublishInv

\* Every step preserves PublishInv.
LEMMA PublishInvStep ==
    ASSUME TypeInv, PublishInv, [Next]_vars
    PROVE  PublishInv'
<1>a. \A t \in Slots : relay[t] \in TickState /\ relay[t].ids \subseteq BuildIds
  BY DEF TypeInv, TypeOK, TickState
<1>b. relay \in [Slots -> TickState] /\ log \in Seq(Entries(BuildIds, Apis))
  BY DEF TypeInv, TypeOK
<1>0. CASE UNCHANGED vars
  BY <1>0, PublishFrame DEF vars, db, stream
<1>1. ASSUME NEW f \in Fns, Register(f) PROVE PublishInv'
  BY <1>1, PublishFrame DEF Register, stream
<1>2. ASSUME NEW f \in Fns, Remove(f) PROVE PublishInv'
  <2>1. \A b \in BuildIds : builds'[b].pub = builds[b].pub
    BY <1>2, RemoveFacts
  <2> QED BY <1>2, <2>1, PublishFrame DEF Remove, stream
<1>3. ASSUME NEW b \in BuildIds, NEW f \in Fns, SubmitBuild(b, f) PROVE PublishInv'
  <2>1. \A a \in BuildIds : builds'[a].pub = builds[a].pub
    <3>1. PICK r \in BuildRow : r.pub = builds[b].pub /\ builds' = [builds EXCEPT ![b] = r]
      BY <1>3, SubmitFacts
    <3> QED BY <3>1 DEF TypeInv, TypeOK
  <2> QED BY <1>3, <2>1, PublishFrame DEF SubmitBuild, stream
<1>4. ASSUME NEW p \in Apis, Boot(p) PROVE PublishInv'
  <2>1. DOMAIN log' = DOMAIN log /\ \A i \in DOMAIN log : log'[i].val = log[i].val
    BY <1>4, <1>b, XGroupCreateFacts DEF Boot
  <2> QED BY <1>4, <2>1, PublishFrame DEF Boot, db
<1>5. ASSUME NEW p \in Apis, ConsumerStep(p) \/ ConsumerFault(p) PROVE PublishInv'
  BY <1>5, ConsumerKeeps, PublishFrame DEF StreamKept, RowsKept
<1>6. ASSUME NEW i \in DOMAIN log, IdleOut(i) PROVE PublishInv'
  <2>1. DOMAIN log' = DOMAIN log /\ \A j \in DOMAIN log : log'[j].val = log[j].val
    BY <1>6, <1>b, ExpireFacts DEF IdleOut
  <2> QED BY <1>6, <2>1, PublishFrame DEF IdleOut, db
<1>7. ASSUME NEW o \in orphans, OrphanLands(o) PROVE PublishInv'
  BY <1>7, PublishFrame DEF OrphanLands, db, stream
<1>8. ASSUME NEW p \in Apis, Crash(p) PROVE PublishInv'
  <2>1. \A t \in Slots : relay'[t] = relay[t] \/ relay'[t] = IdleTick
    BY <1>8 DEF Crash
  <2>2. TickOwnership'
    BY <1>8, <2>1 DEF Crash, PublishInv, TickOwnership, IdleTick, db, stream
  <2> QED BY <1>8, <2>2 DEF Crash, PublishInv, PublishedOnce, stream
<1>9. ASSUME NEW t \in Slots, RelayLock(t) PROVE PublishInv'
  <2>1. \A b \in Oldest(Claimable) : /\ b \in BuildIds /\ ~builds[b].pub
                                     /\ \A s \in Slots : relay[s].pc = "locked" => b \notin relay[s].ids
    BY DEF Oldest, Claimable, Locked
  <2>2. \A b \in Oldest(Claimable) : \A s \in Slots : b \notin relay[s].ids
    BY <1>a, <2>1 DEF TickState, TypeInv, TickInv, PublishInv, TickOwnership
  <2>3. \A b \in Oldest(Claimable) : \A i \in DOMAIN log : log[i].val # b
    BY <2>1 DEF TypeInv, StreamInv
  <2> DEFINE r == [pc |-> "locked", ids |-> Oldest(Claimable)]
  <2>4. r.pc = "locked" /\ r.ids = Oldest(Claimable)
    OBVIOUS
  <2>5. relay' = [relay EXCEPT ![t] = r]
    BY <1>9 DEF RelayLock
  <2> HIDE DEF r
  <2>6. TickOwnership'
    BY <1>9, <1>b, <2>1, <2>2, <2>3, <2>4, <2>5
       DEF RelayLock, PublishInv, TickOwnership, db, stream
  <2> QED BY <1>9, <2>6 DEF RelayLock, PublishInv, PublishedOnce, stream
<1>10. ASSUME NEW t \in Slots, relay[t].pc = "locked", builds' = MarkPublished(relay[t].ids),
              UNCHANGED log,
              relay' = [relay EXCEPT ![t].pc = "xadd"] \/ relay' = [relay EXCEPT ![t] = IdleTick]
       PROVE  PublishInv'
  <2>1. \A s \in Slots : /\ s # t => relay'[s] = relay[s]
                         /\ relay'[s].ids \subseteq relay[s].ids
                         /\ relay'[s].pc = "idle" => relay'[s].ids = {}
                         /\ relay'[s].pc = "locked" => s # t
    BY <1>10, <1>a, <1>b DEF TickState, IdleTick, PublishInv, TickOwnership
  <2>2. \A s \in Slots : relay'[s].pc = "locked" => \A b \in relay'[s].ids : ~builds'[b].pub
    <3> SUFFICES ASSUME NEW s \in Slots, relay'[s].pc = "locked", NEW b \in relay'[s].ids
                 PROVE  ~builds'[b].pub
      OBVIOUS
    <3>1. s # t /\ relay[s].pc = "locked" /\ b \in relay[s].ids /\ b \notin relay[t].ids /\ b \in BuildIds
      BY <1>a, <2>1 DEF PublishInv, TickOwnership
    <3> QED BY <1>10, <3>1, MarkFacts DEF PublishInv, TickOwnership
  <2>3. TickOwnership'
    BY <1>10, <2>1, <2>2 DEF PublishInv, TickOwnership
  <2> QED BY <1>10, <2>3 DEF PublishInv, PublishedOnce
<1>11. ASSUME NEW t \in Slots, RelayCommit(t) \/ RelayReplyLost(t) PROVE PublishInv'
  BY <1>10, <1>11 DEF RelayCommit, RelayReplyLost, stream
<1>12. ASSUME NEW t \in Slots, RelayDbFails(t) PROVE PublishInv'
  <2>1. \A s \in Slots : relay'[s] = relay[s] \/ relay'[s] = IdleTick
    BY <1>12, <1>b DEF RelayDbFails
  <2>2. TickOwnership'
    BY <1>12, <2>1 DEF RelayDbFails, PublishInv, TickOwnership, IdleTick, db, stream
  <2> QED BY <1>12, <2>2 DEF RelayDbFails, PublishInv, PublishedOnce, stream
<1>13. ASSUME NEW t \in Slots, NEW b \in relay[t].ids, relay[t].pc = "xadd",
              relay' = [relay EXCEPT ![t] = NextClaimed(@, b)], UNCHANGED builds,
              log' = log \/ log' = XAdd(log, b)
       PROVE  PublishInv'
  <2>1. \A s \in Slots : /\ relay'[s].ids \subseteq relay[s].ids
                         /\ b \notin relay'[s].ids
                         /\ relay'[s].pc = "idle" => relay'[s].ids = {}
                         /\ relay'[s].pc = "locked" => relay[s].pc = "locked"
    BY <1>13, <1>b, NextClaimedFacts DEF PublishInv, TickOwnership
  <2>2. CASE log' = log
    <3>1. TickOwnership'
      BY <1>13, <2>1, <2>2 DEF PublishInv, TickOwnership
    <3> QED BY <2>2, <3>1 DEF PublishInv, PublishedOnce
  <2>3. CASE log' = XAdd(log, b)
    <3>1. PICK n : /\ DOMAIN log' = DOMAIN log \cup {n}
                   /\ \A i \in DOMAIN log : log'[i] = log[i]
                   /\ log'[n].val = b
      <4>1. b \in BuildIds
        BY <1>a
      <4> QED BY <2>3, <4>1, PublishFacts
    <3>2. \A i \in DOMAIN log : log[i].val # b
      BY DEF PublishInv, TickOwnership
    <3>3. TickOwnership'
      BY <1>13, <2>1, <3>1 DEF PublishInv, TickOwnership
    <3>4. PublishedOnce'
      BY <3>1, <3>2 DEF PublishInv, PublishedOnce
    <3> QED BY <3>3, <3>4 DEF PublishInv
  <2> QED BY <1>13, <2>2, <2>3
<1>14. ASSUME NEW t \in Slots, RelayXadd(t) \/ XaddFails(t) PROVE PublishInv'
  BY <1>13, <1>14 DEF RelayXadd, XaddFails, db, stream
<1> QED BY <1>0, <1>1, <1>2, <1>3, <1>4, <1>5, <1>6, <1>7, <1>8, <1>9, <1>11, <1>12, <1>14
        DEF Next, RelayStep, RelayFault

\* The transactional outbox publishes a build at most once, for any number of
\* API processes, overlapping ticks and failures.
THEOREM BuildPublishedOnce == Spec => []PublishedOnce
<1>1. Init => TypeInv /\ PublishInv
  <2> SUFFICES ASSUME Init PROVE PublishInv
    BY TypeInvInit
  <2> QED BY DEF Init, PublishInv, TickOwnership, PublishedOnce, IdleTick
<1>2. TypeInv /\ PublishInv /\ [Next]_vars => TypeInv' /\ PublishInv'
  BY TypeInvStep, PublishInvStep
<1>3. PublishInv => PublishedOnce
  BY DEF PublishInv
<1> QED BY <1>1, <1>2, <1>3, PTL DEF Spec

-----------------------------------------------------------------------------
(***************************************************************************)
(* Acknowledged only when finished.  The inductive part: a consumer that   *)
(* is about to XACK has seen an outcome in the row, and no step turns an   *)
(* outcome back into PENDING.                                              *)
(***************************************************************************)
AckInv ==
    /\ AckedOnlyWhenFinished
    /\ \A p \in Apis : cons[p].pc = "ack" => builds[Current(p)].st # "PENDING"

\* No created row becomes PENDING (again).
StatusMonotone ==
    \A b \in BuildIds :
        builds[b].st # "none" /\ builds'[b].st = "PENDING" => builds[b].st = "PENDING"

\* Steps that acknowledge nothing and bring no consumer to its XACK.
LEMMA AckFrame ==
    ASSUME TypeInv, AckInv, StatusMonotone,
           \A p \in Apis : cons'[p] = cons[p] \/ cons'[p].pc # "ack",
           \A i \in DOMAIN log : i \in DOMAIN log' /\ log'[i].val = log[i].val,
           \A i \in DOMAIN log' : log'[i].st = "acked" => i \in DOMAIN log /\ log[i].st = "acked"
    PROVE  AckInv'
<1>1. AckedOnlyWhenFinished'
  BY EntryFacts DEF AckInv, AckedOnlyWhenFinished, StatusMonotone
<1>2. ASSUME NEW p \in Apis, cons'[p].pc = "ack" PROVE builds'[Current(p)'].st # "PENDING"
  <2>1. cons'[p] = cons[p] /\ cons[p].pc \in Handling
    BY <1>2 DEF Handling, ConsumerPc
  <2>2. cons[p].cur \in DOMAIN log
    BY <2>1, CurrentFacts
  <2>3. Current(p)' = Current(p)
    BY <2>1, <2>2 DEF Current
  <2> QED BY <1>2, <2>1, <2>2, <2>3, EntryFacts DEF AckInv, StatusMonotone, Current
<1> QED BY <1>1, <1>2 DEF AckInv

\* A step of consumer p moves no other consumer, and brings p to its XACK only
\* for a build that has an outcome.
LEMMA ConsumerAck ==
    ASSUME TypeInv, NEW p \in Apis, ConsumerStep(p) \/ ConsumerFault(p)
    PROVE  /\ \A q \in Apis : q # p => cons'[q] = cons[q]
           /\ cons'[p].pc = "ack" => /\ cons'[p].cur \in DOMAIN log
                                     /\ builds'[log[cons'[p].cur].val].st # "PENDING"
<1>a. cons \in [Apis -> ConsumerState] /\ builds \in [BuildIds -> BuildRow]
  BY DEF TypeInv, TypeOK
<1>1. \A q \in Apis : q # p => cons'[q] = cons[q]
  BY <1>a DEF ConsumerStep, ConsumerFault, Reclaim, ReadNew, ReadNothing, HandleMessage, FindFunction,
     NextVersionNumber, ExecutorBuilds, ExecutorFails, ExecutorGivesUp, CommitVersion, CatchFailed,
     AckMessage, ConsumerDbFails, ConsumerReplyLost, ConsumerRedisFails, Goto, Done
<1> SUFFICES ASSUME cons'[p].pc = "ack"
             PROVE  /\ cons'[p].cur \in DOMAIN log
                    /\ builds'[log[cons'[p].cur].val].st # "PENDING"
  BY <1>1
<1>2. \/ HandleMessage(p)
      \/ CommitVersion(p) /\ Goto(p, "ack") /\ RecordSuccess(Current(p), cons[p].num)
      \/ CatchFailed(p) /\ Goto(p, "ack") /\ RecordFailed(Current(p))
  BY <1>a DEF ConsumerStep, ConsumerFault, Reclaim, ReadNew, ReadNothing, FindFunction, InLoop,
     NextVersionNumber, ExecutorBuilds, ExecutorFails, ExecutorGivesUp, CommitVersion, CatchFailed,
     AckMessage, ConsumerDbFails, ConsumerReplyLost, ConsumerRedisFails, Goto, Done, ConsumerState
<1>3. CASE HandleMessage(p)
  <2>1. PICK i \in cons[p].todo :
           cons' = [cons EXCEPT ![p] =
                      [cons[p] EXCEPT !.todo = @ \ {i},
                                      !.pc = AfterLookup(log[i].val),
                                      !.cur = IF AfterLookup(log[i].val) = "loop" THEN 0 ELSE i]]
    BY <1>3 DEF HandleMessage
  <2>2. cons'[p].pc = AfterLookup(log[i].val) /\ cons'[p].cur = i
    BY <1>a, <2>1 DEF ConsumerState
  <2>3. i \in DOMAIN log
    BY ConsumerShapes
  <2>4. Finished(log[i].val)
    BY <2>2 DEF AfterLookup
  <2> QED BY <1>3, <2>2, <2>3, <2>4 DEF HandleMessage, Finished, db
<1>4. CASE CommitVersion(p) /\ Goto(p, "ack") /\ RecordSuccess(Current(p), cons[p].num)
  <2>1. cons[p].pc \in Handling
    BY <1>4 DEF CommitVersion, Handling, ConsumerPc
  <2>2. cons'[p].cur = cons[p].cur
    BY <1>4, <1>a DEF Goto, ConsumerState
  <2> QED BY <1>4, <1>a, <2>1, <2>2, CurrentFacts DEF RecordSuccess, Current, BuildRow
<1>5. CASE CatchFailed(p) /\ Goto(p, "ack") /\ RecordFailed(Current(p))
  <2>1. cons[p].pc \in Handling
    BY <1>5 DEF CatchFailed, Handling, ConsumerPc
  <2>2. cons'[p].cur = cons[p].cur
    BY <1>5, <1>a DEF Goto, ConsumerState
  <2> QED BY <1>5, <1>a, <2>1, <2>2, CurrentFacts DEF RecordFailed, Current, BuildRow
<1> QED BY <1>2, <1>3, <1>4, <1>5

\* Every step preserves AckInv.
LEMMA AckInvStep ==
    ASSUME TypeInv, AckInv, [Next]_vars
    PROVE  AckInv'
<1>a. log \in Seq(Entries(BuildIds, Apis)) /\ cons \in [Apis -> ConsumerState]
  BY DEF TypeInv, TypeOK
<1>b. ASSUME UNCHANGED builds PROVE StatusMonotone
  BY <1>b DEF StatusMonotone
<1>0. CASE UNCHANGED vars
  BY <1>0, <1>b, AckFrame DEF vars, db, stream
<1>1. ASSUME NEW f \in Fns, Register(f) PROVE AckInv'
  BY <1>1, <1>b, AckFrame DEF Register, stream
<1>2. ASSUME NEW f \in Fns, Remove(f) PROVE AckInv'
  <2>1. StatusMonotone
    BY <1>2, RemoveFacts DEF StatusMonotone
  <2> QED BY <1>2, <2>1, AckFrame DEF Remove, stream
<1>3. ASSUME NEW b \in BuildIds, NEW f \in Fns, SubmitBuild(b, f) PROVE AckInv'
  <2>1. PICK r \in BuildRow : builds' = [builds EXCEPT ![b] = r]
    BY <1>3, SubmitFacts
  <2>2. StatusMonotone
    BY <1>3, <2>1 DEF SubmitBuild, StatusMonotone, TypeInv, TypeOK
  <2> QED BY <1>3, <2>2, AckFrame DEF SubmitBuild, stream
<1>4. ASSUME NEW p \in Apis, Boot(p) PROVE AckInv'
  <2>1. /\ DOMAIN log' = DOMAIN log /\ \A i \in DOMAIN log : log'[i].val = log[i].val
        /\ \A i \in DOMAIN log : log'[i].st = "acked" => log[i].st = "acked"
    BY <1>4, <1>a, XGroupCreateFacts DEF Boot
  <2>2. \A q \in Apis : cons'[q] = cons[q] \/ cons'[q].pc # "ack"
    BY <1>4, <1>a DEF Boot, Booted
  <2> QED BY <1>4, <1>b, <2>1, <2>2, AckFrame DEF Boot, db
<1>5. ASSUME NEW p \in Apis, ConsumerStep(p) \/ ConsumerFault(p) PROVE AckInv'
  <2>1. StreamKept /\ RowsKept /\ RowProgress /\ EntryProgress(p)
    BY <1>5, ConsumerKeeps
  <2>2. AckedOnlyWhenFinished'
    <3> SUFFICES ASSUME NEW i \in DOMAIN log, log'[i].st = "acked"
                 PROVE  builds'[log[i].val].st # "PENDING"
      BY <2>1 DEF AckedOnlyWhenFinished, StreamKept
    <3>1. \/ log[i].st = "acked"
          \/ cons[p].pc = "ack" /\ i = cons[p].cur
      BY <2>1 DEF EntryProgress
    <3>2. builds[log[i].val].st # "PENDING"
      BY <3>1 DEF AckInv, AckedOnlyWhenFinished, Current
    <3> QED BY <2>1, <3>2, EntryFacts DEF RowProgress
  <2>3. ASSUME NEW q \in Apis, cons'[q].pc = "ack" PROVE builds'[Current(q)'].st # "PENDING"
    <3>1. CASE q = p
      BY <1>5, <2>1, <2>3, <3>1, ConsumerAck DEF Current, StreamKept
    <3>2. CASE q # p
      <4>1. cons'[q] = cons[q]
        BY <1>5, <3>2, ConsumerAck
      <4>2. cons[q].pc \in Handling /\ cons[q].pc = "ack"
        BY <2>3, <4>1 DEF Handling, ConsumerPc
      <4>3. Current(q)' = Current(q) /\ Current(q) \in BuildIds
        BY <2>1, <4>1, <4>2, CurrentFacts DEF Current, StreamKept
      <4> QED BY <2>1, <4>2, <4>3 DEF AckInv, RowProgress
    <3> QED BY <3>1, <3>2
  <2> QED BY <2>2, <2>3 DEF AckInv
<1>6. ASSUME NEW i \in DOMAIN log, IdleOut(i) PROVE AckInv'
  <2>1. /\ DOMAIN log' = DOMAIN log
        /\ \A j \in DOMAIN log : log'[j].val = log[j].val /\ log'[j].st = log[j].st
    BY <1>6, <1>a, ExpireFacts DEF IdleOut
  <2> QED BY <1>6, <1>b, <2>1, AckFrame DEF IdleOut, db
<1>7. ASSUME NEW o \in orphans, OrphanLands(o) PROVE AckInv'
  BY <1>7, <1>b, AckFrame DEF OrphanLands, db, stream
<1>8. ASSUME NEW p \in Apis, Crash(p) PROVE AckInv'
  <2>1. \A q \in Apis : cons'[q] = cons[q] \/ cons'[q].pc # "ack"
    BY <1>8, <1>a DEF Crash, Stopped, Booted
  <2> QED BY <1>8, <1>b, <2>1, AckFrame DEF Crash, db, stream
<1>9. ASSUME NEW t \in Slots, RelayLock(t) \/ RelayDbFails(t) \/ XaddFails(t) PROVE AckInv'
  BY <1>9, <1>b, AckFrame DEF RelayLock, RelayDbFails, XaddFails, db, stream
<1>10. ASSUME NEW t \in Slots, RelayCommit(t) \/ RelayReplyLost(t) PROVE AckInv'
  <2>1. StatusMonotone
    BY <1>10, MarkFacts DEF RelayCommit, RelayReplyLost, StatusMonotone
  <2> QED BY <1>10, <2>1, AckFrame DEF RelayCommit, RelayReplyLost, stream
<1>11. ASSUME NEW t \in Slots, RelayXadd(t) PROVE AckInv'
  <2>1. PICK b \in relay[t].ids : log' = XAdd(log, b)
    BY <1>11 DEF RelayXadd
  <2>2. b \in BuildIds
    BY DEF TypeInv, TypeOK, TickState
  <2>3. PICK n : /\ DOMAIN log' = DOMAIN log \cup {n} /\ log'[n].st = "new"
                 /\ \A i \in DOMAIN log : log'[i] = log[i]
    BY <2>1, <2>2, PublishFacts
  <2> QED BY <1>11, <1>b, <2>3, AckFrame DEF RelayXadd, db
<1> QED BY <1>0, <1>1, <1>2, <1>3, <1>4, <1>5, <1>6, <1>7, <1>8, <1>9, <1>10, <1>11
        DEF Next, RelayStep, RelayFault

\* handleMessage acknowledges a message only after its build has an outcome,
\* whatever fails and whoever else handles the message at the same time.
THEOREM BuildAckedOnlyWhenFinished == Spec => []AckedOnlyWhenFinished
<1>1. Init => TypeInv /\ AckInv
  <2> SUFFICES ASSUME Init PROVE AckInv
    BY TypeInvInit
  <2> QED BY DEF Init, AckInv, AckedOnlyWhenFinished, Stopped, Booted
<1>2. TypeInv /\ AckInv /\ [Next]_vars => TypeInv' /\ AckInv'
  BY TypeInvStep, AckInvStep
<1>3. AckInv => AckedOnlyWhenFinished
  BY DEF AckInv
<1> QED BY <1>1, <1>2, <1>3, PTL DEF Spec

-----------------------------------------------------------------------------
(***************************************************************************)
(* Version numbers.  The inductive part: while a consumer builds version n *)
(* of a live function, version n - 1 exists, whoever commits meanwhile.    *)
(***************************************************************************)
Precedes(f, n) == n = 1 \/ \E v \in versions : v.fn = f /\ v.num = n - 1

NumberInv ==
    \A p \in Apis :
        cons[p].pc \in {"build", "commit"} /\ fns[FnOf(Current(p))] = "live"
            => Precedes(FnOf(Current(p)), cons[p].num)

VersionInv == VersionsContiguous /\ SuccessHasVersion /\ NumberInv

\* Steps that add no version.
LEMMA VersionFrame ==
    ASSUME TypeInv, VersionInv,
           \A f \in Fns : fns'[f] = "live" =>
               /\ \A v \in versions : v.fn = f => v \in versions'
               /\ fns[f] \in {"absent", "live"},
           versions' \subseteq versions,
           \A v \in versions' : \A w \in versions : w.fn = v.fn => w \in versions',
           \A b \in BuildIds : builds'[b].st = "SUCCESS" =>
               /\ builds[b].st = "SUCCESS" /\ builds'[b].tag = builds[b].tag /\ builds'[b].fn = builds[b].fn
               /\ \A v \in versions : v.fn = builds[b].fn => v \in versions',
           \A b \in BuildIds : builds[b].st # "none" => builds'[b].fn = builds[b].fn,
           \A i \in DOMAIN log : log'[i].val = log[i].val,
           \A p \in Apis : cons'[p].pc \in {"build", "commit"} =>
               /\ cons[p].pc \in {"build", "commit"}
               /\ cons'[p].cur = cons[p].cur /\ cons'[p].num = cons[p].num
    PROVE  VersionInv'
<1>1. VersionsContiguous'
  BY DEF VersionInv, VersionsContiguous
<1>2. SuccessHasVersion'
  BY DEF VersionInv, SuccessHasVersion, FnOf
<1>3. NumberInv'
  <2> SUFFICES ASSUME NEW p \in Apis, cons'[p].pc \in {"build", "commit"},
                      fns'[FnOf(Current(p))'] = "live"
               PROVE  Precedes(FnOf(Current(p)), cons[p].num)' 
    BY DEF NumberInv
  <2>1. cons[p].pc \in {"build", "commit"} /\ cons[p].pc \in Handling
    BY DEF Handling, ConsumerPc
  <2>2. /\ cons[p].cur \in DOMAIN log /\ Current(p) \in BuildIds /\ builds[Current(p)].st # "none"
        /\ FnOf(Current(p)) \in Fns /\ fns[FnOf(Current(p))] # "absent"
    BY <2>1, CurrentFacts
  <2>3. Current(p)' = Current(p)
    BY <2>2 DEF Current
  <2>4. FnOf(Current(p))' = FnOf(Current(p))
    BY <2>2, <2>3 DEF FnOf
  <2>5. Precedes(FnOf(Current(p)), cons[p].num)
    BY <2>1, <2>2, <2>4 DEF VersionInv, NumberInv
  <2> QED BY <2>2, <2>4, <2>5 DEF Precedes
<1> QED BY <1>1, <1>2, <1>3 DEF VersionInv

\* Only the transaction of runBuild adds a version, for a number that is free
\* and follows an existing one.
LEMMA VersionCommit ==
    ASSUME TypeInv, VersionInv, NEW p \in Apis, cons[p].pc = "commit",
           ~CommitRefused(Current(p), cons[p].num),
           RecordSuccess(Current(p), cons[p].num),
           Goto(p, "ack") \/ Goto(p, "catch"), UNCHANGED <<log, fns>>
    PROVE  VersionInv'
<1> DEFINE b == Current(p)
           f == FnOf(b)
           n == cons[p].num
           v == [fn |-> f, num |-> n, tag |-> TagOf(f, n), by |-> b]
<1>1. cons[p].pc \in Handling
  BY DEF Handling, ConsumerPc
<1>2. b \in BuildIds /\ n \in 1..MaxVersion /\ f \in Fns /\ fns[f] = "live"
  BY <1>1, CurrentFacts DEF CommitRefused
<1>3. \A w \in versions : ~(w.fn = f /\ w.num = n)
  BY DEF CommitRefused
<1>4. Precedes(f, n)
  BY <1>2 DEF VersionInv, NumberInv
<1>5. /\ v.fn = f /\ v.num = n /\ v.tag = TagOf(f, n)
      /\ versions' = versions \cup {v}
  BY DEF RecordSuccess
<1>6. /\ builds'[b].st = "SUCCESS" /\ builds'[b].tag = TagOf(f, n) /\ builds'[b].fn = f
      /\ \A a \in BuildIds : a # b => builds'[a] = builds[a]
      /\ \A a \in BuildIds : builds'[a].fn = builds[a].fn
  <2>1. builds \in [BuildIds -> BuildRow]
    BY DEF TypeInv, TypeOK
  <2> QED BY <1>2, <2>1 DEF RecordSuccess, BuildRow, FnOf
<1> HIDE DEF v, b, f, n
<1>7. VersionsContiguous'
  BY <1>2, <1>3, <1>4, <1>5 DEF VersionInv, VersionsContiguous, Precedes
<1>8. SuccessHasVersion'
  BY <1>5, <1>6 DEF VersionInv, SuccessHasVersion, FnOf
<1>9. NumberInv'
  <2> SUFFICES ASSUME NEW q \in Apis, cons'[q].pc \in {"build", "commit"},
                      fns'[FnOf(Current(q))'] = "live"
               PROVE  Precedes(FnOf(Current(q)), cons[q].num)'
    BY DEF NumberInv
  <2>1. cons'[q] = cons[q]
    <3>1. cons \in [Apis -> ConsumerState]
      BY DEF TypeInv, TypeOK
    <3> QED BY <3>1 DEF Goto, ConsumerState
  <2>2. cons[q].pc \in Handling
    BY <2>1 DEF Handling, ConsumerPc
  <2>3. Current(q)' = Current(q) /\ Current(q) \in BuildIds
    BY <2>1, <2>2, CurrentFacts DEF Current
  <2>4. FnOf(Current(q))' = FnOf(Current(q))
    BY <1>6, <2>3 DEF FnOf
  <2>5. Precedes(FnOf(Current(q)), cons[q].num)
    BY <2>1, <2>4 DEF VersionInv, NumberInv
  <2> QED BY <1>5, <2>1, <2>4, <2>5 DEF Precedes
<1> QED BY <1>7, <1>8, <1>9 DEF VersionInv

\* runBuild computes its version number from the versions it sees.
LEMMA VersionNumbering ==
    ASSUME TypeInv, VersionInv, NEW p \in Apis, NextVersionNumber(p)
    PROVE  VersionInv'
<1>1. PICK n \in 0..(MaxVersion - 1) :
         /\ IsLatest(FnOf(Current(p)), n)
         /\ cons' = [cons EXCEPT ![p] = [@ EXCEPT !.pc = "build", !.num = n + 1]]
  BY DEF NextVersionNumber
<1>2. cons \in [Apis -> ConsumerState]
  BY DEF TypeInv, TypeOK
<1>3. VersionsContiguous' /\ SuccessHasVersion'
  BY DEF NextVersionNumber, VersionInv, VersionsContiguous, SuccessHasVersion, FnOf, db
<1>4. ASSUME NEW q \in Apis, cons'[q].pc \in {"build", "commit"}, fns'[FnOf(Current(q))'] = "live"
      PROVE  Precedes(FnOf(Current(q)), cons[q].num)'
  <2>1. UNCHANGED <<log, builds, versions, fns>>
    BY DEF NextVersionNumber, db, stream
  <2>2. CASE q = p
    <3>1. cons'[p].cur = cons[p].cur /\ cons'[p].num = n + 1
      BY <1>1, <1>2 DEF ConsumerState
    <3>2. Current(p)' = Current(p) /\ FnOf(Current(p))' = FnOf(Current(p))
      BY <2>1, <3>1 DEF Current, FnOf
    <3> QED BY <1>1, <2>1, <2>2, <3>1, <3>2 DEF Precedes, IsLatest
  <2>3. CASE q # p
    <3>1. cons'[q] = cons[q]
      BY <1>1, <1>2, <2>3
    <3> QED BY <1>4, <2>1, <3>1 DEF VersionInv, NumberInv, Precedes, Current, FnOf
  <2> QED BY <2>2, <2>3
<1> QED BY <1>3, <1>4 DEF VersionInv, NumberInv

\* Every step preserves VersionInv.
LEMMA VersionInvStep ==
    ASSUME TypeInv, VersionInv, [Next]_vars
    PROVE  VersionInv'
<1>a. /\ log \in Seq(Entries(BuildIds, Apis)) /\ cons \in [Apis -> ConsumerState]
      /\ fns \in [Fns -> {"absent", "live", "deleted"}] /\ builds \in [BuildIds -> BuildRow]
      /\ versions \subseteq VersionRow
  BY DEF TypeInv, TypeOK
<1>b. ASSUME UNCHANGED <<fns, versions>>,
             \A b \in BuildIds : builds'[b].fn = builds[b].fn /\ builds'[b].tag = builds[b].tag,
             \A b \in BuildIds : builds'[b].st = "SUCCESS" => builds[b].st = "SUCCESS",
             \A i \in DOMAIN log : log'[i].val = log[i].val,
             \A p \in Apis : cons'[p].pc \in {"build", "commit"} =>
                /\ cons[p].pc \in {"build", "commit"}
                /\ cons'[p].cur = cons[p].cur /\ cons'[p].num = cons[p].num
      PROVE  VersionInv'
  BY <1>a, <1>b, VersionFrame
<1>0. CASE UNCHANGED vars
  BY <1>0, <1>b DEF vars, db, stream
<1>1. ASSUME NEW f \in Fns, Register(f) PROVE VersionInv'
  BY <1>1, <1>a, VersionFrame DEF Register, stream
<1>2. ASSUME NEW f \in Fns, Remove(f) PROVE VersionInv'
  <2>1. \A b \in BuildIds : /\ builds'[b].fn = builds[b].fn
                            /\ builds'[b].tag = builds[b].tag
                            /\ builds'[b].st = "SUCCESS" => builds[b].st = "SUCCESS" /\ builds[b].fn # f
    BY <1>2, RemoveFacts
  <2>2. versions' = {v \in versions : v.fn # f} /\ fns' = [fns EXCEPT ![f] = "deleted"]
    BY <1>2 DEF Remove
  <2> QED BY <1>2, <1>a, <2>1, <2>2, VersionFrame DEF Remove, stream
<1>3. ASSUME NEW b \in BuildIds, NEW f \in Fns, SubmitBuild(b, f) PROVE VersionInv'
  <2>1. PICK r \in BuildRow : r.st = "PENDING" /\ builds' = [builds EXCEPT ![b] = r]
    BY <1>3, SubmitFacts
  <2> QED BY <1>3, <1>a, <2>1, VersionFrame DEF SubmitBuild, stream
<1>4. ASSUME NEW p \in Apis, Boot(p) \/ Crash(p) PROVE VersionInv'
  <2>1. \A i \in DOMAIN log : log'[i].val = log[i].val
    BY <1>4, <1>a, XGroupCreateFacts DEF Boot, Crash, stream
  <2>2. \A q \in Apis : cons'[q] = cons[q] \/ cons'[q].pc \in {"loop", "down"}
    BY <1>4, <1>a DEF Boot, Crash, Booted, Stopped
  <2> QED BY <1>4, <1>b, <2>1, <2>2 DEF Boot, Crash, db
<1>5. ASSUME NEW i \in DOMAIN log, IdleOut(i) PROVE VersionInv'
  <2>1. \A j \in DOMAIN log : log'[j].val = log[j].val
    BY <1>5, <1>a, ExpireFacts DEF IdleOut
  <2> QED BY <1>5, <1>b, <2>1 DEF IdleOut, db
<1>6. ASSUME NEW o \in orphans, OrphanLands(o) PROVE VersionInv'
  BY <1>6, <1>b DEF OrphanLands, db, stream
<1>7. ASSUME NEW t \in Slots, RelayLock(t) \/ RelayDbFails(t) \/ XaddFails(t) PROVE VersionInv'
  BY <1>7, <1>b DEF RelayLock, RelayDbFails, XaddFails, db, stream
<1>8. ASSUME NEW t \in Slots, RelayCommit(t) \/ RelayReplyLost(t) PROVE VersionInv'
  <2>1. \A b \in BuildIds : /\ builds'[b].fn = builds[b].fn
                            /\ builds'[b].tag = builds[b].tag
                            /\ builds'[b].st = builds[b].st
    BY <1>8, MarkFacts DEF RelayCommit, RelayReplyLost
  <2> QED BY <1>8, <1>b, <2>1 DEF RelayCommit, RelayReplyLost, stream
<1>9. ASSUME NEW t \in Slots, RelayXadd(t) PROVE VersionInv'
  <2>1. PICK b \in relay[t].ids : log' = XAdd(log, b)
    BY <1>9 DEF RelayXadd
  <2>2. b \in BuildIds
    BY DEF TypeInv, TypeOK, TickState
  <2>3. \A i \in DOMAIN log : log'[i] = log[i]
    BY <2>1, <2>2, PublishFacts
  <2> QED BY <1>9, <1>b, <2>3 DEF RelayXadd, db
<1>10. ASSUME NEW p \in Apis, ConsumerStep(p) \/ ConsumerFault(p) PROVE VersionInv'
  <2>1. \A i \in DOMAIN log : log'[i].val = log[i].val
    BY <1>10, ConsumerKeeps DEF StreamKept
  <2>2. ASSUME Goto(p, "next") \/ Goto(p, "catch") \/ Goto(p, "ack") \/ Done(p),
               UNCHANGED <<fns, versions>>,
               \/ UNCHANGED builds
               \/ cons[p].pc \in Handling /\ RecordFailed(Current(p))
        PROVE  VersionInv'
    <3>1. \A b \in BuildIds : /\ builds'[b].fn = builds[b].fn
                              /\ builds'[b].tag = builds[b].tag
                              /\ builds'[b].st = "SUCCESS" => builds[b].st = "SUCCESS"
      <4>1. CASE UNCHANGED builds
        BY <4>1
      <4>2. CASE cons[p].pc \in Handling /\ RecordFailed(Current(p))
        BY <1>a, <4>2, CurrentFacts DEF RecordFailed, BuildRow
      <4> QED BY <2>2, <4>1, <4>2
    <3>2. \A q \in Apis : cons'[q].pc \in {"build", "commit"} => cons'[q] = cons[q]
      BY <1>a, <2>2 DEF Goto, Done, ConsumerState
    <3> QED BY <1>b, <2>1, <2>2, <3>1, <3>2
  <2>3. ASSUME UNCHANGED <<fns, builds, versions>>,
               \A q \in Apis : cons'[q].pc \in {"build", "commit"} => cons'[q] = cons[q]
        PROVE  VersionInv'
    BY <1>b, <2>1, <2>3
  <2>4. CASE \/ Reclaim(p) \/ ReadNew(p) \/ ReadNothing(p) \/ HandleMessage(p)
    <3>1. \A q \in Apis : cons'[q].pc \in {"build", "commit"} => cons'[q] = cons[q]
      <4>1. CASE Reclaim(p) \/ ReadNew(p) \/ ReadNothing(p)
        <5>1. cons[p].pc = "loop" /\ cons'[p].pc = "loop"
          BY <1>a, <4>1 DEF Reclaim, ReadNew, ReadNothing, InLoop, ConsumerState
        <5>2. \A q \in Apis : q # p => cons'[q] = cons[q]
          BY <1>a, <4>1 DEF Reclaim, ReadNew, ReadNothing
        <5> QED BY <5>1, <5>2
      <4>2. CASE HandleMessage(p)
        <5>1. \A b : AfterLookup(b) \in {"loop", "ack", "find"}
          BY DEF AfterLookup
        <5>2. PICK i \in cons[p].todo :
                cons' = [cons EXCEPT ![p] =
                           [cons[p] EXCEPT !.todo = @ \ {i},
                                           !.pc   = AfterLookup(log[i].val),
                                           !.cur  = IF AfterLookup(log[i].val) = "loop" THEN 0 ELSE i]]
          BY <4>2 DEF HandleMessage
        <5>3. cons'[p].pc \in {"loop", "ack", "find"}
          BY <1>a, <5>1, <5>2 DEF ConsumerState
        <5>4. \A q \in Apis : q # p => cons'[q] = cons[q]
          BY <1>a, <5>2
        <5> QED BY <5>3, <5>4
      <4> QED BY <2>4, <4>1, <4>2
    <3> QED BY <2>3, <2>4, <3>1 DEF Reclaim, ReadNew, ReadNothing, HandleMessage, db
  <2>5. CASE FindFunction(p) \/ ExecutorFails(p) \/ ExecutorGivesUp(p)
    BY <2>2, <2>5 DEF FindFunction, ExecutorFails, ExecutorGivesUp, db
  <2>6. CASE NextVersionNumber(p)
    BY <2>6, VersionNumbering
  <2>7. CASE ExecutorBuilds(p)
    <3>1. \A q \in Apis : /\ cons'[q].cur = cons[q].cur /\ cons'[q].num = cons[q].num
                          /\ cons'[q].pc \in {"build", "commit"} => cons[q].pc \in {"build", "commit"}
      BY <1>a, <2>7 DEF ExecutorBuilds, Goto, ConsumerState
    <3> QED BY <1>b, <2>1, <2>7, <3>1 DEF ExecutorBuilds, db
  <2>8. CASE CommitVersion(p)
    <3>1. CASE UNCHANGED db /\ Goto(p, "catch")
      BY <2>2, <3>1 DEF db
    <3>2. CASE /\ ~CommitRefused(Current(p), cons[p].num)
               /\ RecordSuccess(Current(p), cons[p].num) /\ Goto(p, "ack") /\ UNCHANGED fns
      BY <2>8, <3>2, VersionCommit DEF CommitVersion, stream
    <3> QED BY <2>8, <3>1, <3>2 DEF CommitVersion
  <2>9. CASE CatchFailed(p)
    BY <2>2, <2>9 DEF CatchFailed, Handling, ConsumerPc
  <2>10. CASE AckMessage(p)
    BY <2>2, <2>10 DEF AckMessage, db
  <2>11. CASE ConsumerDbFails(p)
    <3>1. CASE \E i \in cons[p].todo : cons[p].pc = "loop" /\ cons' = [cons EXCEPT ![p].todo = @ \ {i}]
      <4>1. \A q \in Apis : cons'[q].pc \in {"build", "commit"} => cons'[q] = cons[q]
        BY <1>a, <3>1 DEF ConsumerState
      <4> QED BY <2>3, <2>11, <4>1 DEF ConsumerDbFails, db
    <3>2. CASE Goto(p, "catch") \/ Done(p)
      BY <2>2, <2>11, <3>2 DEF ConsumerDbFails, db
    <3> QED BY <2>11, <3>1, <3>2 DEF ConsumerDbFails
  <2>12. CASE ConsumerReplyLost(p)
    <3>1. CASE /\ cons[p].pc = "commit" /\ ~CommitRefused(Current(p), cons[p].num)
               /\ RecordSuccess(Current(p), cons[p].num) /\ Goto(p, "catch")
      BY <2>12, <3>1, VersionCommit DEF ConsumerReplyLost, stream
    <3>2. CASE /\ cons[p].pc = "catch" /\ RecordFailed(Current(p)) /\ Done(p) /\ UNCHANGED versions
      BY <2>2, <2>12, <3>2 DEF ConsumerReplyLost, Handling, ConsumerPc
    <3> QED BY <2>12, <3>1, <3>2 DEF ConsumerReplyLost
  <2>13. CASE ConsumerRedisFails(p)
    <3>1. CASE Done(p)
      BY <2>2, <2>13, <3>1 DEF ConsumerRedisFails, db
    <3>2. CASE cons[p].pc = "loop" /\ (UNCHANGED cons \/ cons' = [cons EXCEPT ![p].src = "read"])
      <4>1. \A q \in Apis : cons'[q].pc \in {"build", "commit"} => cons'[q] = cons[q]
        BY <1>a, <3>2 DEF ConsumerState
      <4> QED BY <2>3, <2>13, <4>1 DEF ConsumerRedisFails, db
    <3> QED BY <2>13, <3>1, <3>2 DEF ConsumerRedisFails, InLoop
  <2> QED BY <1>10, <2>4, <2>5, <2>6, <2>7, <2>8, <2>9, <2>10, <2>11, <2>12, <2>13
          DEF ConsumerStep, ConsumerFault
<1> QED BY <1>0, <1>1, <1>2, <1>3, <1>4, <1>5, <1>6, <1>7, <1>8, <1>9, <1>10
        DEF Next, RelayStep, RelayFault

\* The version numbers of a function have no gap and no duplicate, although
\* nextVersionNumber is a read whose answer may be stale at the insert.
THEOREM BuildVersionsContiguous == Spec => []VersionsContiguous
<1>1. Init => TypeInv /\ VersionInv
  <2> SUFFICES ASSUME Init PROVE VersionInv
    BY TypeInvInit
  <2> QED BY DEF Init, VersionInv, VersionsContiguous, SuccessHasVersion, NumberInv, Stopped, Booted
<1>2. TypeInv /\ VersionInv /\ [Next]_vars => TypeInv' /\ VersionInv'
  BY TypeInvStep, VersionInvStep
<1>3. VersionInv => VersionsContiguous
  BY DEF VersionInv
<1> QED BY <1>1, <1>2, <1>3, PTL DEF Spec

\* A SUCCESS build always has its version: runBuild's transaction and the
\* cascade of a deletion keep the two tables together.
THEOREM BuildSuccessHasVersion == Spec => []SuccessHasVersion
<1>1. Init => TypeInv /\ VersionInv
  <2> SUFFICES ASSUME Init PROVE VersionInv
    BY TypeInvInit
  <2> QED BY DEF Init, VersionInv, VersionsContiguous, SuccessHasVersion, NumberInv, Stopped, Booted
<1>2. TypeInv /\ VersionInv /\ [Next]_vars => TypeInv' /\ VersionInv'
  BY TypeInvStep, VersionInvStep
<1>3. VersionInv => SuccessHasVersion
  BY DEF VersionInv
<1> QED BY <1>1, <1>2, <1>3, PTL DEF Spec

-----------------------------------------------------------------------------
(***************************************************************************)
(* No published build is forgotten.  The inductive part: only a running    *)
(* process relays, a running process has created the group, so the group   *)
(* is there before the first entry and '$' skips nothing.                  *)
(***************************************************************************)
GroupInv ==
    /\ \A p \in Apis : up[p] => group
    /\ \A t \in Slots : relay[t].pc # "idle" => up[t[1]]
    /\ \A i \in DOMAIN log : group

TrackInv == GroupInv /\ PublishedIsTracked

\* Steps that leave the relays alone, where an entry of a PENDING build stays.
LEMMA TrackFrame ==
    ASSUME TypeInv, TrackInv, UNCHANGED <<relay, lost>>,
           \A b \in BuildIds : builds'[b].st = "PENDING" /\ builds'[b].pub
                                   => builds[b].st = "PENDING" /\ builds[b].pub,
           \A i \in DOMAIN log :
               builds'[log[i].val].st = "PENDING" /\ log[i].st \in {"new", "pending"} =>
                   i \in DOMAIN log' /\ log'[i].val = log[i].val /\ log'[i].st \in {"new", "pending"}
    PROVE  PublishedIsTracked'
<1> SUFFICES ASSUME NEW b \in BuildIds, builds'[b].st = "PENDING", builds'[b].pub
             PROVE  \/ b \in lost
                    \/ \E t \in Slots : relay[t].pc = "xadd" /\ b \in relay[t].ids
                    \/ \E i \in DOMAIN log' : log'[i].val = b /\ log'[i].st \in {"new", "pending"}
  BY DEF PublishedIsTracked
<1>1. CASE \E i \in DOMAIN log : log[i].val = b /\ log[i].st \in {"new", "pending"}
  BY <1>1
<1> QED BY <1>1 DEF TrackInv, PublishedIsTracked

\* Every step preserves TrackInv.
LEMMA TrackInvStep ==
    ASSUME TypeInv, AckInv, TrackInv, [Next]_vars
    PROVE  TrackInv'
<1>a. /\ log \in Seq(Entries(BuildIds, Apis)) /\ cons \in [Apis -> ConsumerState]
      /\ up \in [Apis -> BOOLEAN] /\ relay \in [Slots -> TickState]
      /\ builds \in [BuildIds -> BuildRow] /\ group \in BOOLEAN
  BY DEF TypeInv, TypeOK
<1>b. \A t \in Slots : t[1] \in Apis
  BY DEF Slots
<1>c. ASSUME UNCHANGED <<builds, log, relay, lost>> PROVE PublishedIsTracked'
  BY <1>c DEF TrackInv, PublishedIsTracked
<1>d. ASSUME UNCHANGED <<up, group>>, DOMAIN log' = DOMAIN log,
             \A t \in Slots : relay'[t].pc # "idle" => relay[t].pc # "idle"
      PROVE  GroupInv'
  BY <1>d DEF TrackInv, GroupInv
<1>0. CASE UNCHANGED vars
  BY <1>0, <1>c, <1>d DEF vars, db, stream, TrackInv
<1>1. ASSUME NEW f \in Fns, Register(f) PROVE TrackInv'
  BY <1>1, <1>c, <1>d DEF Register, stream, TrackInv
<1>2. ASSUME NEW f \in Fns, Remove(f) PROVE TrackInv'
  <2>1. \A b \in BuildIds : builds'[b].st = "PENDING" /\ builds'[b].pub
                                => builds[b].st = "PENDING" /\ builds[b].pub
    BY <1>2, RemoveFacts
  <2> QED BY <1>2, <1>d, <2>1, TrackFrame DEF Remove, stream, TrackInv
<1>3. ASSUME NEW b \in BuildIds, NEW f \in Fns, SubmitBuild(b, f) PROVE TrackInv'
  <2>1. PICK r \in BuildRow : r.pub = builds[b].pub /\ builds' = [builds EXCEPT ![b] = r]
    BY <1>3, SubmitFacts
  <2>2. ~builds[b].pub
    BY <1>3 DEF SubmitBuild, TypeInv, RowInv
  <2>3. \A a \in BuildIds : builds'[a].st = "PENDING" /\ builds'[a].pub
                                => builds[a].st = "PENDING" /\ builds[a].pub
    BY <1>a, <2>1, <2>2
  <2> QED BY <1>3, <1>d, <2>3, TrackFrame DEF SubmitBuild, stream, TrackInv
<1>4. ASSUME NEW p \in Apis, Boot(p) PROVE TrackInv'
  <2>1. log' = log \/ DOMAIN log = {}
    BY <1>4 DEF Boot, TrackInv, GroupInv
  <2>2. DOMAIN log' = DOMAIN log
    BY <1>4, <1>a, XGroupCreateFacts DEF Boot
  <2>3. PublishedIsTracked'
    BY <1>4, <2>1, <2>2, TrackFrame DEF Boot, db
  <2>4. GroupInv'
    BY <1>4, <1>a, <1>b, <2>2 DEF Boot, TrackInv, GroupInv
  <2> QED BY <2>3, <2>4 DEF TrackInv
<1>5. ASSUME NEW p \in Apis, ConsumerStep(p) \/ ConsumerFault(p) PROVE TrackInv'
  <2>1. /\ StreamKept /\ RowsKept /\ RowProgress /\ EntryProgress(p)
        /\ UNCHANGED <<up, fns, group, relay, lost>>
    BY <1>5, ConsumerKeeps
  <2>2. \A b \in BuildIds : builds'[b].st = "PENDING" /\ builds'[b].pub
                                => builds[b].st = "PENDING" /\ builds[b].pub
    BY <2>1 DEF RowsKept, RowProgress
  <2>3. ASSUME NEW i \in DOMAIN log, builds'[log[i].val].st = "PENDING", log[i].st \in {"new", "pending"}
        PROVE  log'[i].st \in {"new", "pending"}
    <3>1. builds[log[i].val].st = "PENDING"
      BY <2>1, <2>3, EntryFacts DEF RowProgress
    <3>2. ~(cons[p].pc = "ack" /\ i = cons[p].cur)
      BY <3>1 DEF AckInv, Current
    <3> QED BY <2>1, <2>3, <3>2 DEF EntryProgress
  <2> QED BY <1>d, <2>1, <2>2, <2>3, TrackFrame DEF StreamKept, TrackInv
<1>6. ASSUME NEW i \in DOMAIN log, IdleOut(i) PROVE TrackInv'
  <2>1. /\ DOMAIN log' = DOMAIN log
        /\ \A j \in DOMAIN log : log'[j].val = log[j].val /\ log'[j].st = log[j].st
    BY <1>6, <1>a, ExpireFacts DEF IdleOut
  <2> QED BY <1>6, <1>d, <2>1, TrackFrame DEF IdleOut, db, TrackInv
<1>7. ASSUME NEW o \in orphans, OrphanLands(o) PROVE TrackInv'
  BY <1>7, <1>c, <1>d DEF OrphanLands, db, stream, TrackInv
<1>8. ASSUME NEW p \in Apis, Crash(p) PROVE TrackInv'
  <2>1. \A t \in Slots : relay'[t] = IF t[1] = p THEN IdleTick ELSE relay[t]
    BY <1>8 DEF Crash
  <2>2. \A t \in Slots : t[1] = p /\ relay[t].pc = "xadd" => relay[t].ids \subseteq lost'
    BY <1>8 DEF Crash
  <2>3. lost \subseteq lost'
    BY <1>8 DEF Crash
  <2>4. PublishedIsTracked'
    BY <1>8, <2>1, <2>2, <2>3 DEF Crash, TrackInv, PublishedIsTracked, db, stream
  <2>5. GroupInv'
    BY <1>8, <1>a, <1>b, <2>1 DEF Crash, TrackInv, GroupInv, IdleTick, stream
  <2> QED BY <2>4, <2>5 DEF TrackInv
<1>9. ASSUME NEW t \in Slots, RelayLock(t) PROVE TrackInv'
  <2>1. \A s \in Slots : s # t => relay'[s] = relay[s]
    BY <1>9, <1>a DEF RelayLock
  <2>2. relay[t].pc = "idle" /\ up[t[1]]
    BY <1>9 DEF RelayLock
  <2>3. PublishedIsTracked'
    BY <1>9, <2>1, <2>2 DEF RelayLock, TrackInv, PublishedIsTracked, db, stream
  <2>4. GroupInv'
    BY <1>9, <2>1, <2>2 DEF RelayLock, TrackInv, GroupInv, stream
  <2> QED BY <2>3, <2>4 DEF TrackInv
<1>10. ASSUME NEW t \in Slots, RelayCommit(t) \/ RelayReplyLost(t) PROVE TrackInv'
  <2>1. \A b \in BuildIds : /\ builds'[b].st = builds[b].st
                            /\ builds'[b].pub <=> builds[b].pub \/ b \in relay[t].ids
    BY <1>10, MarkFacts DEF RelayCommit, RelayReplyLost
  <2>2. \A s \in Slots : s # t => relay'[s] = relay[s]
    BY <1>10, <1>a DEF RelayCommit, RelayReplyLost
  <2>3. relay[t].pc = "locked" /\ lost \subseteq lost' /\ UNCHANGED <<up, group, log>>
    BY <1>10 DEF RelayCommit, RelayReplyLost, stream
  <2>4. \/ relay'[t].pc = "xadd" /\ relay'[t].ids = relay[t].ids
        \/ relay'[t].pc = "idle" /\ relay[t].ids \subseteq lost'
    BY <1>10, <1>a DEF RelayCommit, RelayReplyLost, IdleTick, TickState
  <2>5. PublishedIsTracked'
    BY <2>1, <2>2, <2>3, <2>4 DEF TrackInv, PublishedIsTracked
  <2>6. GroupInv'
    BY <1>d, <2>2, <2>3
  <2> QED BY <2>5, <2>6 DEF TrackInv
<1>11. ASSUME NEW t \in Slots, RelayDbFails(t) PROVE TrackInv'
  <2>1. relay[t].pc = "locked" /\ \A s \in Slots : relay'[s] = IF s = t THEN IdleTick ELSE relay[s]
    BY <1>11, <1>a DEF RelayDbFails
  <2>2. PublishedIsTracked'
    BY <1>11, <2>1 DEF RelayDbFails, TrackInv, PublishedIsTracked, db, stream
  <2>3. GroupInv'
    BY <1>11, <1>d, <2>1 DEF RelayDbFails, IdleTick, stream
  <2> QED BY <2>2, <2>3 DEF TrackInv
<1>12. ASSUME NEW t \in Slots, RelayXadd(t) \/ XaddFails(t) PROVE TrackInv'
  <2>1. PICK b \in relay[t].ids :
           /\ relay' = [relay EXCEPT ![t] = NextClaimed(@, b)]
           /\ \/ log' = XAdd(log, b) /\ UNCHANGED lost
              \/ UNCHANGED log /\ lost' = lost \cup {b}
    BY <1>12 DEF RelayXadd, XaddFails, stream
  <2>2. relay[t].pc = "xadd" /\ UNCHANGED <<up, builds, group>> /\ b \in BuildIds
    BY <1>12 DEF RelayXadd, XaddFails, db, stream, TypeInv, TypeOK, TickState
  <2>3. \A s \in Slots : s # t => relay'[s] = relay[s]
    BY <1>a, <2>1
  <2>4. \A a \in relay[t].ids : a = b \/ (relay'[t].pc = "xadd" /\ a \in relay'[t].ids)
    <3>1. relay'[t] = NextClaimed(relay[t], b)
      BY <1>a, <2>1
    <3> QED BY <2>2, <3>1, NextClaimedFacts
  <2>5. /\ \A i \in DOMAIN log : i \in DOMAIN log' /\ log'[i] = log[i]
        /\ b \in lost' \/ \E i \in DOMAIN log' : log'[i].val = b /\ log'[i].st = "new"
        /\ lost \subseteq lost'
    <3>1. CASE log' = XAdd(log, b) /\ UNCHANGED lost
      <4>1. PICK n : /\ DOMAIN XAdd(log, b) = DOMAIN log \cup {n}
                     /\ XAdd(log, b)[n].val = b /\ XAdd(log, b)[n].st = "new"
        BY <2>2, PublishFacts
      <4>2. \A i \in DOMAIN log : XAdd(log, b)[i] = log[i]
        BY <2>2, PublishFacts
      <4> QED BY <3>1, <4>1, <4>2
    <3>2. CASE UNCHANGED log /\ lost' = lost \cup {b}
      BY <3>2
    <3> QED BY <2>1, <3>1, <3>2
  <2>6. PublishedIsTracked'
    <3> SUFFICES ASSUME NEW a \in BuildIds, builds[a].st = "PENDING", builds[a].pub
                 PROVE  \/ a \in lost'
                        \/ \E s \in Slots : relay'[s].pc = "xadd" /\ a \in relay'[s].ids
                        \/ \E i \in DOMAIN log' : log'[i].val = a /\ log'[i].st \in {"new", "pending"}
      BY <2>2 DEF PublishedIsTracked
    <3>1. \/ a \in lost
          \/ \E s \in Slots : relay[s].pc = "xadd" /\ a \in relay[s].ids
          \/ \E i \in DOMAIN log : log[i].val = a /\ log[i].st \in {"new", "pending"}
      BY DEF TrackInv, PublishedIsTracked
    <3>2. CASE \E s \in Slots : relay[s].pc = "xadd" /\ a \in relay[s].ids
      BY <2>3, <2>4, <2>5, <3>2
    <3> QED BY <2>5, <3>1, <3>2
  <2>7. up[t[1]] /\ group
    BY <1>b, <2>2 DEF TrackInv, GroupInv
  <2>8. GroupInv'
    BY <2>2, <2>3, <2>7 DEF TrackInv, GroupInv
  <2> QED BY <2>6, <2>8 DEF TrackInv
<1> QED BY <1>0, <1>1, <1>2, <1>3, <1>4, <1>5, <1>6, <1>7, <1>8, <1>9, <1>10, <1>11, <1>12
        DEF Next, RelayStep, RelayFault

\* A build whose row says "published" can only be missing from the relays and
\* the stream because it was lost between the COMMIT and the XADD: no
\* acknowledgement, reclaim, crash of a consumer or group creation loses one.
THEOREM BuildPublishedIsTracked == Spec => []PublishedIsTracked
<1>1. Init => TypeInv /\ AckInv /\ TrackInv
  <2> SUFFICES ASSUME Init PROVE AckInv /\ TrackInv
    BY TypeInvInit
  <2>1. AckInv
    BY DEF Init, AckInv, AckedOnlyWhenFinished, Stopped, Booted
  <2>2. GroupInv
    <3>1. \A t \in Slots : relay[t].pc = "idle"
      BY DEF Init, IdleTick
    <3>2. DOMAIN log = {}
      BY DEF Init
    <3> QED BY <3>1, <3>2 DEF Init, GroupInv
  <2>3. PublishedIsTracked
    BY DEF Init, PublishedIsTracked
  <2> QED BY <2>1, <2>2, <2>3 DEF TrackInv
<1>2. TypeInv /\ AckInv /\ TrackInv /\ [Next]_vars => TypeInv' /\ AckInv' /\ TrackInv'
  BY TypeInvStep, AckInvStep, TrackInvStep
<1>3. TrackInv => PublishedIsTracked
  BY DEF TrackInv
<1> QED BY <1>1, <1>2, <1>3, PTL DEF Spec
=============================================================================
