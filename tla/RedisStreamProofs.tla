------------------------- MODULE RedisStreamProofs -------------------------
(***************************************************************************)
(* What the stream commands of RedisStream keep and change: each one       *)
(* yields a stream again, no command but XADD adds an entry, and none      *)
(* changes what an entry carries.                                          *)
(***************************************************************************)
EXTENDS RedisStream, TLAPS

\* XADD appends one new entry.
LEMMA XAddFacts ==
    ASSUME NEW V, NEW C, NEW log, NEW v \in V
    PROVE  \E e \in Entries(V, C) : e.val = v /\ e.st = "new" /\ XAdd(log, v) = Append(log, e)
<1> DEFINE e == [val |-> v, st |-> "new", owner |-> Nobody, idle |-> FALSE]
<1>1. e \in Entries(V, C)
  BY DEF Entries, EntryStatus
<1>2. e.val = v /\ e.st = "new"
  OBVIOUS
<1> HIDE DEF e
<1>3. XAdd(log, v) = Append(log, e)
  BY DEF XAdd, e
<1> QED BY <1>1, <1>2, <1>3

\* An update of one entry to another entry with the same value.
LEMMA UpdateFacts ==
    ASSUME NEW V, NEW C, NEW log \in Seq(Entries(V, C)), NEW i \in DOMAIN log,
           NEW e \in Entries(V, C), e.val = log[i].val
    PROVE  /\ [log EXCEPT ![i] = e] \in Seq(Entries(V, C))
           /\ DOMAIN [log EXCEPT ![i] = e] = DOMAIN log
           /\ \A j \in DOMAIN log : [log EXCEPT ![i] = e][j].val = log[j].val
           /\ \A j \in DOMAIN log : j # i => [log EXCEPT ![i] = e][j] = log[j]
           /\ [log EXCEPT ![i] = e][i] = e
  OBVIOUS

\* A map over the stream that keeps every value.
LEMMA MapFacts ==
    ASSUME NEW V, NEW C, NEW log \in Seq(Entries(V, C)),
           NEW new, new = [i \in DOMAIN log |-> new[i]],
           \A i \in DOMAIN log : new[i] \in Entries(V, C)
    PROVE  new \in Seq(Entries(V, C)) /\ DOMAIN new = DOMAIN log
  OBVIOUS

\* XREADGROUP and XCLAIM: entry i becomes pending.
LEMMA DeliverFacts ==
    ASSUME NEW V, NEW C, NEW log \in Seq(Entries(V, C)), NEW i \in DOMAIN log, NEW c \in C
    PROVE  /\ Deliver(log, i, c) \in Seq(Entries(V, C))
           /\ DOMAIN Deliver(log, i, c) = DOMAIN log
           /\ \A j \in DOMAIN log : Deliver(log, i, c)[j].val = log[j].val
           /\ \A j \in DOMAIN log : j # i => Deliver(log, i, c)[j] = log[j]
           /\ Deliver(log, i, c)[i].st = "pending"
<1> DEFINE e == Assigned(log[i], c)
<1>1. log[i] \in Entries(V, C)
  OBVIOUS
<1>2. e \in Entries(V, C) /\ e.val = log[i].val /\ e.st = "pending"
  BY <1>1 DEF Entries, EntryStatus, Assigned
<1>3. Deliver(log, i, c) = [log EXCEPT ![i] = e]
  BY DEF Deliver
<1> HIDE DEF e
<1> QED BY <1>2, <1>3, UpdateFacts

\* XAUTOCLAIM: every expired entry becomes pending, the others stay.
LEMMA XAutoClaimFacts ==
    ASSUME NEW V, NEW C, NEW log \in Seq(Entries(V, C)), NEW c \in C
    PROVE  /\ XAutoClaim(log, c) \in Seq(Entries(V, C))
           /\ DOMAIN XAutoClaim(log, c) = DOMAIN log
           /\ \A j \in DOMAIN log : /\ XAutoClaim(log, c)[j].val = log[j].val
                                    /\ XAutoClaim(log, c)[j].st = log[j].st
           /\ Expired(log) \subseteq DOMAIN log
<1>1. \A i \in DOMAIN log : log[i] \in Entries(V, C)
  OBVIOUS
<1>2. \A i \in DOMAIN log : /\ XAutoClaim(log, c)[i] \in Entries(V, C)
                            /\ XAutoClaim(log, c)[i].val = log[i].val
                            /\ XAutoClaim(log, c)[i].st = log[i].st
  BY <1>1 DEF Entries, EntryStatus, Assigned, XAutoClaim, Expired
<1>3. XAutoClaim(log, c) = [i \in DOMAIN log |-> XAutoClaim(log, c)[i]]
  BY DEF XAutoClaim
<1>4. XAutoClaim(log, c) \in Seq(Entries(V, C)) /\ DOMAIN XAutoClaim(log, c) = DOMAIN log
  BY <1>2, <1>3, MapFacts
<1>5. Expired(log) \subseteq DOMAIN log
  BY DEF Expired
<1> QED BY <1>2, <1>4, <1>5

\* XGROUP CREATE at '$': the entries that are there are skipped.
LEMMA XGroupCreateFacts ==
    ASSUME NEW V, NEW C, NEW log \in Seq(Entries(V, C))
    PROVE  /\ XGroupCreate(log) \in Seq(Entries(V, C))
           /\ DOMAIN XGroupCreate(log) = DOMAIN log
           /\ \A j \in DOMAIN log : /\ XGroupCreate(log)[j].val = log[j].val
                                    /\ XGroupCreate(log)[j].st = "skipped"
<1>1. \A i \in DOMAIN log : log[i] \in Entries(V, C)
  OBVIOUS
<1>2. \A i \in DOMAIN log : /\ XGroupCreate(log)[i] \in Entries(V, C)
                            /\ XGroupCreate(log)[i].val = log[i].val
                            /\ XGroupCreate(log)[i].st = "skipped"
  BY <1>1 DEF Entries, EntryStatus, XGroupCreate
<1>3. XGroupCreate(log) = [i \in DOMAIN log |-> XGroupCreate(log)[i]]
  BY DEF XGroupCreate
<1>4. XGroupCreate(log) \in Seq(Entries(V, C)) /\ DOMAIN XGroupCreate(log) = DOMAIN log
  BY <1>2, <1>3, MapFacts
<1> QED BY <1>2, <1>4

\* XACK: entry i is acknowledged if it was pending.
LEMMA XAckFacts ==
    ASSUME NEW V, NEW C, NEW log \in Seq(Entries(V, C)), NEW i \in DOMAIN log
    PROVE  /\ XAck(log, i) \in Seq(Entries(V, C))
           /\ DOMAIN XAck(log, i) = DOMAIN log
           /\ \A j \in DOMAIN log : XAck(log, i)[j].val = log[j].val
           /\ \A j \in DOMAIN log : j # i => XAck(log, i)[j] = log[j]
           /\ XAck(log, i)[i].st = IF log[i].st = "pending" THEN "acked" ELSE log[i].st
<1> DEFINE e == [log[i] EXCEPT !.st = "acked", !.owner = Nobody, !.idle = FALSE]
<1>1. log[i] \in Entries(V, C)
  OBVIOUS
<1>2. e \in Entries(V, C) /\ e.val = log[i].val /\ e.st = "acked"
  BY <1>1 DEF Entries, EntryStatus
<1>3. XAck(log, i) = IF log[i].st = "pending" THEN [log EXCEPT ![i] = e] ELSE log
  BY DEF XAck
<1> HIDE DEF e
<1> QED BY <1>2, <1>3, UpdateFacts

\* The idle clock changes nothing else.
LEMMA ExpireFacts ==
    ASSUME NEW V, NEW C, NEW log \in Seq(Entries(V, C)), NEW i \in DOMAIN log
    PROVE  /\ Expire(log, i) \in Seq(Entries(V, C))
           /\ DOMAIN Expire(log, i) = DOMAIN log
           /\ \A j \in DOMAIN log : /\ Expire(log, i)[j].val = log[j].val
                                    /\ Expire(log, i)[j].st = log[j].st
<1> DEFINE e == [log[i] EXCEPT !.idle = TRUE]
<1>1. log[i] \in Entries(V, C)
  OBVIOUS
<1>2. e \in Entries(V, C) /\ e.val = log[i].val /\ e.st = log[i].st
  BY <1>1 DEF Entries
<1>3. Expire(log, i) = [log EXCEPT ![i] = e]
  BY DEF Expire
<1> HIDE DEF e
<1> QED BY <1>2, <1>3, UpdateFacts

\* A delivered entry is in the PEL of its consumer, its idle clock at zero.
LEMMA DeliverOwner ==
    ASSUME NEW V, NEW C, NEW log \in Seq(Entries(V, C)), NEW i \in DOMAIN log, NEW c \in C
    PROVE  Deliver(log, i, c)[i].owner = c /\ ~Deliver(log, i, c)[i].idle
<1>1. log[i] \in Entries(V, C)
  OBVIOUS
<1>2. Assigned(log[i], c).owner = c /\ ~Assigned(log[i], c).idle
  BY <1>1 DEF Entries, Assigned
<1>3. Deliver(log, i, c)[i] = Assigned(log[i], c)
  BY DEF Deliver
<1> QED BY <1>2, <1>3

\* XAUTOCLAIM gives its caller every expired entry and touches no other.
LEMMA XAutoClaimOwner ==
    ASSUME NEW V, NEW C, NEW log \in Seq(Entries(V, C)), NEW c \in C
    PROVE  /\ \A i \in Expired(log) : /\ XAutoClaim(log, c)[i].st = "pending"
                                      /\ XAutoClaim(log, c)[i].owner = c
                                      /\ ~XAutoClaim(log, c)[i].idle
           /\ \A i \in DOMAIN log : i \notin Expired(log) => XAutoClaim(log, c)[i] = log[i]
<1>1. \A i \in DOMAIN log : log[i] \in Entries(V, C)
  OBVIOUS
<1>2. \A i \in DOMAIN log : /\ Assigned(log[i], c).st = "pending"
                            /\ Assigned(log[i], c).owner = c
                            /\ ~Assigned(log[i], c).idle
  BY <1>1 DEF Entries, Assigned
<1>3. Expired(log) \subseteq DOMAIN log
  BY DEF Expired
<1> QED BY <1>2, <1>3 DEF XAutoClaim

\* An XACK of a pending entry takes it out of every PEL; of another, it does nothing.
LEMMA XAckOwner ==
    ASSUME NEW V, NEW C, NEW log \in Seq(Entries(V, C)), NEW i \in DOMAIN log
    PROVE  /\ log[i].st = "pending" => XAck(log, i)[i].owner = Nobody
           /\ log[i].st # "pending" => XAck(log, i) = log
<1> DEFINE e == [log[i] EXCEPT !.st = "acked", !.owner = Nobody, !.idle = FALSE]
<1>1. log[i] \in Entries(V, C)
  OBVIOUS
<1>2. e.owner = Nobody
  BY <1>1 DEF Entries
<1>3. XAck(log, i) = IF log[i].st = "pending" THEN [log EXCEPT ![i] = e] ELSE log
  BY DEF XAck
<1> HIDE DEF e
<1> QED BY <1>2, <1>3

\* An entry that grows idle stays where it is.
LEMMA ExpireOwner ==
    ASSUME NEW V, NEW C, NEW log \in Seq(Entries(V, C)), NEW i \in DOMAIN log
    PROVE  \A j \in DOMAIN log : Expire(log, i)[j].owner = log[j].owner
<1> DEFINE e == [log[i] EXCEPT !.idle = TRUE]
<1>1. log[i] \in Entries(V, C)
  OBVIOUS
<1>2. e.owner = log[i].owner
  BY <1>1 DEF Entries
<1>3. Expire(log, i) = [log EXCEPT ![i] = e]
  BY DEF Expire
<1> HIDE DEF e
<1> QED BY <1>2, <1>3
=============================================================================
