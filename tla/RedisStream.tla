---------------------------- MODULE RedisStream ----------------------------
(***************************************************************************)
(* A Redis stream with ONE consumer group, as the platform uses it for     *)
(* `builds:pending` (build-stream-consumer.service.ts) and for             *)
(* `invocations:pending` (worker.service.ts).  Redis is external code: the *)
(* operators below are modelled from the commands those services send.     *)
(*                                                                         *)
(* A stream is a sequence of entries.  An entry is "new" until the group   *)
(* delivers it, "pending" while it is in the Pending Entries List (PEL),   *)
(* "acked" once XACK removed it from the PEL, and "skipped" if it was      *)
(* older than the group, which is created at '$' and so never delivers it. *)
(* `idle` abstracts the idle clock of a PEL entry: TRUE once the entry has *)
(* been delivered for longer than the caller's min-idle-time.              *)
(***************************************************************************)
EXTENDS Integers, Sequences

\* No consumer: the owner of an entry that is not in the PEL.
Nobody == "nobody"

EntryStatus == {"new", "pending", "acked", "skipped"}

Entries(Values, Consumers) ==
    [val : Values, st : EntryStatus, owner : Consumers \cup {Nobody}, idle : BOOLEAN]

\* XADD key * ...
XAdd(log, v) ==
    Append(log, [val |-> v, st |-> "new", owner |-> Nobody, idle |-> FALSE])

\* XGROUP CREATE key group $ MKSTREAM, when the group does not exist yet.
XGroupCreate(log) ==
    [i \in DOMAIN log |-> [log[i] EXCEPT !.st = "skipped"]]

\* The entry XREADGROUP ... COUNT 1 ... '>' delivers: the oldest new one.
IsNextNew(log, i) ==
    /\ i \in DOMAIN log
    /\ log[i].st = "new"
    /\ \A j \in DOMAIN log : log[j].st = "new" => i <= j

\* Delivery to consumer c: by XREADGROUP, XCLAIM or XAUTOCLAIM alike, the
\* entry is in c's PEL afterwards and its idle clock starts again.
Assigned(entry, c) ==
    [entry EXCEPT !.st = "pending", !.owner = c, !.idle = FALSE]

Deliver(log, i, c) == [log EXCEPT ![i] = Assigned(@, c)]

\* PEL entries whose idle time has passed the min-idle-time of a claim.
Expired(log) == {i \in DOMAIN log : log[i].st = "pending" /\ log[i].idle}

\* XAUTOCLAIM key group c min-idle-time 0: every expired entry, whoever owns it.
XAutoClaim(log, c) ==
    [i \in DOMAIN log |-> IF i \in Expired(log) THEN Assigned(log[i], c) ELSE log[i]]

\* XACK key group id: removes the entry from the PEL, whoever owns it.
XAck(log, i) ==
    IF log[i].st = "pending"
    THEN [log EXCEPT ![i] = [@ EXCEPT !.st = "acked", !.owner = Nobody, !.idle = FALSE]]
    ELSE log

\* The idle clock of a PEL entry passes the min-idle-time.
Expire(log, i) == [log EXCEPT ![i] = [@ EXCEPT !.idle = TRUE]]
=============================================================================
