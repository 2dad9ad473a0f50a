------------------------------- MODULE Ledger -------------------------------
(***************************************************************************)
(* The durable state BusyBridge's mirroring works on: the ledger event     *)
(* behind each projection, the projection row (one managed copy of one     *)
(* event on one target calendar), the outbox table, and the target         *)
(* calendar itself, which is Google's.  The actions are in Outbox (queue   *)
(* and drain), Planning (planner and diff) and Mirror (everything else).   *)
(*                                                                         *)
(* A payload is abstracted to its hash: two renders are the same state iff *)
(* payload.hash_payload agrees, so desired_state and desired_payload_hash  *)
(* are one value, ABSENT or a member of Contents.                          *)
(***************************************************************************)
EXTENDS Integers

CONSTANTS
  Projections,           \* rows of ledger_projections of one user
  Contents,              \* hashes a "present" payload can have
  Versions,              \* values of ledger_events.version
  Generations,           \* values of google_id_generation
  NULL,                  \* SQL NULL
  PoisonPillThreshold,   \* outbox.POISON_PILL_THRESHOLD
  MaxIdGenerations,      \* outbox._MAX_ID_GENERATIONS
  MaxTotalIdGenerations, \* outbox._MAX_TOTAL_ID_GENERATIONS
  MaxPasses,             \* max_passes of _diff_drain_until_quiescent
  FaultKinds             \* the failures the environment may inject

ABSENT    == "absent"     \* desired: no copy; stored hash 'absent'
NONE      == "none"       \* Google has never seen the id
CANCELLED == "cancelled"  \* Google's tombstone: the id is burned
TAMPERED  == "tampered"   \* the copy as a person left it after editing it

Kinds == {"create", "update", "delete"}

Keys == [proj : Projections, ver : Versions, kind : Kinds]

ASSUME ConstantsAssumption ==
  /\ Versions \subseteq Nat
  /\ Generations \subseteq Nat
  /\ 0 \in Generations
  /\ PoisonPillThreshold \in Nat
  /\ MaxIdGenerations \in Nat \ {0}
  /\ MaxTotalIdGenerations \in Nat \ {0}
  /\ MaxPasses \in Nat \ {0}
  /\ NULL \notin Versions \cup Generations \cup Contents \cup Keys
  /\ NULL \notin {"match", "stale"}
  /\ Contents \cap {ABSENT, NONE, CANCELLED, TAMPERED} = {}

VARIABLES
  ledger,   \* the event behind the copy, and its rows in the replan queue
  proj,     \* the projection rows
  ops,      \* the outbox rows, by idempotency key
  lastId,   \* AUTOINCREMENT of outbox_operations
  paused,   \* users.sync_paused, the soft pause
  google,   \* state of every deterministic id of the copy on Google
  unseen,   \* ids Google will list to the next incremental sync
  worker,   \* the coroutine that holds the user's reconcile lock
  budget    \* what the environment may still do (bounds the instance)

vars == <<ledger, proj, ops, lastId, paused, google, unseen, worker, budget>>

-----------------------------------------------------------------------------

(* content is what the event renders to as a copy, active whether it has   *)
(* copies at all (not cancelled, deleted, declined or free).  queued holds *)
(* the rows of affected_ledger_events: "read" those the pass under way has *)
(* read, "new" those appended since; and "listed" while a listing whose    *)
(* token has not advanced, so that it will be read again, has changed the  *)
(* event and not yet queued it.  owed is the statement that a cleanup which*)
(* has made the copy absent comes to next: the sync token, the pause, the  *)
(* replan row; "lost" if the process stopped before the last one, until the*)
(* event is next queued (no code state).                                   *)
LedgerRow == [version : Versions, content : Contents, active : BOOLEAN,
              queued : SUBSET {"listed", "read", "new"},
              owed : {"nothing", "token", "pause", "queue", "lost"}]

(* What the planner would want the copy to be.                             *)
Wanted(p) == IF ledger[p].active THEN ledger[p].content ELSE ABSENT

Dirty(row) == [row EXCEPT !.queued = (@ \ {"listed"}) \cup {"new"},
                          !.owed = IF @ = "lost" THEN "nothing" ELSE @]

(* etag is the relation of the stored ETag to the copy's revision: what    *)
(* If-Match compares.                                                      *)
ProjRow == [desired : Contents \cup {ABSENT},
            dver    : Versions,
            applied : Contents \cup {ABSENT, NULL},
            aver    : Versions \cup {NULL},
            current : {"unknown", "present", "absent", "errored"},
            gid     : Generations \cup {NULL},
            etag    : {"match", "stale", NULL},
            gen     : Generations,
            floor   : Generations,
            failed  : BOOLEAN]

(* A closed row is done, superseded or permanently failed: enqueue treats  *)
(* the three alike and rewrites hash and attempts when it resurrects one.  *)
(* ripe: next_attempt_at has come (pending), or started_at is older than   *)
(* _STALE_OP_TIMEOUT (in_flight).  attempts counts up to the poison-pill   *)
(* threshold plus one.  body is the payload, hash what the row says of it. *)
OpRow == [status   : {"none", "pending", "in_flight", "closed"},
          hash     : Contents \cup {ABSENT, NULL},
          body     : Contents \cup {NULL},
          attempts : 0 .. PoisonPillThreshold + 1,
          ripe     : BOOLEAN,
          id       : Nat]

Verdict == [kind : Kinds \cup {"converged"}, ver : Versions,
            hash : Contents \cup {ABSENT}, body : Contents \cup {NULL}]

PC == {"idle", "ingest", "plan", "diff", "rows", "reclaim", "drain",
       "create", "insert", "conflict", "burned", "adopt", "landed",
       "update", "refetch", "gone", "delete", "absent", "record",
       "done", "supersede", "replan", "failed"}

(* The local variables of the pass: the claimed row (key), _do_create's    *)
(* generation, floor and loop count, the ETag Google last returned, the    *)
(* pass counter of the fixed-point loop, whether this drain processed      *)
(* anything, the rows the current phase has yet to visit, and the verdicts *)
(* of the diff.                                                            *)
WorkerState == [pc     : PC,
                key    : Keys \cup {NULL},
                gen    : Generations,
                floor  : Generations,
                tries  : 0 .. MaxIdGenerations,
                etag   : {"match", "stale"},
                pass   : 1 .. MaxPasses,
                worked : BOOLEAN,
                dirty  : SUBSET Projections,
                todo   : [Projections -> Verdict \cup {NULL}]]

(* How many failures (and which), edits by people and operator calls are   *)
(* still to come.                                                          *)
Budget == [faults : Nat, kinds : SUBSET FaultKinds, edits : Nat, admin : Nat]

TypeOK ==
  /\ ledger \in [Projections -> LedgerRow]
  /\ proj \in [Projections -> ProjRow]
  /\ ops \in [Keys -> OpRow]
  /\ lastId \in Nat
  /\ paused \in BOOLEAN
  /\ google \in [Projections ->
                   [Generations -> Contents \cup {TAMPERED, NONE, CANCELLED}]]
  /\ unseen \in [Projections -> SUBSET Generations]
  /\ worker \in WorkerState
  /\ budget \in Budget

-----------------------------------------------------------------------------

Live(p, g) == google[p][g] \notin {NONE, CANCELLED}

(* The diff's WHERE clause.  A NULL never equals.                          *)
Diverged(p) ==
  /\ ~proj[p].failed
  /\ \/ proj[p].aver # proj[p].dver
     \/ proj[p].applied # proj[p].desired

Outstanding(k) == ops[k].status \in {"pending", "in_flight"}

(* Google writes id g of copy p; the change will be listed to ingest.      *)
GoogleWrites(p, g, what) ==
  /\ google' = [google EXCEPT ![p][g] = what]
  /\ unseen' = [unseen EXCEPT ![p] = @ \cup {g}]

(* The stored ETag of copy p no longer matches if it is of id g.           *)
EtagAfterForeignWrite(p, g) ==
  IF proj[p].gid = g /\ proj[p].etag # NULL THEN "stale" ELSE proj[p].etag

=============================================================================
