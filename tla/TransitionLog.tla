---------------------------- MODULE TransitionLog ----------------------------
(* What a change of a contract's status leaves behind: an entry of the hash   *)
(* chain of its tenant, written by a trigger of the UPDATE (migration 17), and*)
(* an event for the subscribers, published from the same transaction.         *)
(*                                                                            *)
(* A transaction is READ COMMITTED: each of its statements sees what is       *)
(* committed when the statement starts, and its own writes.  A service reads  *)
(* the row, decides with the state machine, and only its UPDATE takes the row *)
(* lock; the trigger then takes the lock of the tenant's chain.  Both are held*)
(* to the end of the transaction.  The interceptor of a request appends an    *)
(* entry of its own, in a transaction of its own, after the answer.           *)
(*                                                                            *)
(* A digest is taken to be injective: it is written as the list of the        *)
(* contents it chains.  The time of a transaction is the rank of its start.   *)
(* The journal of a contract (lifecycle_events) is written by the statement   *)
(* that appends to the chain, with the same contents, and is read off it.     *)
EXTENDS ContractMachine, Sequences, FiniteSets

CONSTANTS
  Contracts, Tenants, TenantOf,  \* the contracts, and the tenant of each
  Writers,                       \* connections, one transaction at a time
  Nobody,                        \* the holder of a free lock
  Starts,                        \* where the contracts older than the trigger are
  Followed,                      \* the events the services may decide
  Births,                        \* the contexts of a creation, NoEvent or not
  MaxOpened,                     \* bound: transactions opened
  MaxMoves                       \* bound: entries of one transaction

Unborn  == "-"     \* the status of a contract that does not exist
NoEvent == "-"     \* a transition without context
Request == "request"

ASSUME LogAssumption ==
  /\ TenantOf \in [Contracts -> Tenants]
  /\ Nobody \notin Writers
  /\ Request \notin Followed \cup Births

VARIABLES
  stored,     \* the committed status of each contract
  audit,      \* the committed entries of the chains (audit_logs)
  nextSeq,    \* the identity column of audit_logs
  published,  \* the committed events of the outbox
  opened,     \* the transactions opened so far
  tx,         \* what each connection is doing
  rowLock,    \* the transaction that holds the row of a contract
  chainLock   \* the transaction that holds the chain of a tenant

logVars == <<stored, audit, nextSeq, published, opened, tx, rowLock, chainLock>>

(* What an entry says of a contract, and a transaction that starts with it.   *)
Entry(c, from, to, event) == [contract |-> c, from |-> from, to |-> to, event |-> event]

NoEntry == Entry(Nobody, Unborn, Unborn, NoEvent)

StartedTx(at, pc, c, what) ==
  [at |-> at, pc |-> pc, contract |-> c, now |-> what.to, event |-> what.event,
   to |-> what.to, before |-> Unborn, what |-> what, prev |-> << >>, rows |-> {}, heard |-> {}]

Closed == StartedTx(0, "idle", Nobody, NoEntry)

-----------------------------------------------------------------------------
(* The state machine, as far as the statuses it leads to.                     *)
Arrivals(event) ==
  CASE event = "SIGNER_SIGNED" -> {"PARTIALLY_SIGNED", "SIGNED"}
    [] event = "ACTIVATE" -> {"ACTIVE"}
    [] event = "OPEN_RENEWAL" -> {"RENEWAL_DUE"}
    [] event \in {"RENEW_PERIOD", "CLOSE_RENEWAL", "WITHDRAW_TERMINATION"} -> {"ACTIVE"}
    [] event = "EXPIRE" -> {"EXPIRED", "RENEWED"}
    [] event = "TERMINATE" -> {"TERMINATION_PENDING", "TERMINATED"}

Moves(s) == {m \in Followed \X Statuses : m[1] \in Transitions[s] /\ m[2] \in Arrivals(m[1])}

(* The event published for an arrival: a return to ACTIVE is not an           *)
(* activation, and a new period is a renewal.                                 *)
StatusEvents ==
  [s \in {"SIGNED", "ACTIVE", "RENEWAL_DUE", "RENEWED", "TERMINATED"} |->
     CASE s = "ACTIVE" -> "contract.activated"
       [] s = "RENEWED" -> "contract.renewed"
       [] s = "SIGNED" -> "contract.signed"
       [] s = "RENEWAL_DUE" -> "contract.renewal_due"
       [] OTHER -> "contract.terminated"]

ResumedFrom == {"RENEWAL_DUE", "TERMINATION_PENDING"}

contractEventFor(to, event, previous) ==
  IF event = "RENEW_PERIOD" THEN "contract.renewed"
  ELSE IF to \notin DOMAIN StatusEvents \/ (to = "ACTIVE" /\ previous \in ResumedFrom)
    THEN NoEvent ELSE StatusEvents[to]

-----------------------------------------------------------------------------
(* The chain of a tenant.                                                     *)
ChainOf(rows, t) == {r \in rows : r.tenant = t}

LastOf(rows) == CHOOSE r \in rows : \A q \in rows : q.seq <= r.seq

LastHash(rows) == IF rows = {} THEN << >> ELSE LastOf(rows).hash

Preceding(rows, n) == {r \in rows : r.seq < n}

Digest(prev, at, what) == Append(prev, <<at, what>>)

(* The first entry, in the order of the identity column, whose link or digest *)
(* is wrong; 0 when the chain holds.                                          *)
verifyAuditChain(t) ==
  LET rows == ChainOf(audit, t)
      Broken == {r \in rows : \/ r.prev # LastHash(Preceding(rows, r.seq))
                              \/ r.hash # Digest(r.prev, r.at, r.what)}
  IN IF Broken = {} THEN 0
     ELSE CHOOSE n \in {r.seq : r \in Broken} : \A r \in Broken : n <= r.seq

-----------------------------------------------------------------------------
(* The transaction of a service.                                              *)
Tenant(p) == TenantOf[tx[p].contract]

(* The status a statement of p reads: its own writing, or what is committed.  *)
Seen(p) ==
  LET c == tx[p].contract IN IF rowLock[c] = p THEN tx[p].now ELSE stored[c]

OpenTx(p, c) ==
  /\ tx[p].pc = "idle" /\ opened < MaxOpened
  /\ stored[c] # Unborn
  /\ opened' = opened + 1
  /\ tx' = [tx EXCEPT ![p] = StartedTx(opened + 1, "open", c, NoEntry)]
  /\ UNCHANGED <<stored, audit, nextSeq, published, rowLock, chainLock>>

(* A new contract: nobody else sees its row before the commit.                *)
Create(p, c, event) ==
  /\ tx[p].pc = "idle" /\ opened < MaxOpened
  /\ stored[c] = Unborn /\ rowLock[c] = Nobody
  /\ LET to == IF event = "IMPORT" THEN "IMPORTED_PENDING_VALIDATION" ELSE "DRAFT" IN
       tx' = [tx EXCEPT ![p] = StartedTx(opened + 1, "chain", c, Entry(c, Unborn, to, event))]
  /\ opened' = opened + 1
  /\ rowLock' = [rowLock EXCEPT ![c] = p]
  /\ UNCHANGED <<stored, audit, nextSeq, published, chainLock>>

(* persistTransition: the context, then the status before, read only for what *)
(* may be published.                                                          *)
Move(p, event, to) ==
  /\ tx[p].pc = "open" /\ Cardinality(tx[p].rows) < MaxMoves
  /\ <<event, to>> \in Moves(Seen(p))
  /\ tx' = [tx EXCEPT ![p].event = event, ![p].to = to,
              ![p].pc = IF contractEventFor(to, event, Unborn) = NoEvent
                          THEN "update" ELSE "before"]
  /\ UNCHANGED <<stored, audit, nextSeq, published, opened, rowLock, chainLock>>

ReadBefore(p) ==
  /\ tx[p].pc = "before"
  /\ tx' = [tx EXCEPT ![p].before = Seen(p), ![p].pc = "update"]
  /\ UNCHANGED <<stored, audit, nextSeq, published, opened, rowLock, chainLock>>

(* The revocation of a signature writes the status itself: no context, and    *)
(* nothing published.                                                         *)
DecideRevoke(p) ==
  /\ tx[p].pc = "open" /\ tx[p].rows = {}
  /\ "REVOKE_SIGNATURE" \in Transitions[Seen(p)]
  /\ tx' = [tx EXCEPT ![p].to = "APPROVED", ![p].pc = "update"]
  /\ UNCHANGED <<stored, audit, nextSeq, published, opened, rowLock, chainLock>>

(* Mutant: the entry leaves the status the service had read.                  *)
TransitionAsRead(p) ==
  Entry(tx[p].contract, IF tx[p].before = Unborn THEN Seen(p) ELSE tx[p].before,
        tx[p].to, tx[p].event)

(* What the trigger of p records: OLD and NEW of the row, and the context.    *)
Transition(p) == Entry(tx[p].contract, Seen(p), tx[p].to, tx[p].event)

(* UPDATE contracts: it waits for the row, whose newest version it changes.   *)
Update(p) ==
  LET c == tx[p].contract IN
  /\ tx[p].pc = "update"
  /\ rowLock[c] \in {Nobody, p}
  /\ rowLock' = [rowLock EXCEPT ![c] = p]
  /\ tx' = [tx EXCEPT ![p].now = tx[p].to, ![p].what = Transition(p),
              ![p].pc = IF Seen(p) = tx[p].to THEN "publish" ELSE "chain"]
  /\ UNCHANGED <<stored, audit, nextSeq, published, opened, chainLock>>

(* Mutant: appends to one chain do not wait for each other.                   *)
ChainIsMine(p) == TRUE

ChainIsFree(p) == chainLock[Tenant(p)] \in {Nobody, p}

(* app_append_audit: the lock of the tenant, the newest entry, the insertion. *)
LockChain(p) ==
  /\ tx[p].pc = "chain"
  /\ ChainIsFree(p)
  /\ chainLock' = [chainLock EXCEPT ![Tenant(p)] = p]
  /\ tx' = [tx EXCEPT ![p].pc = "link"]
  /\ UNCHANGED <<stored, audit, nextSeq, published, opened, rowLock>>

ReadLink(p) ==
  /\ tx[p].pc = "link"
  /\ tx' = [tx EXCEPT ![p].prev = LastHash(ChainOf(audit \cup tx[p].rows, Tenant(p))),
              ![p].pc = "insert"]
  /\ UNCHANGED <<stored, audit, nextSeq, published, opened, rowLock, chainLock>>

InsertEntry(p) ==
  /\ tx[p].pc = "insert"
  /\ nextSeq' = nextSeq + 1
  /\ LET row == [seq |-> nextSeq, tenant |-> Tenant(p), at |-> tx[p].at, what |-> tx[p].what,
                 prev |-> tx[p].prev, hash |-> Digest(tx[p].prev, tx[p].at, tx[p].what)] IN
       tx' = [tx EXCEPT ![p].rows = @ \cup {row},
                ![p].pc = IF tx[p].what.event = Request THEN "written" ELSE "publish"]
  /\ UNCHANGED <<stored, audit, published, opened, rowLock, chainLock>>

(* publishContractTransition, with the status read before the UPDATE.         *)
Publish(p) ==
  LET type == contractEventFor(tx[p].to, tx[p].event, tx[p].before) IN
  /\ tx[p].pc = "publish"
  /\ tx' = [tx EXCEPT ![p].before = Unborn, ![p].pc = "open",
              ![p].heard = IF tx[p].before \in {Unborn, tx[p].to} \/ type = NoEvent THEN @
                           ELSE @ \cup {[contract |-> tx[p].contract, type |-> type, at |-> tx[p].at]}]
  /\ UNCHANGED <<stored, audit, nextSeq, published, opened, rowLock, chainLock>>

Release(p) ==
  /\ rowLock' = [c \in Contracts |-> IF rowLock[c] = p THEN Nobody ELSE rowLock[c]]
  /\ chainLock' = [t \in Tenants |-> IF chainLock[t] = p THEN Nobody ELSE chainLock[t]]

CommitTx(p) ==
  /\ tx[p].pc = "open" /\ rowLock[tx[p].contract] = p
  /\ stored' = [stored EXCEPT ![tx[p].contract] = tx[p].now]
  /\ audit' = audit \cup tx[p].rows
  /\ published' = published \cup tx[p].heard
  /\ tx' = [tx EXCEPT ![p] = StartedTx(0, "answer", tx[p].contract, NoEntry)]
  /\ Release(p)
  /\ UNCHANGED <<nextSeq, opened>>

(* An error, a deadlock or a lost connection: nothing stays but the numbers   *)
(* taken from the identity column.                                            *)
RollbackTx(p) ==
  /\ tx[p].pc \notin {"idle", "answer"}
  /\ tx' = [tx EXCEPT ![p] = Closed]
  /\ Release(p)
  /\ UNCHANGED <<stored, audit, nextSeq, published, opened>>

-----------------------------------------------------------------------------
(* The interceptor: one entry per request, once it has succeeded.             *)
Record(p) ==
  /\ tx[p].pc = "answer" /\ opened < MaxOpened
  /\ opened' = opened + 1
  /\ tx' = [tx EXCEPT ![p].at = opened + 1, ![p].pc = "chain",
              ![p].what = Entry(tx[p].contract, Unborn, Unborn, Request)]
  /\ UNCHANGED <<stored, audit, nextSeq, published, rowLock, chainLock>>

CommitRecord(p) ==
  /\ tx[p].pc = "written"
  /\ audit' = audit \cup tx[p].rows
  /\ tx' = [tx EXCEPT ![p] = Closed]
  /\ Release(p)
  /\ UNCHANGED <<stored, nextSeq, published, opened>>

(* A job, or a process that dies after the commit: no entry for the request.  *)
Leave(p) ==
  /\ tx[p].pc = "answer"
  /\ tx' = [tx EXCEPT ![p] = Closed]
  /\ UNCHANGED <<stored, audit, nextSeq, published, opened, rowLock, chainLock>>

-----------------------------------------------------------------------------
LogInit ==
  /\ stored \in [Contracts -> Starts \cup {Unborn}]
  /\ audit = {} /\ nextSeq = 1 /\ published = {} /\ opened = 0
  /\ tx = [p \in Writers |-> Closed]
  /\ rowLock = [c \in Contracts |-> Nobody]
  /\ chainLock = [t \in Tenants |-> Nobody]

LogNext ==
  \E p \in Writers :
    \/ \E c \in Contracts : OpenTx(p, c)
    \/ \E c \in Contracts, e \in Births : Create(p, c, e)
    \/ \E e \in Followed, s \in Statuses : Move(p, e, s)
    \/ ReadBefore(p) \/ DecideRevoke(p) \/ Update(p)
    \/ LockChain(p) \/ ReadLink(p) \/ InsertEntry(p)
    \/ Publish(p) \/ CommitTx(p) \/ RollbackTx(p)
    \/ Record(p) \/ CommitRecord(p) \/ Leave(p)

LogSpec == LogInit /\ [][LogNext]_logVars

-----------------------------------------------------------------------------
(* The verification of a tenant's chain never reports an entry: whatever the  *)
(* order in which transactions start, wait, commit and roll back, and also    *)
(* when one transaction appends several entries (app_append_audit and         *)
(* app_verify_audit_chain of migration 15).                                   *)
ChainVerifies == \A t \in Tenants : verifyAuditChain(t) = 0

(* The journal of a contract has no hole: each entry leaves the status the    *)
(* one before it arrived at, and the last one arrived at the contract's       *)
(* status, also when services decided on a row that has changed since (the    *)
(* trigger contracts_status_transition reads OLD and NEW under the row lock). *)
JournalReplays ==
  \A c \in Contracts :
    LET rows == {r \in audit : r.what.contract = c /\ r.what.event # Request} IN
    /\ \A r \in rows : Preceding(rows, r.seq) # {} =>
                         r.what.from = LastOf(Preceding(rows, r.seq)).what.to
    /\ rows # {} => LastOf(rows).what.to = stored[c]

(* An event is published only when the transaction changed the status         *)
(* (contract-producers.ts:46, "Sans effet si le statut ne change pas").       *)
PublishedOnlyIfChanged ==
  \A e \in published :
    \E r \in audit : r.what.contract = e.contract /\ r.at = e.at /\ r.what.event # Request

(* A transition the table names is published (contract-producers.ts:10, "aucune *)
(* transition n'échappe donc à la publication").                              *)
NoTransitionEscapes ==
  \A r \in audit :
    LET type == contractEventFor(r.what.to, r.what.event, r.what.from) IN
    r.what.event # Request /\ type # NoEvent =>
      \E e \in published : e.contract = r.what.contract /\ e.type = type /\ e.at = r.at
=============================================================================
