------------------------- MODULE TransitionLogProofs -------------------------
(* The chain of every tenant verifies, for any contracts, tenants, writers,   *)
(* machine and bounds.                                                        *)
(*                                                                            *)
(* The committed chain alone is not inductive: what a transaction will commit *)
(* has to be right as well.  Its entries continue the chain as it stands,     *)
(* which nobody else can extend as long as the transaction holds its lock.    *)
EXTENDS TransitionLog, TLAPS

(* The fields of a transaction, whatever their values.                        *)
Fields(r) ==
  [at |-> r.at, pc |-> r.pc, contract |-> r.contract, now |-> r.now, event |-> r.event,
   to |-> r.to, before |-> r.before, what |-> r.what, prev |-> r.prev,
   rows |-> r.rows, heard |-> r.heard]

TxShape ==
  /\ DOMAIN tx = Writers
  /\ tx = [p \in Writers |-> tx[p]]
  /\ \A p \in Writers : /\ tx[p] = Fields(tx[p])
                        /\ tx[p].pc = "idle" \/ tx[p].contract \in Contracts

LocksShape ==
  /\ DOMAIN chainLock = Tenants
  /\ chainLock = [t \in Tenants |-> chainLock[t]]

(* The numbers given are behind the counter.                                  *)
Numbered(rows) == \A r \in rows : r.seq \in Nat /\ r.seq < nextSeq

(* Every entry follows the newest entry before it.                            *)
Linked(rows) ==
  \A r \in rows : /\ r.prev = LastHash(Preceding(rows, r.seq))
                  /\ r.hash = Digest(r.prev, r.at, r.what)

(* Whoever has written entries, or is about to, holds the chain.              *)
HoldsChain(p) ==
  tx[p].rows # {} \/ tx[p].pc \in {"link", "insert"} => chainLock[Tenant(p)] = p

(* What the chain of p's tenant will be when p commits.                       *)
Extended(p) == ChainOf(audit \cup tx[p].rows, Tenant(p))

ExtendsChain(p) ==
  /\ \A r \in tx[p].rows : r.tenant = Tenant(p)
  /\ chainLock[Tenant(p)] = p => Linked(Extended(p))
  /\ tx[p].pc = "insert" => tx[p].prev = LastHash(Extended(p))

WriterInv(p) ==
  /\ Numbered(tx[p].rows)
  /\ tx[p].pc = "idle" => tx[p].rows = {}
  /\ tx[p].pc # "idle" => HoldsChain(p) /\ ExtendsChain(p)

ChainInv ==
  /\ LocksShape
  /\ nextSeq \in Nat /\ Numbered(audit)
  /\ \A t \in Tenants : Linked(ChainOf(audit, t))

LogInv == TxShape /\ ChainInv /\ \A p \in Writers : WriterInv(p)

(* A chain that is linked verifies.                                           *)
LEMMA LinkedVerifies ==
  ASSUME NEW t \in Tenants, Linked(ChainOf(audit, t)) PROVE verifyAuditChain(t) = 0
  BY DEF Linked, verifyAuditChain

(* An entry with a number that has not been given yet, chained to the newest  *)
(* one, leaves the chain linked.                                              *)
LEMMA LinkedGrows ==
  ASSUME NEW rows, NEW row, NEW n \in Nat, Linked(rows),
         \A r \in rows : r.seq \in Nat /\ r.seq < n,
         row.seq = n, row.prev = LastHash(rows),
         row.hash = Digest(row.prev, row.at, row.what)
  PROVE  Linked(rows \cup {row})
<1>1. Preceding(rows \cup {row}, n) = rows
  BY DEF Preceding
<1>2. ASSUME NEW r \in rows PROVE Preceding(rows \cup {row}, r.seq) = Preceding(rows, r.seq)
  BY DEF Preceding
<1>. QED BY <1>1, <1>2 DEF Linked

LEMMA LogStart == LogInit => LogInv
<1>. SUFFICES ASSUME LogInit PROVE LogInv
  OBVIOUS
<1>1. TxShape /\ LocksShape
  BY DEF LogInit, TxShape, LocksShape, Closed, StartedTx, Fields
<1>2. nextSeq \in Nat /\ Numbered(audit) /\ \A t \in Tenants : Linked(ChainOf(audit, t))
  BY DEF LogInit, Numbered, Linked, ChainOf
<1>3. \A p \in Writers : tx[p].pc = "idle" /\ tx[p].rows = {}
  BY DEF LogInit, Closed, StartedTx
<1>. QED BY <1>1, <1>2, <1>3 DEF LogInv, ChainInv, WriterInv, Numbered

(* A writer is left alone by steps that neither append to the committed rows  *)
(* nor give or take a lock of its own.                                        *)
LEMMA WriterLeftAlone ==
  ASSUME NEW q \in Writers, WriterInv(q), tx'[q] = tx[q], audit' = audit,
         nextSeq \in Nat, nextSeq' \in Nat, nextSeq <= nextSeq',
         tx[q].pc # "idle" => (chainLock'[Tenant(q)] = q <=> chainLock[Tenant(q)] = q)
  PROVE  WriterInv(q)'
<1>1. Numbered(tx[q].rows)'
  BY DEF WriterInv, Numbered
<1>2. Tenant(q)' = Tenant(q) /\ Extended(q)' = Extended(q)
  BY DEF Tenant, Extended
<1>3. ASSUME tx[q].pc # "idle" PROVE HoldsChain(q)' /\ ExtendsChain(q)'
  <2>1. HoldsChain(q)'
    BY <1>2, <1>3 DEF WriterInv, HoldsChain
  <2>2. ExtendsChain(q)'
    <3>1. \A r \in tx'[q].rows : r.tenant = Tenant(q)'
      BY <1>2, <1>3 DEF WriterInv, ExtendsChain
    <3>2. chainLock'[Tenant(q)'] = q => Linked(Extended(q)')
      BY <1>2, <1>3 DEF WriterInv, ExtendsChain
    <3>3. Linked(Extended(q)') <=> Linked(Extended(q))'
      BY DEF Linked
    <3>4. tx'[q].pc = "insert" => tx'[q].prev = LastHash(Extended(q)')
      BY <1>2, <1>3 DEF WriterInv, ExtendsChain
    <3>. QED BY <3>1, <3>2, <3>3, <3>4 DEF ExtendsChain
  <2>. QED BY <2>1, <2>2
<1>. QED BY <1>1, <1>3 DEF WriterInv

(* The steps between two appends: the entries of the writer do not change, and*)
(* it is not about to read or to insert.                                      *)
LEMMA QuietStep ==
  ASSUME LogInv, TxShape', NEW p \in Writers,
         UNCHANGED <<audit, nextSeq, chainLock>>,
         \A q \in Writers \ {p} : tx'[q] = tx[q],
         tx'[p].rows = tx[p].rows,
         tx[p].pc # "idle" => tx'[p].contract = tx[p].contract,
         tx'[p].pc \notin {"idle", "link", "insert"}
  PROVE  LogInv'
<1>1. ChainInv'
  BY DEF LogInv, ChainInv, LocksShape, Numbered
<1>2. ASSUME NEW q \in Writers \ {p} PROVE WriterInv(q)'
  BY <1>2, WriterLeftAlone DEF LogInv, ChainInv
<1>3. Tenant(p)' \in Tenants
  BY LogAssumption DEF TxShape, Tenant
<1>4. Numbered(tx[p].rows)'
  BY DEF LogInv, WriterInv, Numbered
<1>5. CASE tx[p].pc = "idle"
  <2>1. tx'[p].rows = {}
    BY <1>5 DEF LogInv, WriterInv
  <2>2. Extended(p)' = ChainOf(audit, Tenant(p)')
    BY <2>1 DEF Extended, ChainOf
  <2>3. Linked(Extended(p))'
    BY <1>3, <2>2 DEF LogInv, ChainInv
  <2>. QED BY <1>1, <1>2, <1>4, <2>1, <2>3 DEF LogInv, WriterInv, HoldsChain, ExtendsChain
<1>6. CASE tx[p].pc # "idle"
  <2>1. Tenant(p)' = Tenant(p) /\ Extended(p)' = Extended(p)
    BY <1>6 DEF Tenant, Extended
  <2>2. HoldsChain(p) /\ ExtendsChain(p)
    BY <1>6 DEF LogInv, WriterInv
  <2>3. HoldsChain(p)'
    BY <2>1, <2>2 DEF HoldsChain
  <2>4. ExtendsChain(p)'
    BY <2>1, <2>2 DEF ExtendsChain, Linked
  <2>. QED BY <1>1, <1>2, <1>4, <2>3, <2>4 DEF LogInv, WriterInv
<1>. QED BY <1>5, <1>6

(* One writer's transaction changes, and stays a transaction.                 *)
LEMMA ShapeKept ==
  ASSUME LogInv, NEW p \in Writers, NEW r, tx' = [tx EXCEPT ![p] = r], r = Fields(r),
         r.pc = "idle" \/ r.contract \in Contracts
  PROVE  TxShape' /\ tx'[p] = r /\ \A q \in Writers \ {p} : tx'[q] = tx[q]
<1>1. TxShape
  BY DEF LogInv
<1>2. tx'[p] = r /\ \A q \in Writers \ {p} : tx'[q] = tx[q]
  BY <1>1 DEF TxShape
<1>3. DOMAIN tx' = Writers /\ tx' = [q \in Writers |-> tx'[q]]
  BY <1>1 DEF TxShape
<1>4. ASSUME NEW q \in Writers
      PROVE  tx'[q] = Fields(tx'[q]) /\ (tx'[q].pc = "idle" \/ tx'[q].contract \in Contracts)
  <2>1. CASE q = p
    BY <1>2, <2>1
  <2>2. CASE q # p
    BY <1>1, <1>2, <2>2 DEF TxShape
  <2>. QED BY <2>1, <2>2
<1>5. TxShape'
  BY <1>3, <1>4 DEF TxShape
<1>. QED BY <1>2, <1>5

(* The end of a transaction that brings its entries to the chain.             *)
LEMMA EndStep ==
  ASSUME LogInv, TxShape', LocksShape', NEW p \in Writers,
         tx[p].pc # "idle",
         audit' = audit \cup tx[p].rows \/ audit' = audit, nextSeq' = nextSeq, Release(p),
         \A q \in Writers \ {p} : tx'[q] = tx[q],
         tx'[p].rows = {}, tx'[p].pc \in {"idle", "answer"},
         tx'[p].contract \in Contracts \/ tx'[p].pc = "idle"
  PROVE  LogInv'
<1>1. HoldsChain(p) /\ ExtendsChain(p)
  BY DEF LogInv, WriterInv
<1>2. Tenant(p) \in Tenants
  BY LogAssumption DEF LogInv, TxShape, Tenant
<1>3. ASSUME NEW t \in Tenants PROVE Linked(ChainOf(audit', t))
  <2>1. CASE ChainOf(audit', t) = ChainOf(audit, t)
    BY <2>1 DEF LogInv, ChainInv
  <2>2. CASE ChainOf(audit', t) # ChainOf(audit, t)
    <3>1. audit' = audit \cup tx[p].rows /\ t = Tenant(p) /\ tx[p].rows # {}
      BY <1>1, <2>2 DEF ChainOf, ExtendsChain
    <3>. QED BY <1>1, <3>1 DEF HoldsChain, ExtendsChain, Extended
  <2>. QED BY <2>1, <2>2
<1>4. ChainInv'
  <2>1. Numbered(audit)'
    BY DEF LogInv, ChainInv, WriterInv, Numbered
  <2>. QED BY <1>3, <2>1 DEF LogInv, ChainInv, Linked
<1>5. ASSUME NEW q \in Writers \ {p} PROVE WriterInv(q)'
  <2>1. tx[q].pc # "idle" => Tenant(q) \in Tenants
    BY LogAssumption DEF LogInv, TxShape, Tenant
  <2>2. tx[q].pc # "idle" => (chainLock'[Tenant(q)] = q <=> chainLock[Tenant(q)] = q)
    BY <2>1, LogAssumption DEF Release
  <2>3. CASE audit' = audit
    BY <2>2, <2>3, WriterLeftAlone DEF LogInv, ChainInv
  <2>4. CASE audit' # audit
    <3>1. audit' = audit \cup tx[p].rows /\ tx[p].rows # {} /\ chainLock[Tenant(p)] = p
      BY <1>1, <2>4 DEF HoldsChain
    <3>2. Tenant(q)' = Tenant(q) /\ Numbered(tx[q].rows)'
      BY DEF Tenant, LogInv, WriterInv, Numbered
    <3>3. CASE tx[q].pc = "idle"
      BY <3>2, <3>3 DEF LogInv, WriterInv
    <3>4. CASE tx[q].pc # "idle" /\ Tenant(q) = Tenant(p)
      <4>1. tx[q].rows = {} /\ tx[q].pc \notin {"link", "insert"}
        BY <3>1, <3>4 DEF LogInv, WriterInv, HoldsChain
      <4>2. chainLock'[Tenant(q)] # q
        BY <2>2, <3>1, <3>4
      <4>. QED BY <3>2, <4>1, <4>2 DEF WriterInv, HoldsChain, ExtendsChain
    <3>5. CASE tx[q].pc # "idle" /\ Tenant(q) # Tenant(p)
      <4>1. Extended(q)' = Extended(q)
        BY <1>1, <3>1, <3>2, <3>5 DEF Extended, ChainOf, ExtendsChain
      <4>2. HoldsChain(q) /\ ExtendsChain(q)
        BY <3>5 DEF LogInv, WriterInv
      <4>3. HoldsChain(q)'
        BY <2>2, <3>2, <3>5, <4>2 DEF HoldsChain
      <4>4. ExtendsChain(q)'
        BY <2>2, <3>2, <3>5, <4>1, <4>2 DEF ExtendsChain, Linked
      <4>. QED BY <3>2, <3>5, <4>3, <4>4 DEF WriterInv
    <3>. QED BY <3>3, <3>4, <3>5
  <2>. QED BY <2>3, <2>4
<1>6. WriterInv(p)'
  <2>1. Numbered(tx[p].rows)'
    BY DEF Numbered
  <2>2. tx'[p].pc # "idle" => Tenant(p)' \in Tenants
    BY LogAssumption DEF Tenant
  <2>3. tx'[p].pc # "idle" => chainLock'[Tenant(p)'] # p
    BY <2>2, LogAssumption DEF Release
  <2>. QED BY <2>1, <2>3 DEF WriterInv, HoldsChain, ExtendsChain
<1>. QED BY <1>4, <1>5, <1>6 DEF LogInv

(* Each operation of a writer.                                                *)
LEMMA OpenKeeps ==
  ASSUME LogInv, NEW p \in Writers, NEW c \in Contracts, OpenTx(p, c) PROVE LogInv'
<1>. DEFINE r == StartedTx(opened + 1, "open", c, NoEntry)
<1>1. r = Fields(r) /\ r.contract = c /\ r.pc = "open" /\ r.rows = {}
  BY DEF StartedTx, Fields
<1>2. tx' = [tx EXCEPT ![p] = r] /\ UNCHANGED <<audit, nextSeq, chainLock>> /\ tx[p].pc = "idle"
  BY DEF OpenTx
<1>. HIDE DEF r
<1>3. TxShape' /\ tx'[p] = r /\ \A q \in Writers \ {p} : tx'[q] = tx[q]
  BY <1>1, <1>2, ShapeKept
<1>4. tx[p].rows = {}
  BY <1>2 DEF LogInv, WriterInv
<1>. QED BY <1>1, <1>2, <1>3, <1>4, QuietStep

LEMMA CreateKeeps ==
  ASSUME LogInv, NEW p \in Writers, NEW c \in Contracts, NEW e, Create(p, c, e) PROVE LogInv'
<1>. DEFINE to == IF e = "IMPORT" THEN "IMPORTED_PENDING_VALIDATION" ELSE "DRAFT"
            r == StartedTx(opened + 1, "chain", c, Entry(c, Unborn, to, e))
<1>1. r = Fields(r) /\ r.contract = c /\ r.pc = "chain" /\ r.rows = {}
  BY DEF StartedTx, Fields
<1>2. tx' = [tx EXCEPT ![p] = r] /\ UNCHANGED <<audit, nextSeq, chainLock>> /\ tx[p].pc = "idle"
  BY DEF Create
<1>. HIDE DEF r
<1>3. TxShape' /\ tx'[p] = r /\ \A q \in Writers \ {p} : tx'[q] = tx[q]
  BY <1>1, <1>2, ShapeKept
<1>4. tx[p].rows = {}
  BY <1>2 DEF LogInv, WriterInv
<1>. QED BY <1>1, <1>2, <1>3, <1>4, QuietStep

(* The operations that only change fields of their transaction.               *)
LEMMA BetweenKeeps ==
  ASSUME LogInv, NEW p \in Writers, NEW e, NEW s,
         \/ Move(p, e, s) \/ ReadBefore(p) \/ DecideRevoke(p) \/ Update(p)
         \/ Publish(p) \/ Record(p)
  PROVE  LogInv'
<1>. DEFINE r == tx'[p]
<1>1. TxShape /\ tx[p] = Fields(tx[p])
  BY DEF LogInv, TxShape
<1>2. UNCHANGED <<audit, nextSeq, chainLock>> /\ tx[p].pc # "idle"
  BY DEF Move, ReadBefore, DecideRevoke, Update, Publish, Record
<1>3. /\ r = Fields(r) /\ r.contract = tx[p].contract /\ r.rows = tx[p].rows
      /\ r.pc \notin {"idle", "link", "insert"} /\ tx' = [tx EXCEPT ![p] = r]
  <2>1. CASE Move(p, e, s)
    BY <1>1, <2>1 DEF Move, Fields, TxShape
  <2>2. CASE ReadBefore(p)
    BY <1>1, <2>2 DEF ReadBefore, Fields, TxShape
  <2>3. CASE DecideRevoke(p)
    BY <1>1, <2>3 DEF DecideRevoke, Fields, TxShape
  <2>4. CASE Update(p)
    BY <1>1, <2>4 DEF Update, Fields, TxShape
  <2>5. CASE Publish(p)
    BY <1>1, <2>5 DEF Publish, Fields, TxShape
  <2>6. CASE Record(p)
    BY <1>1, <2>6 DEF Record, Fields, TxShape
  <2>. QED BY <2>1, <2>2, <2>3, <2>4, <2>5, <2>6
<1>4. tx[p].contract \in Contracts
  BY <1>1, <1>2 DEF TxShape
<1>. HIDE DEF r
<1>5. TxShape' /\ tx'[p] = r /\ \A q \in Writers \ {p} : tx'[q] = tx[q]
  BY <1>3, <1>4, ShapeKept
<1>. QED BY <1>2, <1>3, <1>5, QuietStep


(* The append: the lock, the newest entry, the insertion.                     *)
LEMMA LockKeeps ==
  ASSUME LogInv, NEW p \in Writers, LockChain(p) PROVE LogInv'
<1>. DEFINE r == [tx[p] EXCEPT !.pc = "link"]
<1>1. TxShape /\ tx[p] = Fields(tx[p]) /\ LocksShape
  BY DEF LogInv, TxShape, ChainInv
<1>2. r = Fields(r) /\ r.contract = tx[p].contract /\ r.rows = tx[p].rows /\ r.pc = "link"
  BY <1>1 DEF Fields
<1>3. /\ tx' = [tx EXCEPT ![p] = r] /\ UNCHANGED <<audit, nextSeq>> /\ tx[p].pc # "idle"
      /\ chainLock' = [chainLock EXCEPT ![Tenant(p)] = p] /\ chainLock[Tenant(p)] \in {Nobody, p}
  BY DEF LockChain, ChainIsFree
<1>4. tx[p].contract \in Contracts /\ Tenant(p) \in Tenants
  BY <1>1, <1>3, LogAssumption DEF TxShape, Tenant
<1>. HIDE DEF r
<1>5. TxShape' /\ tx'[p] = r /\ \A q \in Writers \ {p} : tx'[q] = tx[q]
  BY <1>2, <1>3, <1>4, ShapeKept
<1>6. ChainInv'
  <2>1. LocksShape'
    BY <1>1, <1>3 DEF LocksShape
  <2>. QED BY <1>3, <2>1 DEF LogInv, ChainInv, Numbered
<1>7. ASSUME NEW q \in Writers \ {p} PROVE WriterInv(q)'
  <2>1. tx[q].pc # "idle" => Tenant(q) \in Tenants
    BY <1>1, LogAssumption DEF TxShape, Tenant
  <2>2. tx[q].pc # "idle" => (chainLock'[Tenant(q)] = q <=> chainLock[Tenant(q)] = q)
    BY <1>1, <1>3, <2>1, LogAssumption DEF LocksShape
  <2>. QED BY <1>3, <1>5, <2>2, WriterLeftAlone DEF LogInv, ChainInv
<1>8. WriterInv(p)'
  <2>1. Tenant(p)' = Tenant(p) /\ Extended(p)' = Extended(p)
    BY <1>2, <1>3, <1>5 DEF Tenant, Extended
  <2>2. WriterInv(p) /\ HoldsChain(p) /\ ExtendsChain(p)
    BY <1>3 DEF LogInv, WriterInv
  <2>3. Linked(Extended(p))
    <3>1. CASE tx[p].rows = {}
      BY <1>4, <3>1 DEF LogInv, ChainInv, Extended, ChainOf
    <3>2. CASE tx[p].rows # {}
      BY <2>2, <3>2 DEF HoldsChain, ExtendsChain
    <3>. QED BY <3>1, <3>2
  <2>4. HoldsChain(p)'
    BY <1>1, <1>3, <1>4, <2>1 DEF HoldsChain, LocksShape
  <2>5. ExtendsChain(p)'
    BY <1>2, <1>5, <2>1, <2>2, <2>3 DEF ExtendsChain, Linked
  <2>. QED BY <1>2, <1>3, <1>5, <2>2, <2>4, <2>5 DEF WriterInv, Numbered
<1>. QED BY <1>5, <1>6, <1>7, <1>8 DEF LogInv

LEMMA ReadLinkKeeps ==
  ASSUME LogInv, NEW p \in Writers, ReadLink(p) PROVE LogInv'
<1>. DEFINE r == tx'[p]
<1>1. TxShape /\ tx[p] = Fields(tx[p])
  BY DEF LogInv, TxShape
<1>2. UNCHANGED <<audit, nextSeq, chainLock>> /\ tx[p].pc = "link"
  BY DEF ReadLink
<1>3. /\ r = Fields(r) /\ r.contract = tx[p].contract /\ r.rows = tx[p].rows
      /\ r.pc = "insert" /\ r.prev = LastHash(Extended(p)) /\ tx' = [tx EXCEPT ![p] = r]
  BY <1>1 DEF ReadLink, Fields, TxShape, Extended
<1>. HIDE DEF r
<1>4. tx[p].contract \in Contracts
  BY <1>1, <1>2 DEF TxShape
<1>5. TxShape' /\ tx'[p] = r /\ \A q \in Writers \ {p} : tx'[q] = tx[q]
  BY <1>3, <1>4, ShapeKept
<1>6. ChainInv'
  BY <1>2 DEF LogInv, ChainInv, LocksShape, Numbered
<1>7. ASSUME NEW q \in Writers \ {p} PROVE WriterInv(q)'
  BY <1>2, <1>5, WriterLeftAlone DEF LogInv, ChainInv
<1>8. WriterInv(p)'
  <2>1. Tenant(p)' = Tenant(p) /\ Extended(p)' = Extended(p)
    BY <1>2, <1>3, <1>5 DEF Tenant, Extended
  <2>2. WriterInv(p) /\ HoldsChain(p) /\ ExtendsChain(p)
    BY <1>2 DEF LogInv, WriterInv
  <2>3. HoldsChain(p)'
    BY <1>2, <2>1, <2>2 DEF HoldsChain
  <2>4. ExtendsChain(p)'
    BY <1>2, <1>3, <1>5, <2>1, <2>2 DEF ExtendsChain, Linked
  <2>. QED BY <1>2, <1>3, <1>5, <2>2, <2>3, <2>4 DEF WriterInv, Numbered
<1>. QED BY <1>5, <1>6, <1>7, <1>8 DEF LogInv


LEMMA InsertKeeps ==
  ASSUME LogInv, NEW p \in Writers, InsertEntry(p) PROVE LogInv'
<1>. DEFINE row == [seq |-> nextSeq, tenant |-> Tenant(p), at |-> tx[p].at, what |-> tx[p].what,
                    prev |-> tx[p].prev, hash |-> Digest(tx[p].prev, tx[p].at, tx[p].what)]
            r == tx'[p]
<1>1. TxShape /\ tx[p] = Fields(tx[p]) /\ WriterInv(p)
  BY DEF LogInv, TxShape
<1>2. UNCHANGED <<audit, chainLock>> /\ tx[p].pc = "insert" /\ nextSeq \in Nat /\ nextSeq' = nextSeq + 1
  BY DEF InsertEntry, LogInv, ChainInv
<1>3. /\ r = Fields(r) /\ r.contract = tx[p].contract /\ r.rows = tx[p].rows \cup {row}
      /\ r.pc \notin {"idle", "link", "insert"} /\ tx' = [tx EXCEPT ![p] = r]
  BY <1>1 DEF InsertEntry, Fields, TxShape
<1>4. /\ row.seq = nextSeq /\ row.tenant = Tenant(p) /\ row.prev = tx[p].prev
      /\ row.hash = Digest(row.prev, row.at, row.what)
  OBVIOUS
<1>. HIDE DEF r, row
<1>5. tx[p].contract \in Contracts
  BY <1>1, <1>2 DEF TxShape
<1>6. TxShape' /\ tx'[p] = r /\ \A q \in Writers \ {p} : tx'[q] = tx[q]
  BY <1>3, <1>5, ShapeKept
<1>7. ChainInv'
  BY <1>2 DEF LogInv, ChainInv, LocksShape, Numbered
<1>8. ASSUME NEW q \in Writers \ {p} PROVE WriterInv(q)'
  BY <1>2, <1>6, WriterLeftAlone DEF LogInv, ChainInv
<1>9. WriterInv(p)'
  <2>1. HoldsChain(p) /\ ExtendsChain(p) /\ chainLock[Tenant(p)] = p
    BY <1>1, <1>2 DEF WriterInv, HoldsChain
  <2>2. Tenant(p)' = Tenant(p) /\ Extended(p)' = Extended(p) \cup {row}
    BY <1>2, <1>3, <1>4, <1>6 DEF Tenant, Extended, ChainOf
  <2>3. \A q \in Extended(p) : q.seq \in Nat /\ q.seq < nextSeq
    BY <1>1 DEF LogInv, ChainInv, WriterInv, Numbered, Extended, ChainOf
  <2>4. Linked(Extended(p)) /\ row.prev = LastHash(Extended(p))
    BY <1>2, <1>4, <2>1 DEF ExtendsChain
  <2>5. Linked(Extended(p) \cup {row})
    BY <1>2, <1>4, <2>3, <2>4, LinkedGrows
  <2>6. Numbered(tx[p].rows)'
    BY <1>1, <1>2, <1>3, <1>4, <1>6 DEF WriterInv, Numbered
  <2>7. HoldsChain(p)'
    BY <1>2, <2>1, <2>2 DEF HoldsChain
  <2>8. ExtendsChain(p)'
    BY <1>3, <1>4, <1>6, <2>1, <2>2, <2>5 DEF ExtendsChain, Linked
  <2>. QED BY <1>3, <1>6, <2>6, <2>7, <2>8 DEF WriterInv
<1>. QED BY <1>6, <1>7, <1>8, <1>9 DEF LogInv

(* The ends: the commit of a service, of an interceptor, a rollback.          *)
LEMMA EndKeeps ==
  ASSUME LogInv, NEW p \in Writers, CommitTx(p) \/ CommitRecord(p) \/ RollbackTx(p)
  PROVE  LogInv'
<1>. DEFINE r == tx'[p]
<1>1. TxShape /\ LocksShape
  BY DEF LogInv, ChainInv
<1>2. /\ tx[p].pc # "idle" /\ nextSeq' = nextSeq /\ Release(p)
      /\ audit' = audit \cup tx[p].rows \/ audit' = audit
  BY DEF CommitTx, CommitRecord, RollbackTx
<1>3. tx[p].contract \in Contracts
  BY <1>1, <1>2 DEF TxShape
<1>4. /\ r = Fields(r) /\ r.rows = {} /\ r.pc \in {"idle", "answer"} /\ tx' = [tx EXCEPT ![p] = r]
      /\ r.pc = "idle" \/ r.contract \in Contracts
  <2>1. CASE CommitTx(p)
    BY <1>1, <1>3, <2>1 DEF CommitTx, StartedTx, Fields, TxShape
  <2>2. CASE CommitRecord(p) \/ RollbackTx(p)
    BY <1>1, <2>2 DEF CommitRecord, RollbackTx, Closed, StartedTx, Fields, TxShape
  <2>. QED BY <2>1, <2>2
<1>. HIDE DEF r
<1>5. TxShape' /\ tx'[p] = r /\ \A q \in Writers \ {p} : tx'[q] = tx[q]
  BY <1>4, ShapeKept
<1>6. LocksShape'
  BY <1>2 DEF Release, LocksShape
<1>. QED BY <1>2, <1>4, <1>5, <1>6, EndStep

LEMMA LeaveKeeps ==
  ASSUME LogInv, NEW p \in Writers, Leave(p) PROVE LogInv'
<1>1. TxShape /\ WriterInv(p)
  BY DEF LogInv
<1>2. tx' = [tx EXCEPT ![p] = Closed] /\ UNCHANGED <<audit, nextSeq, chainLock>>
  BY DEF Leave
<1>3. Closed = Fields(Closed) /\ Closed.pc = "idle" /\ Closed.rows = {}
  BY DEF Closed, StartedTx, Fields
<1>4. TxShape' /\ tx'[p] = Closed /\ \A q \in Writers \ {p} : tx'[q] = tx[q]
  BY <1>2, <1>3, ShapeKept
<1>5. ChainInv'
  BY <1>2 DEF LogInv, ChainInv, LocksShape, Numbered
<1>6. ASSUME NEW q \in Writers \ {p} PROVE WriterInv(q)'
  BY <1>2, <1>4, WriterLeftAlone DEF LogInv, ChainInv
<1>7. WriterInv(p)'
  BY <1>3, <1>4 DEF WriterInv, Numbered
<1>. QED BY <1>4, <1>5, <1>6, <1>7 DEF LogInv

-----------------------------------------------------------------------------
LEMMA LogStep == LogInv /\ [LogNext]_logVars => LogInv'
<1>. SUFFICES ASSUME LogInv, [LogNext]_logVars PROVE LogInv'
  OBVIOUS
<1>1. CASE UNCHANGED logVars
  <2>1. UNCHANGED <<tx, audit, nextSeq, chainLock>>
    BY <1>1 DEF logVars
  <2>2. TxShape'
    BY <2>1 DEF LogInv, TxShape, Fields
  <2>3. ChainInv'
    BY <2>1 DEF LogInv, ChainInv, LocksShape, Numbered
  <2>4. \A q \in Writers : WriterInv(q)'
    BY <2>1, WriterLeftAlone DEF LogInv, ChainInv
  <2>. QED BY <2>2, <2>3, <2>4 DEF LogInv
<1>2. ASSUME NEW p \in Writers, NEW c \in Contracts, OpenTx(p, c) PROVE LogInv'
  BY <1>2, OpenKeeps
<1>3. ASSUME NEW p \in Writers, NEW c \in Contracts, NEW e \in Births, Create(p, c, e)
      PROVE  LogInv'
  BY <1>3, CreateKeeps
<1>4. ASSUME NEW p \in Writers, NEW e, NEW s,
             \/ Move(p, e, s) \/ ReadBefore(p) \/ DecideRevoke(p) \/ Update(p)
             \/ Publish(p) \/ Record(p)
      PROVE  LogInv'
  BY <1>4, BetweenKeeps
<1>5. ASSUME NEW p \in Writers, LockChain(p) PROVE LogInv'
  BY <1>5, LockKeeps
<1>6. ASSUME NEW p \in Writers, ReadLink(p) PROVE LogInv'
  BY <1>6, ReadLinkKeeps
<1>7. ASSUME NEW p \in Writers, InsertEntry(p) PROVE LogInv'
  BY <1>7, InsertKeeps
<1>8. ASSUME NEW p \in Writers, CommitTx(p) \/ CommitRecord(p) \/ RollbackTx(p) PROVE LogInv'
  BY <1>8, EndKeeps
<1>9. ASSUME NEW p \in Writers, Leave(p) PROVE LogInv'
  BY <1>9, LeaveKeeps
<1>. QED BY <1>1, <1>2, <1>3, <1>4, <1>5, <1>6, <1>7, <1>8, <1>9 DEF LogNext

(* The verification of a tenant's chain never reports an entry of the code's  *)
(* own writing: a report means that somebody else wrote (migration 15).       *)
THEOREM LogChainVerifies == LogSpec => []ChainVerifies
<1>1. LogInv => ChainVerifies
  BY LinkedVerifies DEF LogInv, ChainInv, ChainVerifies
<1>. QED BY <1>1, LogStart, LogStep, PTL DEF LogSpec


-----------------------------------------------------------------------------
(* The journal of a contract replays.  The transaction that holds its row     *)
(* carries the journal as it will be, up to the status the row has for it, or *)
(* to the one the pending entry leaves.                                       *)
JournalOf(rows, c) == {r \in rows : r.what.contract = c /\ r.what.event # Request}

Replays(rows) ==
  \A r \in rows : Preceding(rows, r.seq) # {} =>
                    r.what.from = LastOf(Preceding(rows, r.seq)).what.to

Arrives(rows, s) == rows # {} => LastOf(rows).what.to = s

Pending(p) == tx[p].pc \in {"chain", "link", "insert"}

Carried(p) == JournalOf(audit \cup tx[p].rows, tx[p].contract)

Reached(p) == IF Pending(p) THEN tx[p].what.from ELSE tx[p].now

HoldsRow(p) ==
  /\ \A r \in tx[p].rows : r.what.event # Request =>
       r.what.contract = tx[p].contract /\ rowLock[tx[p].contract] = p
  /\ Pending(p) /\ tx[p].what.event # Request =>
       /\ rowLock[tx[p].contract] = p
       /\ tx[p].what.contract = tx[p].contract
       /\ tx[p].what.to = tx[p].now

(* A row is held by a service, not by an interceptor.                         *)
HeldRow(p) ==
  \A c \in Contracts : rowLock[c] = p =>
    /\ tx[p].pc \notin {"idle", "answer", "written"}
    /\ tx[p].contract = c
    /\ Pending(p) => tx[p].what.event # Request

RowInv(p) ==
  /\ tx[p].event # Request
  /\ HeldRow(p)
  /\ tx[p].pc # "idle" =>
       /\ HoldsRow(p)
       /\ rowLock[tx[p].contract] = p => Replays(Carried(p)) /\ Arrives(Carried(p), Reached(p))

RowsInv ==
  /\ rowLock = [c \in Contracts |-> rowLock[c]]
  /\ stored = [c \in Contracts |-> stored[c]]
  /\ \A c \in Contracts : /\ Replays(JournalOf(audit, c))
                           /\ Arrives(JournalOf(audit, c), stored[c])

JournalInv == LogInv /\ RowsInv /\ \A p \in Writers : RowInv(p)

(* The newest of some entries and of one with a new number is the latter.     *)
LEMMA NewestIsLast ==
  ASSUME NEW rows, NEW row, NEW n \in Nat, row.seq = n,
         \A r \in rows : r.seq \in Nat /\ r.seq < n
  PROVE  LastOf(rows \cup {row}) = row
<1>. DEFINE all == rows \cup {row}
<1>1. row \in all /\ \A q \in all : q.seq <= row.seq
  OBVIOUS
<1>2. ASSUME NEW r \in all, \A q \in all : q.seq <= r.seq PROVE r = row
  <2>1. row.seq <= r.seq
    BY <1>1, <1>2
  <2>. QED BY <2>1
<1>. HIDE DEF all
<1>3. LastOf(all) \in all /\ \A q \in all : q.seq <= LastOf(all).seq
  BY <1>1 DEF LastOf
<1>4. LastOf(all) = row
  BY <1>2, <1>3
<1>. QED BY <1>4 DEF all

(* A new entry that leaves where the journal had arrived.                     *)
LEMMA ReplayGrows ==
  ASSUME NEW rows, NEW row, NEW n \in Nat, row.seq = n,
         \A r \in rows : r.seq \in Nat /\ r.seq < n,
         Replays(rows), Arrives(rows, row.what.from)
  PROVE  Replays(rows \cup {row}) /\ Arrives(rows \cup {row}, row.what.to)
<1>1. Preceding(rows \cup {row}, n) = rows
  BY DEF Preceding
<1>2. ASSUME NEW r \in rows PROVE Preceding(rows \cup {row}, r.seq) = Preceding(rows, r.seq)
  BY DEF Preceding
<1>3. LastOf(rows \cup {row}) = row
  BY NewestIsLast
<1>4. ASSUME NEW r \in rows \cup {row}, Preceding(rows \cup {row}, r.seq) # {}
      PROVE  r.what.from = LastOf(Preceding(rows \cup {row}, r.seq)).what.to
  <2>1. CASE r \in rows
    BY <1>2, <1>4, <2>1 DEF Replays
  <2>2. CASE r = row
    BY <1>1, <1>4, <2>2 DEF Arrives
  <2>. QED BY <2>1, <2>2
<1>5. Arrives(rows \cup {row}, row.what.to)
  BY <1>3 DEF Arrives
<1>. QED BY <1>4, <1>5 DEF Replays

LEMMA JournalStart == LogInit => JournalInv
<1>. SUFFICES ASSUME LogInit PROVE JournalInv
  OBVIOUS
<1>1. RowsInv
  BY DEF LogInit, RowsInv, JournalOf, Replays, Arrives
<1>2. \A p \in Writers : tx[p].pc = "idle" /\ tx[p].event = NoEvent
  BY DEF LogInit, Closed, StartedTx, NoEntry, Entry
<1>3. \A p \in Writers, c \in Contracts : rowLock[c] # p
  BY LogAssumption DEF LogInit
<1>. QED BY <1>1, <1>2, <1>3, LogStart DEF JournalInv, RowInv, HeldRow, NoEvent, Request

LEMMA RowLeftAlone ==
  ASSUME NEW q \in Writers, RowInv(q), tx'[q] = tx[q],
         tx[q].pc = "idle" \/ tx[q].contract \in Contracts,
         \A c \in Contracts : rowLock'[c] = q <=> rowLock[c] = q,
         tx[q].pc # "idle" /\ rowLock[tx[q].contract] = q =>
           JournalOf(audit', tx[q].contract) = JournalOf(audit, tx[q].contract)
  PROVE  RowInv(q)'
<1>1. HeldRow(q)'
  BY DEF RowInv, HeldRow, Pending
<1>2. ASSUME tx[q].pc # "idle" PROVE HoldsRow(q)'
  BY <1>2 DEF RowInv, HoldsRow, Pending
<1>3. ASSUME tx[q].pc # "idle", rowLock[tx[q].contract] = q
      PROVE  Carried(q)' = Carried(q) /\ Reached(q)' = Reached(q)
  <2>1. JournalOf(audit \cup tx[q].rows, tx[q].contract)
          = JournalOf(audit, tx[q].contract) \cup JournalOf(tx[q].rows, tx[q].contract)
    BY DEF JournalOf
  <2>2. JournalOf(audit' \cup tx[q].rows, tx[q].contract)
          = JournalOf(audit', tx[q].contract) \cup JournalOf(tx[q].rows, tx[q].contract)
    BY DEF JournalOf
  <2>3. Carried(q)' = JournalOf(audit' \cup tx[q].rows, tx[q].contract)
    BY DEF Carried, JournalOf
  <2>4. Carried(q)' = Carried(q)
    BY <1>3, <2>1, <2>2, <2>3 DEF Carried
  <2>. QED BY <2>4 DEF Reached, Pending
<1>4. ASSUME tx[q].pc # "idle", rowLock'[tx[q].contract] = q
      PROVE  (Replays(Carried(q)) /\ Arrives(Carried(q), Reached(q)))'
  <2>1. rowLock[tx[q].contract] = q
    BY <1>4
  <2>2. Replays(Carried(q)) /\ Arrives(Carried(q), Reached(q))
    BY <1>4, <2>1 DEF RowInv
  <2>. QED BY <1>3, <1>4, <2>1, <2>2 DEF Replays, Arrives
<1>. QED BY <1>1, <1>2, <1>4 DEF RowInv


(* A step of p that leaves the rows of the others to them.                    *)
LEMMA JournalKept ==
  ASSUME JournalInv, LogInv', RowsInv', NEW p \in Writers, RowInv(p)',
         \A q \in Writers \ {p} : tx'[q] = tx[q],
         \A q \in Writers \ {p}, c \in Contracts : rowLock'[c] = q <=> rowLock[c] = q,
         \A c \in Contracts : rowLock[c] \in Writers \ {p} =>
                              JournalOf(audit', c) = JournalOf(audit, c)
  PROVE  JournalInv'
<1>1. ASSUME NEW q \in Writers \ {p} PROVE RowInv(q)'
  <2>1. RowInv(q) /\ (tx[q].pc = "idle" \/ tx[q].contract \in Contracts)
    BY DEF JournalInv, LogInv, TxShape
  <2>2. tx[q].pc # "idle" /\ rowLock[tx[q].contract] = q =>
          JournalOf(audit', tx[q].contract) = JournalOf(audit, tx[q].contract)
    BY <2>1
  <2>. QED BY <2>1, <2>2, RowLeftAlone
<1>. QED BY <1>1 DEF JournalInv

(* A writer that goes on with its row as it was.                              *)
LEMMA SameRow ==
  ASSUME JournalInv, LogInv', NEW p \in Writers, UNCHANGED <<stored, audit, rowLock>>,
         \A q \in Writers \ {p} : tx'[q] = tx[q],
         tx[p].pc # "idle", tx'[p].pc \notin {"idle", "answer", "written"},
         tx'[p].rows = tx[p].rows, tx'[p].contract = tx[p].contract,
         tx'[p].now = tx[p].now, tx'[p].event # Request,
         Pending(p)' <=> Pending(p), Pending(p) => tx'[p].what = tx[p].what
  PROVE  JournalInv'
<1>1. RowInv(p)
  BY DEF JournalInv
<1>2. Carried(p)' = Carried(p) /\ Reached(p)' = Reached(p)
  BY DEF Carried, Reached, JournalOf
<1>3. HeldRow(p)'
  BY <1>1 DEF RowInv, HeldRow
<1>4. HoldsRow(p)'
  BY <1>1 DEF RowInv, HoldsRow
<1>5. rowLock'[tx'[p].contract] = p => Replays(Carried(p)') /\ Arrives(Carried(p)', Reached(p)')
  BY <1>1, <1>2 DEF RowInv
<1>6. RowInv(p)'
  BY <1>3, <1>4, <1>5 DEF RowInv, Replays, Arrives
<1>7. RowsInv'
  BY DEF JournalInv, RowsInv, JournalOf, Replays, Arrives
<1>. QED BY <1>6, <1>7, JournalKept

LEMMA RowGoesOn ==
  ASSUME JournalInv, LogInv', NEW p \in Writers,
         \/ \E e \in Followed, s \in Statuses : Move(p, e, s)
         \/ ReadBefore(p) \/ DecideRevoke(p) \/ Publish(p) \/ LockChain(p) \/ ReadLink(p)
  PROVE  JournalInv'
<1>1. TxShape /\ tx[p] = Fields(tx[p]) /\ tx[p].event # Request
  BY DEF JournalInv, LogInv, TxShape, RowInv
<1>2. /\ UNCHANGED <<stored, audit, rowLock>> /\ tx[p].pc # "idle"
      /\ \A q \in Writers \ {p} : tx'[q] = tx[q]
  BY <1>1 DEF TxShape, Move, ReadBefore, DecideRevoke, Publish, LockChain, ReadLink
<1>3. /\ tx'[p].pc \notin {"idle", "answer", "written"} /\ tx'[p].rows = tx[p].rows
      /\ tx'[p].contract = tx[p].contract /\ tx'[p].now = tx[p].now /\ tx'[p].event # Request
      /\ Pending(p)' <=> Pending(p)
      /\ Pending(p) => tx'[p].what = tx[p].what
  <2>1. ASSUME NEW e \in Followed, NEW s, Move(p, e, s)
        PROVE  /\ tx'[p].pc \in {"update", "before"} /\ tx'[p].rows = tx[p].rows
               /\ tx'[p].contract = tx[p].contract /\ tx'[p].now = tx[p].now
               /\ tx'[p].event = e /\ tx[p].pc = "open" /\ e # Request
    BY <1>1, <2>1, LogAssumption DEF Move, Fields, TxShape
  <2>2. CASE ReadBefore(p)
    BY <1>1, <2>2 DEF ReadBefore, Fields, TxShape, Pending
  <2>3. CASE DecideRevoke(p)
    BY <1>1, <2>3 DEF DecideRevoke, Fields, TxShape, Pending
  <2>4. CASE Publish(p)
    BY <1>1, <2>4 DEF Publish, Fields, TxShape, Pending
  <2>5. CASE LockChain(p)
    BY <1>1, <2>5 DEF LockChain, Fields, TxShape, Pending
  <2>6. CASE ReadLink(p)
    BY <1>1, <2>6 DEF ReadLink, Fields, TxShape, Pending
  <2>7. CASE \E e \in Followed, s \in Statuses : Move(p, e, s)
    BY <2>1, <2>7 DEF Pending
  <2>. QED BY <2>2, <2>3, <2>4, <2>5, <2>6, <2>7
<1>. QED BY <1>2, <1>3, SameRow

LEMMA RowOpens ==
  ASSUME JournalInv, LogInv', NEW p \in Writers, NEW c \in Contracts, OpenTx(p, c)
  PROVE  JournalInv'
<1>1. TxShape /\ RowInv(p) /\ tx[p].pc = "idle"
  BY DEF JournalInv, LogInv, OpenTx
<1>2. /\ UNCHANGED <<stored, audit, rowLock>> /\ \A q \in Writers \ {p} : tx'[q] = tx[q]
      /\ tx'[p].pc = "open" /\ tx'[p].rows = {} /\ tx'[p].event = NoEvent /\ tx'[p].contract = c
  BY <1>1 DEF OpenTx, TxShape, StartedTx, NoEntry, Entry
<1>3. \A d \in Contracts : rowLock[d] # p
  BY <1>1 DEF RowInv, HeldRow
<1>4. RowInv(p)'
  BY <1>2, <1>3 DEF RowInv, HeldRow, HoldsRow, Pending, NoEvent, Request
<1>5. RowsInv'
  BY <1>2 DEF JournalInv, RowsInv, JournalOf, Replays, Arrives
<1>. QED BY <1>2, <1>4, <1>5, JournalKept

LEMMA RowCreated ==
  ASSUME JournalInv, LogInv', NEW p \in Writers, NEW c \in Contracts, NEW e \in Births,
         Create(p, c, e)
  PROVE  JournalInv'
<1>. DEFINE to == IF e = "IMPORT" THEN "IMPORTED_PENDING_VALIDATION" ELSE "DRAFT"
<1>1. TxShape /\ RowInv(p) /\ RowsInv /\ tx[p].pc = "idle"
  BY DEF JournalInv, LogInv, Create
<1>2. /\ UNCHANGED <<stored, audit>> /\ \A q \in Writers \ {p} : tx'[q] = tx[q]
      /\ rowLock' = [rowLock EXCEPT ![c] = p] /\ rowLock[c] = Nobody /\ stored[c] = Unborn
      /\ tx'[p] = StartedTx(opened + 1, "chain", c, Entry(c, Unborn, to, e))
  BY <1>1 DEF Create, TxShape
<1>3. /\ tx'[p].pc = "chain" /\ tx'[p].rows = {} /\ tx'[p].event = e /\ tx'[p].contract = c
      /\ tx'[p].now = to /\ tx'[p].what = Entry(c, Unborn, to, e)
  BY <1>2 DEF StartedTx, Entry
<1>4. /\ tx'[p].what.contract = c /\ tx'[p].what.from = Unborn
      /\ tx'[p].what.to = to /\ tx'[p].what.event = e /\ e # Request
  BY <1>3, LogAssumption DEF Entry
<1>. HIDE DEF to
<1>5. \A d \in Contracts : rowLock'[d] = p <=> d = c
  BY <1>1, <1>2 DEF RowInv, HeldRow, RowsInv
<1>6. HeldRow(p)' /\ HoldsRow(p)'
  BY <1>3, <1>4, <1>5 DEF HeldRow, HoldsRow
<1>7. Carried(p)' = JournalOf(audit, c) /\ Reached(p)' = stored[c]
  BY <1>2, <1>3, <1>4 DEF Carried, JournalOf, Reached, Pending
<1>8. Replays(Carried(p)') /\ Arrives(Carried(p)', Reached(p)')
  BY <1>1, <1>7 DEF RowsInv
<1>9. RowInv(p)'
  BY <1>3, <1>4, <1>6, <1>8 DEF RowInv, Replays, Arrives
<1>10. RowsInv'
  BY <1>1, <1>2 DEF RowsInv, JournalOf, Replays, Arrives
<1>11. \A q \in Writers \ {p}, d \in Contracts : rowLock'[d] = q <=> rowLock[d] = q
  BY <1>1, <1>2, LogAssumption DEF RowsInv
<1>. QED BY <1>2, <1>9, <1>10, <1>11, JournalKept


LEMMA RowUpdated ==
  ASSUME JournalInv, LogInv', NEW p \in Writers, Update(p) PROVE JournalInv'
<1>. DEFINE c == tx[p].contract
<1>1. TxShape /\ tx[p] = Fields(tx[p]) /\ RowInv(p) /\ RowsInv /\ tx[p].pc = "update" /\ c \in Contracts
  BY DEF JournalInv, LogInv, TxShape, Update
<1>2. /\ UNCHANGED <<stored, audit>> /\ \A q \in Writers \ {p} : tx'[q] = tx[q]
      /\ rowLock' = [rowLock EXCEPT ![c] = p] /\ rowLock[c] \in {Nobody, p}
  BY <1>1 DEF Update, TxShape
<1>3. /\ tx'[p].rows = tx[p].rows /\ tx'[p].contract = c /\ tx'[p].event = tx[p].event
      /\ tx'[p].now = tx[p].to /\ tx'[p].what = Transition(p)
      /\ tx'[p].pc = IF Seen(p) = tx[p].to THEN "publish" ELSE "chain"
  BY <1>1 DEF Update, Fields, TxShape
<1>4. /\ tx'[p].what.contract = c /\ tx'[p].what.from = Seen(p)
      /\ tx'[p].what.to = tx[p].to /\ tx'[p].what.event = tx[p].event
  BY <1>3 DEF Transition, Entry
<1>5. rowLock'[c] = p /\ \A d \in Contracts : rowLock'[d] = p => d = c
  BY <1>1, <1>2 DEF RowInv, HeldRow, RowsInv
<1>6. Seen(p) = (IF rowLock[c] = p THEN tx[p].now ELSE stored[c])
  BY DEF Seen
<1>7. Reached(p)' = Seen(p)
  BY <1>3, <1>4 DEF Reached, Pending
<1>8. Carried(p)' = Carried(p)
  BY <1>2, <1>3 DEF Carried, JournalOf
<1>9. Replays(Carried(p)) /\ Arrives(Carried(p), Seen(p))
  <2>1. CASE rowLock[c] = p
    BY <1>1, <1>6, <2>1 DEF RowInv, Reached, Pending
  <2>2. CASE rowLock[c] # p
    <3>1. Carried(p) = JournalOf(audit, c)
      BY <1>1, <2>2 DEF RowInv, HoldsRow, Carried, JournalOf
    <3>. QED BY <1>1, <1>6, <2>2, <3>1 DEF RowsInv
  <2>. QED BY <2>1, <2>2
<1>. HIDE DEF c
<1>10. tx[p].event # Request /\ HoldsRow(p) /\ c = tx[p].contract
  BY <1>1 DEF RowInv, c
<1>11. HeldRow(p)'
  BY <1>3, <1>4, <1>5, <1>10 DEF HeldRow
<1>12. HoldsRow(p)'
  BY <1>3, <1>4, <1>5, <1>10 DEF HoldsRow
<1>13. (Replays(Carried(p)) /\ Arrives(Carried(p), Reached(p)))'
  BY <1>7, <1>8, <1>9 DEF Replays, Arrives
<1>14. RowInv(p)'
  BY <1>3, <1>10, <1>11, <1>12, <1>13 DEF RowInv
<1>15. RowsInv'
  BY <1>1, <1>2 DEF RowsInv, JournalOf, Replays, Arrives
<1>16. \A q \in Writers \ {p}, d \in Contracts : rowLock'[d] = q <=> rowLock[d] = q
  BY <1>1, <1>2, LogAssumption DEF RowsInv
<1>. QED BY <1>2, <1>14, <1>15, <1>16, JournalKept

LEMMA RowInserted ==
  ASSUME JournalInv, LogInv', NEW p \in Writers, InsertEntry(p) PROVE JournalInv'
<1>. DEFINE row == [seq |-> nextSeq, tenant |-> Tenant(p), at |-> tx[p].at, what |-> tx[p].what,
                    prev |-> tx[p].prev, hash |-> Digest(tx[p].prev, tx[p].at, tx[p].what)]
<1>1. /\ TxShape /\ tx[p] = Fields(tx[p]) /\ RowInv(p) /\ RowsInv /\ tx[p].pc = "insert"
      /\ tx[p].contract \in Contracts /\ nextSeq \in Nat /\ Numbered(audit) /\ Numbered(tx[p].rows)
  BY DEF JournalInv, LogInv, ChainInv, WriterInv, TxShape, InsertEntry
<1>2. UNCHANGED <<stored, audit, rowLock>> /\ \A q \in Writers \ {p} : tx'[q] = tx[q]
  BY <1>1 DEF InsertEntry, TxShape
<1>3. /\ tx'[p].rows = tx[p].rows \cup {row} /\ tx'[p].contract = tx[p].contract
      /\ tx'[p].event = tx[p].event /\ tx'[p].now = tx[p].now /\ tx'[p].what = tx[p].what
      /\ tx'[p].pc = IF tx[p].what.event = Request THEN "written" ELSE "publish"
  BY <1>1 DEF InsertEntry, Fields, TxShape
<1>4. row.seq = nextSeq /\ row.what = tx[p].what
  OBVIOUS
<1>. HIDE DEF row
<1>5. HeldRow(p)'
  BY <1>1, <1>2, <1>3 DEF RowInv, HeldRow, Pending
<1>6. HoldsRow(p)'
  BY <1>1, <1>2, <1>3, <1>4 DEF RowInv, HoldsRow, Pending
<1>7. ASSUME rowLock[tx[p].contract] = p PROVE (Replays(Carried(p)) /\ Arrives(Carried(p), Reached(p)))'
  <2>1. tx[p].what.event # Request /\ tx[p].what.contract = tx[p].contract /\ tx[p].what.to = tx[p].now
    BY <1>1, <1>7 DEF RowInv, HeldRow, HoldsRow, Pending
  <2>2. Replays(Carried(p)) /\ Arrives(Carried(p), row.what.from)
    BY <1>1, <1>4, <1>7 DEF RowInv, Reached, Pending
  <2>3. \A r \in Carried(p) : r.seq \in Nat /\ r.seq < nextSeq
    BY <1>1 DEF Numbered, Carried, JournalOf
  <2>4. Carried(p)' = Carried(p) \cup {row} /\ Reached(p)' = row.what.to
    <3>1. Carried(p)' = Carried(p) \cup {row}
      BY <1>2, <1>3, <1>4, <2>1 DEF Carried, JournalOf
    <3>2. Reached(p)' = row.what.to
      BY <1>3, <1>4, <2>1 DEF Reached, Pending
    <3>. QED BY <3>1, <3>2
  <2>5. Replays(Carried(p) \cup {row}) /\ Arrives(Carried(p) \cup {row}, row.what.to)
    BY <1>1, <1>4, <2>2, <2>3, ReplayGrows
  <2>. QED BY <2>4, <2>5 DEF Replays, Arrives
<1>8. RowInv(p)'
  BY <1>1, <1>2, <1>3, <1>5, <1>6, <1>7 DEF RowInv
<1>9. RowsInv'
  BY <1>1, <1>2 DEF RowsInv, JournalOf, Replays, Arrives
<1>. QED BY <1>2, <1>8, <1>9, JournalKept

(* The interceptor holds no row.                                              *)
LEMMA RowAnswered ==
  ASSUME JournalInv, LogInv', NEW p \in Writers, Record(p) \/ Leave(p) PROVE JournalInv'
<1>1. /\ TxShape /\ tx[p] = Fields(tx[p]) /\ RowInv(p) /\ RowsInv /\ tx[p].pc = "answer"
      /\ tx[p].contract \in Contracts
  BY DEF JournalInv, LogInv, TxShape, Record, Leave
<1>2. UNCHANGED <<stored, audit, rowLock>> /\ \A q \in Writers \ {p} : tx'[q] = tx[q]
  BY <1>1 DEF Record, Leave, TxShape
<1>3. \A c \in Contracts : rowLock[c] # p
  BY <1>1 DEF RowInv, HeldRow
<1>4. \A r \in tx[p].rows : r.what.event = Request
  BY <1>1, <1>3 DEF RowInv, HoldsRow
<1>5. RowInv(p)'
  <2>1. CASE Record(p)
    <3>1. /\ tx'[p].rows = tx[p].rows /\ tx'[p].event = tx[p].event
          /\ tx'[p].contract = tx[p].contract /\ tx'[p].what.event = Request
      BY <1>1, <2>1 DEF Record, Fields, TxShape, Entry
    <3>. QED BY <1>1, <1>2, <1>3, <1>4, <3>1 DEF RowInv, HeldRow, HoldsRow
  <2>2. CASE Leave(p)
    <3>1. tx'[p].pc = "idle" /\ tx'[p].event = NoEvent
      BY <1>1, <2>2 DEF Leave, Closed, StartedTx, NoEntry, Entry, TxShape
    <3>. QED BY <1>2, <1>3, <3>1 DEF RowInv, HeldRow, NoEvent, Request
  <2>. QED BY <2>1, <2>2
<1>6. RowsInv'
  BY <1>1, <1>2 DEF RowsInv, JournalOf, Replays, Arrives
<1>. QED BY <1>2, <1>5, <1>6, JournalKept

(* The ends give the row back, with the journal that p carried or without.    *)
LEMMA RowReleased ==
  ASSUME JournalInv, LogInv', NEW p \in Writers, CommitTx(p) \/ CommitRecord(p) \/ RollbackTx(p)
  PROVE  JournalInv'
<1>. DEFINE c == tx[p].contract
<1>1. TxShape /\ RowInv(p) /\ RowsInv /\ tx[p].pc # "idle" /\ c \in Contracts
  BY DEF JournalInv, LogInv, TxShape, CommitTx, CommitRecord, RollbackTx
<1>2. /\ rowLock' = [d \in Contracts |-> IF rowLock[d] = p THEN Nobody ELSE rowLock[d]]
      /\ \A q \in Writers \ {p} : tx'[q] = tx[q]
  BY <1>1 DEF CommitTx, CommitRecord, RollbackTx, Release, TxShape
<1>3. /\ \A d \in Contracts : rowLock'[d] # p
      /\ \A d \in Contracts, q \in Writers \ {p} : rowLock'[d] = q <=> rowLock[d] = q
  BY <1>2, LogAssumption
<1>4. tx'[p].rows = {} /\ tx'[p].event = NoEvent /\ tx'[p].pc \in {"idle", "answer"}
  BY <1>1 DEF CommitTx, CommitRecord, RollbackTx, Closed, StartedTx, NoEntry, Entry, TxShape
<1>5. RowInv(p)'
  <2>1. tx'[p].pc = "idle" \/ tx'[p].contract \in Contracts
    BY <1>1 DEF CommitTx, CommitRecord, RollbackTx, Closed, StartedTx, NoEntry, Entry, TxShape
  <2>. QED BY <1>3, <1>4, <2>1 DEF RowInv, HeldRow, HoldsRow, Pending, NoEvent, Request
<1>6. \/ audit' = audit /\ stored' = stored
      \/ /\ audit' = audit \cup tx[p].rows /\ stored' = stored
         /\ \A r \in tx[p].rows : r.what.event = Request
      \/ /\ audit' = audit \cup tx[p].rows /\ stored' = [stored EXCEPT ![c] = tx[p].now]
         /\ rowLock[c] = p /\ ~Pending(p)
  <2>1. CASE CommitTx(p)
    BY <2>1 DEF CommitTx, Pending
  <2>2. CASE CommitRecord(p)
    <3>1. rowLock[c] # p
      BY <1>1, <2>2 DEF CommitRecord, RowInv, HeldRow
    <3>2. \A r \in tx[p].rows : r.what.event = Request
      BY <1>1, <3>1 DEF RowInv, HoldsRow
    <3>. QED BY <2>2, <3>2 DEF CommitRecord
  <2>3. CASE RollbackTx(p)
    BY <2>3 DEF RollbackTx
  <2>. QED BY <2>1, <2>2, <2>3
<1>7. \A d \in Contracts : d # c => JournalOf(audit', d) = JournalOf(audit, d)
  BY <1>1, <1>6 DEF RowInv, HoldsRow, JournalOf
<1>8. \/ JournalOf(audit', c) = JournalOf(audit, c) /\ stored' = stored
      \/ /\ JournalOf(audit', c) = Carried(p) /\ stored' = [stored EXCEPT ![c] = tx[p].now]
         /\ rowLock[c] = p /\ ~Pending(p)
  BY <1>6 DEF JournalOf, Carried
<1>. HIDE DEF c
<1>9. RowsInv'
  <2>1. rowLock' = [d \in Contracts |-> rowLock'[d]] /\ stored' = [d \in Contracts |-> stored'[d]]
    BY <1>1, <1>2, <1>8 DEF RowsInv
  <2>2. \A d \in Contracts : d # c => stored'[d] = stored[d]
    BY <1>1, <1>8 DEF RowsInv
  <2>3. Replays(JournalOf(audit', c)) /\ Arrives(JournalOf(audit', c), stored'[c])
    <3>1. CASE JournalOf(audit', c) = JournalOf(audit, c) /\ stored' = stored
      BY <1>1, <3>1 DEF RowsInv
    <3>2. CASE /\ JournalOf(audit', c) = Carried(p) /\ stored' = [stored EXCEPT ![c] = tx[p].now]
               /\ rowLock[c] = p /\ ~Pending(p)
      BY <1>1, <3>2 DEF RowsInv, RowInv, Reached, c
    <3>. QED BY <1>8, <3>1, <3>2
  <2>4. \A d \in Contracts : Replays(JournalOf(audit', d)) /\ Arrives(JournalOf(audit', d), stored'[d])
    BY <1>1, <1>7, <2>2, <2>3 DEF RowsInv
  <2>. QED BY <2>1, <2>4 DEF RowsInv, JournalOf, Replays, Arrives
<1>10. \A d \in Contracts : rowLock[d] \in Writers \ {p} => JournalOf(audit', d) = JournalOf(audit, d)
  BY <1>7, <1>8
<1>. QED BY <1>2, <1>3, <1>5, <1>9, <1>10, JournalKept

LEMMA JournalStep == JournalInv /\ [LogNext]_logVars => JournalInv'
<1>. SUFFICES ASSUME JournalInv, [LogNext]_logVars PROVE JournalInv'
  OBVIOUS
<1>1. LogInv'
  BY LogStep DEF JournalInv
<1>2. CASE UNCHANGED logVars
  <2>1. UNCHANGED <<tx, audit, stored, rowLock>>
    BY <1>2 DEF logVars
  <2>2. RowsInv'
    BY <2>1 DEF JournalInv, RowsInv, JournalOf, Replays, Arrives
  <2>3. ASSUME NEW q \in Writers PROVE RowInv(q)'
    BY <2>1, RowLeftAlone DEF JournalInv, LogInv, TxShape
  <2>. QED BY <1>1, <2>2, <2>3 DEF JournalInv
<1>3. ASSUME NEW p \in Writers, NEW c \in Contracts, OpenTx(p, c) PROVE JournalInv'
  BY <1>1, <1>3, RowOpens
<1>4. ASSUME NEW p \in Writers, NEW c \in Contracts, NEW e \in Births, Create(p, c, e)
      PROVE  JournalInv'
  BY <1>1, <1>4, RowCreated
<1>5. ASSUME NEW p \in Writers,
             \/ \E e \in Followed, s \in Statuses : Move(p, e, s)
             \/ ReadBefore(p) \/ DecideRevoke(p) \/ Publish(p) \/ LockChain(p) \/ ReadLink(p)
      PROVE  JournalInv'
  BY <1>1, <1>5, RowGoesOn
<1>7. ASSUME NEW p \in Writers, Update(p) PROVE JournalInv'
  BY <1>1, <1>7, RowUpdated
<1>8. ASSUME NEW p \in Writers, InsertEntry(p) PROVE JournalInv'
  BY <1>1, <1>8, RowInserted
<1>9. ASSUME NEW p \in Writers, Record(p) \/ Leave(p) PROVE JournalInv'
  BY <1>1, <1>9, RowAnswered
<1>10. ASSUME NEW p \in Writers, CommitTx(p) \/ CommitRecord(p) \/ RollbackTx(p) PROVE JournalInv'
  BY <1>1, <1>10, RowReleased
<1>. QED BY <1>2, <1>3, <1>4, <1>5, <1>7, <1>8, <1>9, <1>10 DEF LogNext

(* The journal of a contract always replays to its status, although the       *)
(* services decide on rows they read without a lock (the trigger of migration *)
(* 17 reads OLD and NEW under the row lock).                                  *)
THEOREM LogJournalReplays == LogSpec => []JournalReplays
<1>1. JournalInv => JournalReplays
  <2>1. SUFFICES ASSUME JournalInv, NEW c \in Contracts
                 PROVE  LET rows == JournalOf(audit, c) IN
                        /\ \A r \in rows : Preceding(rows, r.seq) # {} =>
                                             r.what.from = LastOf(Preceding(rows, r.seq)).what.to
                        /\ rows # {} => LastOf(rows).what.to = stored[c]
    BY Zenon DEF JournalReplays, JournalOf
  <2>. QED BY <2>1, Zenon DEF JournalInv, RowsInv, Replays, Arrives
<1>. QED BY <1>1, JournalStart, JournalStep, PTL DEF LogSpec

==============================================================================

