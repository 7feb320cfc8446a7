----------------------------- MODULE ContractKinds -----------------------------
(* The types of contracts of a tenant and the codes of their price grids:     *)
(* ContractKindsService, the creation of a code in PriceGridService, and the  *)
(* triggers of the migration 34, which have the last word.                    *)
(*                                                                            *)
(* A request is two steps, what the service reads and what it writes; the     *)
(* writes of one row are serialised by its lock, and the database checks its  *)
(* own rules there. A code is the prefix of its type and a number.            *)
EXTENDS Naturals, Sequences

CONSTANTS
  Kinds,          \* identifiers of types
  System,         \* those the seed creates, which are never removed
  KindPrefixes,
  NoPrefix,       \* the type does not exist
  Desk,           \* requests under way at the same time
  MaxNumber       \* bound of the model: codes of a type

ASSUME KindsAssumption ==
  /\ System \subseteq Kinds
  /\ NoPrefix \notin KindPrefixes
  /\ MaxNumber \in Nat

VARIABLES
  kinds,          \* per type: [prefix, last, archived]
  spent,          \* identifiers that have been used
  codes,          \* the base codes, in the order of creation: [kind, prefix, number]
  asked           \* per request: what it is about to write

kindVars == <<kinds, spent, codes, asked>>

Absent == [prefix |-> NoPrefix, last |-> 0, archived |-> FALSE]
Nothing == [to |-> "none"]

Exists(k) == kinds[k].prefix # NoPrefix
PrefixTaken(p) == \E k \in Kinds : kinds[k].prefix = p

(* The seed has created its types.                                            *)
KindsInit ==
  /\ kinds \in [Kinds -> [prefix : KindPrefixes \cup {NoPrefix}, last : {0}, archived : {FALSE}]]
  /\ \A k \in Kinds : Exists(k) <=> k \in System
  /\ \A k, o \in System : k # o => kinds[k].prefix # kinds[o].prefix
  /\ spent = System
  /\ codes = << >>
  /\ asked = [d \in Desk |-> Nothing]

--------------------------------------------------------------------------------
(* What the service reads, and its own checks.                                *)

Ask(d, request) ==
  /\ asked[d] = Nothing
  /\ asked' = [asked EXCEPT ![d] = request]
  /\ UNCHANGED <<kinds, spent, codes>>

AskCreate(d, k, p) ==
  k \notin spent /\ ~PrefixTaken(p) /\ Ask(d, [to |-> "create", kind |-> k, prefix |-> p])

AskPrefix(d, k, p) ==
  /\ Exists(k)
  /\ kinds[k].prefix # p
  /\ kinds[k].last = 0
  /\ ~PrefixTaken(p)
  /\ Ask(d, [to |-> "prefix", kind |-> k, prefix |-> p])

AskRemove(d, k) ==
  /\ Exists(k)
  /\ k \notin System
  /\ kinds[k].last = 0
  /\ Ask(d, [to |-> "remove", kind |-> k])

AskItem(d, k) ==
  Exists(k) /\ ~kinds[k].archived /\ Ask(d, [to |-> "item", kind |-> k])

AskArchived(d, k) ==
  Exists(k) /\ Ask(d, [to |-> "archive", kind |-> k, archived |-> ~kinds[k].archived])

--------------------------------------------------------------------------------
(* What it writes, unless the database refuses.                               *)

Answered(d) == asked' = [asked EXCEPT ![d] = Nothing]

CreateKind(d) ==
  LET r == asked[d] IN
  /\ r.to = "create"
  /\ ~PrefixTaken(r.prefix)
  /\ r.kind \notin spent
  /\ kinds' = [kinds EXCEPT ![r.kind] =
                [prefix |-> r.prefix, last |-> 0, archived |-> FALSE]]
  /\ spent' = spent \cup {r.kind}
  /\ Answered(d)
  /\ UNCHANGED codes

HasCodes(k) == \E i \in DOMAIN codes : codes[i].kind = k

(* Mutant: the check of the service is the only one.                          *)
RenamableAsRead(k) == TRUE

(* The prefix is frozen by the first code.                                    *)
Renamable(k) == kinds[k].last = 0 /\ ~HasCodes(k)

SetPrefix(d) ==
  LET r == asked[d] IN
  /\ r.to = "prefix"
  /\ Exists(r.kind)
  /\ Renamable(r.kind)
  /\ ~PrefixTaken(r.prefix)
  /\ kinds' = [kinds EXCEPT ![r.kind].prefix = r.prefix]
  /\ Answered(d)
  /\ UNCHANGED <<spent, codes>>

(* A foreign key keeps a type that has codes.                                 *)
RemoveKind(d) ==
  LET r == asked[d] IN
  /\ r.to = "remove"
  /\ Exists(r.kind)
  /\ ~HasCodes(r.kind)
  /\ kinds' = [kinds EXCEPT ![r.kind] = Absent]
  /\ Answered(d)
  /\ UNCHANGED <<spent, codes>>

(* The number is the counter's, taken under the lock of the type's row.       *)
CreateItem(d) ==
  LET r == asked[d]
      n == kinds[r.kind].last + 1
  IN  /\ r.to = "item"
      /\ Exists(r.kind)
      /\ n <= MaxNumber
      /\ kinds' = [kinds EXCEPT ![r.kind].last = n]
      /\ codes' = Append(codes, [kind |-> r.kind, prefix |-> kinds[r.kind].prefix, number |-> n])
      /\ Answered(d)
      /\ UNCHANGED spent

SetKindArchived(d) ==
  LET r == asked[d] IN
  /\ r.to = "archive"
  /\ Exists(r.kind)
  /\ kinds' = [kinds EXCEPT ![r.kind].archived = r.archived]
  /\ Answered(d)
  /\ UNCHANGED <<spent, codes>>

(* The database, or the service, refuses: nothing is written.                 *)
RefuseKind(d) ==
  /\ asked[d] # Nothing
  /\ Answered(d)
  /\ UNCHANGED <<kinds, spent, codes>>

DeskRequest(d) ==
  \E k \in Kinds :
    \/ \E p \in KindPrefixes : AskCreate(d, k, p) \/ AskPrefix(d, k, p)
    \/ AskRemove(d, k) \/ AskItem(d, k) \/ AskArchived(d, k)

KindsNext ==
  \E d \in Desk :
    \/ DeskRequest(d)
    \/ CreateKind(d) \/ SetPrefix(d) \/ RemoveKind(d) \/ CreateItem(d) \/ SetKindArchived(d) \/ RefuseKind(d)

KindsSpec == KindsInit /\ [][KindsNext]_kindVars

--------------------------------------------------------------------------------
(* Type invariant.                                                            *)
KindsTypeOK ==
  /\ kinds \in [Kinds -> [prefix : KindPrefixes \cup {NoPrefix}, last : Nat, archived : BOOLEAN]]
  /\ spent \subseteq Kinds
  /\ codes \in Seq([kind : Kinds, prefix : KindPrefixes, number : Nat])
  /\ asked \in [Desk -> {Nothing}
                 \cup [to : {"create", "prefix"}, kind : Kinds, prefix : KindPrefixes]
                 \cup [to : {"remove", "item"}, kind : Kinds]
                 \cup [to : {"archive"}, kind : Kinds, archived : BOOLEAN]]

(* A code designates one type for good: its type is still there, under the    *)
(* prefix of the code, and no other code is written the same way. The CSV     *)
(* import recognises the codes of a type by that prefix, and the documents    *)
(* keep the code. A change of prefix, or a removal, decided before the first  *)
(* code of the type and written after it would break it.                      *)
CodesDesignate ==
  /\ \A i \in DOMAIN codes : kinds[codes[i].kind].prefix = codes[i].prefix
  /\ \A i, j \in DOMAIN codes :
       codes[i].prefix = codes[j].prefix /\ codes[i].number = codes[j].number => i = j
================================================================================
