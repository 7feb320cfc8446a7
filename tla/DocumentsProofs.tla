----------------------------- MODULE DocumentsProofs -----------------------------
(* Proofs about the desk's side of a contract: the codes of its types         *)
(* (ContractKinds), the prices of the grid (PriceGrid), the templates         *)
(* (ContractTemplates), the text (StructuredContent), and the budget          *)
(* (AiGateway) and the prompts (Pseudonyms) of the provider of text. The six  *)
(* modules share no variable, and each part below is about one of them.       *)
EXTENDS ContractKinds, PriceGrid, ContractTemplates, StructuredContent, AiGateway,
        Pseudonyms, FiniteSetTheorems, SequenceTheorems, WellFoundedInduction, TLAPS

--------------------------------------------------------------------------------
(* The codes. A code designates one type for good, for any types, prefixes    *)
(* and requests.                                                              *)
(*                                                                            *)
(* That no two codes are written the same way is not inductive: the numbers   *)
(* of a type must also not exceed its counter, so that the next one is new,   *)
(* and two types must not share a prefix, whether they have codes or not.     *)

(* The rule of the database on prefixes.                                      *)
PrefixesDiffer ==
  \A k, o \in Kinds : Exists(k) /\ kinds[k].prefix = kinds[o].prefix => k = o

(* A code has the prefix of its type, whose counter is not behind it.         *)
CodesCounted ==
  \A i \in DOMAIN codes : /\ kinds[codes[i].kind].prefix = codes[i].prefix
                          /\ codes[i].number <= kinds[codes[i].kind].last

(* No number is given twice in a type.                                        *)
NumbersDiffer ==
  \A i, j \in DOMAIN codes :
    codes[i].kind = codes[j].kind /\ codes[i].number = codes[j].number => i = j

Code == [kind : Kinds, prefix : KindPrefixes, number : Nat]

Rows == [Kinds -> [prefix : KindPrefixes \cup {NoPrefix}, last : Nat, archived : BOOLEAN]]

RequestsType == [Desk -> {Nothing}
                   \cup [to : {"create", "prefix"}, kind : Kinds, prefix : KindPrefixes]
                   \cup [to : {"remove", "item"}, kind : Kinds]
                   \cup [to : {"archive"}, kind : Kinds, archived : BOOLEAN]]

(* The inductive invariant but for the requests.                              *)
GridOK ==
  /\ kinds \in Rows
  /\ spent \subseteq Kinds
  /\ \A k \in Kinds : Exists(k) => k \in spent
  /\ codes \in Seq(Code)
  /\ PrefixesDiffer
  /\ CodesCounted
  /\ NumbersDiffer

KindsInv == GridOK /\ asked \in RequestsType

(* What the list of the codes holds.                                          *)
LEMMA CodeType ==
  ASSUME codes \in Seq(Code), NEW i \in DOMAIN codes
  PROVE  codes[i].kind \in Kinds /\ codes[i].prefix \in KindPrefixes /\ codes[i].number \in Nat
<1>1. codes[i] \in Code
  OBVIOUS
<1>. QED BY <1>1 DEF Code

LEMMA InvTypes == KindsInv => KindsTypeOK
  BY DEF KindsInv, GridOK, KindsTypeOK, Rows, Code, RequestsType

(* The types of the seed have different prefixes and no code.                 *)
LEMMA KindsStart == KindsInit => KindsInv
<1>. SUFFICES ASSUME KindsInit PROVE KindsInv
  OBVIOUS
<1>. USE KindsAssumption DEF KindsInit
<1>1. kinds \in Rows /\ spent \subseteq Kinds /\ codes \in Seq(Code) /\ asked \in RequestsType
  <2>1. kinds \in Rows
    <3>1. {0} \subseteq Nat /\ {FALSE} \subseteq BOOLEAN
      OBVIOUS
    <3>. QED BY <3>1 DEF Rows
  <2>2. asked \in RequestsType
    BY DEF RequestsType
  <2>. QED BY <2>1, <2>2
<1>2. PrefixesDiffer
  BY DEF PrefixesDiffer, Exists
<1>3. CodesCounted /\ NumbersDiffer
  BY DEF CodesCounted, NumbersDiffer
<1>4. \A k \in Kinds : Exists(k) => k \in spent
  OBVIOUS
<1>. QED BY <1>1, <1>2, <1>3, <1>4 DEF KindsInv, GridOK

(* The invariant is about the types and the codes but for the requests.       *)
LEMMA GridUntouched ==
  ASSUME GridOK, UNCHANGED <<kinds, spent, codes>> PROVE GridOK'
  BY DEF GridOK, PrefixesDiffer, CodesCounted, NumbersDiffer, Exists

(* Reading changes nothing but the request.                                   *)
LEMMA ReadingKeeps ==
  ASSUME KindsInv, NEW d \in Desk, DeskRequest(d) PROVE KindsInv'
<1>. USE DEF Ask
<1>1. PICK k \in Kinds :
        \/ \E p \in KindPrefixes : AskCreate(d, k, p) \/ AskPrefix(d, k, p)
        \/ AskRemove(d, k) \/ AskItem(d, k) \/ AskArchived(d, k)
  BY DEF DeskRequest
<1>2. kinds[k].archived \in BOOLEAN
  BY DEF KindsInv, GridOK, Rows
<1>3. UNCHANGED <<kinds, spent, codes>>
  BY <1>1 DEF AskCreate, AskPrefix, AskRemove, AskItem, AskArchived
<1>4. GridOK'
  BY <1>3, GridUntouched DEF KindsInv
<1>5. asked' \in RequestsType
  <2>. USE DEF KindsInv, RequestsType
  <2>1. CASE \E p \in KindPrefixes : AskCreate(d, k, p) \/ AskPrefix(d, k, p)
    BY <2>1 DEF AskCreate, AskPrefix
  <2>2. CASE AskRemove(d, k) \/ AskItem(d, k)
    BY <2>2 DEF AskRemove, AskItem
  <2>3. CASE AskArchived(d, k)
    BY <2>3, <1>2 DEF AskArchived
  <2>. QED BY <1>1, <2>1, <2>2, <2>3
<1>. QED BY <1>4, <1>5 DEF KindsInv

(* A request that is answered is forgotten.                                   *)
LEMMA AnswerType ==
  ASSUME asked \in RequestsType, NEW d \in Desk, Answered(d) PROVE asked' \in RequestsType
  BY DEF RequestsType, Answered

(* What is asked to be created or renamed is a type and a prefix.             *)
LEMMA AskedType ==
  ASSUME asked \in RequestsType, NEW d \in Desk
  PROVE  /\ asked[d].to \in {"create", "prefix", "remove", "item", "archive"} => asked[d].kind \in Kinds
         /\ asked[d].to \in {"create", "prefix"} => asked[d].prefix \in KindPrefixes
         /\ asked[d].to = "archive" => asked[d].archived \in BOOLEAN
  BY DEF RequestsType, Nothing

(* A type without codes may take any prefix that no other has.                *)
LEMMA FreePrefixKeeps ==
  ASSUME GridOK, NEW k \in Kinds, NEW p \in KindPrefixes, ~PrefixTaken(p), ~HasCodes(k),
         NEW n \in Nat, NEW a \in BOOLEAN,
         kinds' = [kinds EXCEPT ![k] = [prefix |-> p, last |-> n, archived |-> a]],
         codes' = codes, spent' \in {spent, spent \cup {k}}, k \in spent'
  PROVE  GridOK'
<1>. USE DEF GridOK
<1>1. kinds' \in Rows
  BY DEF Rows
<1>2. PrefixesDiffer'
  BY <1>1 DEF PrefixesDiffer, PrefixTaken, Exists, Rows
<1>3. CodesCounted'
  <2>. SUFFICES ASSUME NEW i \in DOMAIN codes
                PROVE  /\ kinds'[codes[i].kind].prefix = codes[i].prefix
                       /\ codes[i].number <= kinds'[codes[i].kind].last
    BY DEF CodesCounted
  <2>1. codes[i].kind \in Kinds \ {k}
    BY CodeType DEF HasCodes
  <2>. QED BY <2>1 DEF CodesCounted, Rows
<1>4. NumbersDiffer'
  BY DEF NumbersDiffer
<1>5. \A o \in Kinds : Exists(o)' => o \in spent'
  BY <1>1 DEF Exists, Rows
<1>. QED BY <1>1, <1>2, <1>3, <1>4, <1>5

LEMMA CreateKeeps ==
  ASSUME KindsInv, NEW d \in Desk, CreateKind(d) PROVE KindsInv'
<1>. DEFINE r == asked[d]
<1>. USE DEF KindsInv
<1>1. r.kind \in Kinds /\ r.prefix \in KindPrefixes
  BY AskedType DEF CreateKind
<1>2. ~HasCodes(r.kind)
  <2>. SUFFICES ASSUME NEW i \in DOMAIN codes, codes[i].kind = r.kind PROVE FALSE
    BY DEF HasCodes
  <2>1. kinds[r.kind].prefix \in KindPrefixes
    BY CodeType DEF GridOK, CodesCounted
  <2>. QED BY <2>1, <1>1, KindsAssumption DEF CreateKind, GridOK, Exists
<1>3. kinds' = [kinds EXCEPT ![r.kind] = [prefix |-> r.prefix, last |-> 0, archived |-> FALSE]]
  BY DEF CreateKind
<1>4. GridOK'
  BY <1>1, <1>2, <1>3, FreePrefixKeeps DEF CreateKind
<1>5. asked' \in RequestsType
  BY AnswerType DEF CreateKind
<1>. QED BY <1>4, <1>5

LEMMA PrefixKeeps ==
  ASSUME KindsInv, NEW d \in Desk, SetPrefix(d) PROVE KindsInv'
<1>. DEFINE r == asked[d]
<1>. USE DEF KindsInv
<1>1. r.kind \in Kinds /\ r.prefix \in KindPrefixes
  BY AskedType DEF SetPrefix
<1>2. /\ kinds[r.kind].last \in Nat /\ kinds[r.kind].archived \in BOOLEAN
      /\ kinds' = [kinds EXCEPT ![r.kind] = [prefix |-> r.prefix, last |-> kinds[r.kind].last,
                                              archived |-> kinds[r.kind].archived]]
  <2>1. kinds[r.kind] \in [prefix : KindPrefixes \cup {NoPrefix}, last : Nat, archived : BOOLEAN]
    BY <1>1 DEF GridOK, Rows
  <2>2. [kinds[r.kind] EXCEPT !.prefix = r.prefix]
          = [prefix |-> r.prefix, last |-> kinds[r.kind].last, archived |-> kinds[r.kind].archived]
    BY <2>1
  <2>3. kinds' = [kinds EXCEPT ![r.kind] = [kinds[r.kind] EXCEPT !.prefix = r.prefix]]
    BY DEF SetPrefix
  <2>. QED BY <2>1, <2>2, <2>3
<1>3. r.kind \in spent
  BY <1>1 DEF SetPrefix, GridOK
<1>4. GridOK'
  <2>1. ~PrefixTaken(r.prefix) /\ ~HasCodes(r.kind) /\ codes' = codes /\ spent' = spent
    BY DEF SetPrefix, Renamable
  <2>2. spent' \in {spent, spent \cup {r.kind}} /\ r.kind \in spent'
    BY <2>1, <1>3
  <2>. QED BY <1>1, <1>2, <2>1, <2>2, FreePrefixKeeps
<1>5. asked' \in RequestsType
  BY AnswerType DEF SetPrefix
<1>. QED BY <1>4, <1>5

LEMMA RemoveKeeps ==
  ASSUME KindsInv, NEW d \in Desk, RemoveKind(d) PROVE KindsInv'
<1>. DEFINE k == asked[d].kind
<1>. USE DEF KindsInv
<1>1. k \in Kinds
  BY AskedType DEF RemoveKind
<1>2. kinds' \in Rows /\ kinds' = [kinds EXCEPT ![k] = Absent]
  BY <1>1 DEF RemoveKind, GridOK, Rows, Absent
<1>3. PrefixesDiffer' /\ \A o \in Kinds : Exists(o)' => o \in spent'
  BY <1>1, <1>2, KindsAssumption DEF RemoveKind, GridOK, PrefixesDiffer, Exists, Rows, Absent
<1>4. CodesCounted'
  <2>. SUFFICES ASSUME NEW i \in DOMAIN codes
                PROVE  /\ kinds'[codes[i].kind].prefix = codes[i].prefix
                       /\ codes[i].number <= kinds'[codes[i].kind].last
    BY DEF CodesCounted, RemoveKind
  <2>1. codes[i].kind \in Kinds \ {k}
    BY CodeType DEF GridOK, HasCodes, RemoveKind
  <2>. QED BY <1>2, <2>1 DEF GridOK, CodesCounted, Rows
<1>5. GridOK'
  BY <1>2, <1>3, <1>4 DEF GridOK, NumbersDiffer, RemoveKind
<1>6. asked' \in RequestsType
  BY AnswerType DEF RemoveKind
<1>. QED BY <1>5, <1>6

LEMMA ArchiveKeeps ==
  ASSUME KindsInv, NEW d \in Desk, SetKindArchived(d) PROVE KindsInv'
<1>. DEFINE k == asked[d].kind
<1>. USE DEF KindsInv
<1>1. k \in Kinds /\ asked[d].archived \in BOOLEAN
  BY AskedType DEF SetKindArchived
<1>2. /\ kinds' \in Rows
      /\ \A o \in Kinds : kinds'[o].prefix = kinds[o].prefix /\ kinds'[o].last = kinds[o].last
  BY <1>1 DEF SetKindArchived, GridOK, Rows
<1>3. PrefixesDiffer' /\ \A o \in Kinds : Exists(o)' => o \in spent'
  BY <1>2 DEF SetKindArchived, GridOK, PrefixesDiffer, Exists
<1>4. \A i \in DOMAIN codes : codes[i].kind \in Kinds
  BY CodeType DEF GridOK
<1>5. CodesCounted' /\ NumbersDiffer'
  BY <1>2, <1>4 DEF SetKindArchived, GridOK, CodesCounted, NumbersDiffer
<1>6. asked' \in RequestsType
  BY AnswerType DEF SetKindArchived
<1>. QED BY <1>2, <1>3, <1>5, <1>6 DEF GridOK, SetKindArchived

(* The number is new because the counter is not behind.                       *)
LEMMA ItemKeeps ==
  ASSUME KindsInv, NEW d \in Desk, CreateItem(d) PROVE KindsInv'
<1>. DEFINE k == asked[d].kind
            n == kinds[k].last + 1
            item == [kind |-> k, prefix |-> kinds[k].prefix, number |-> n]
<1>. USE DEF KindsInv
<1>1. k \in Kinds
  BY AskedType DEF CreateItem
<1>2. /\ n \in Nat /\ kinds' \in Rows
      /\ \A o \in Kinds : kinds'[o].prefix = kinds[o].prefix /\ kinds[o].last <= kinds'[o].last
      /\ kinds'[k].last = n
  <2>1. n \in Nat /\ kinds[k].last <= n
    BY <1>1 DEF GridOK, Rows
  <2>2. kinds' = [kinds EXCEPT ![k].last = n]
    BY DEF CreateItem
  <2>3. kinds' \in Rows
    BY <1>1, <2>1, <2>2 DEF GridOK, Rows
  <2>4. kinds'[k].last = n /\ kinds'[k].prefix = kinds[k].prefix
    BY <1>1, <2>2 DEF GridOK, Rows
  <2>5. \A o \in Kinds \ {k} : kinds'[o] = kinds[o] /\ kinds[o].last \in Nat
    BY <2>2 DEF GridOK, Rows
  <2>. QED BY <2>1, <2>3, <2>4, <2>5
<1>3. item \in [kind : Kinds, prefix : KindPrefixes, number : Nat]
  BY <1>1, <1>2 DEF CreateItem, GridOK, Rows, Exists
<1>4. /\ codes' = Append(codes, item) /\ codes' \in Seq(Code)
      /\ DOMAIN codes' = DOMAIN codes \cup {Len(codes) + 1}
      /\ Len(codes) + 1 \notin DOMAIN codes
      /\ \A i \in DOMAIN codes : codes'[i] = codes[i]
      /\ codes'[Len(codes) + 1] = item
  <2>1. codes' = Append(codes, item)
    BY DEF CreateItem
  <2>2. codes \in Seq(Code) /\ item \in Code
    BY <1>3 DEF GridOK, Code
  <2>. HIDE DEF item, Code
  <2>. QED BY <2>1, <2>2
<1>5. PrefixesDiffer' /\ \A o \in Kinds : Exists(o)' => o \in spent'
  BY <1>2 DEF CreateItem, GridOK, PrefixesDiffer, Exists
<1>6. \A i \in DOMAIN codes : /\ codes[i].kind \in Kinds /\ codes[i].number \in Nat
                               /\ codes[i].number <= kinds[codes[i].kind].last
  BY CodeType DEF GridOK, CodesCounted
<1>7. CodesCounted'
  <2>. SUFFICES ASSUME NEW i \in DOMAIN codes'
                PROVE  /\ kinds'[codes'[i].kind].prefix = codes'[i].prefix
                       /\ codes'[i].number <= kinds'[codes'[i].kind].last
    BY DEF CodesCounted
  <2>1. CASE i \in DOMAIN codes
    <3>1. kinds[codes[i].kind].last \in Nat /\ kinds'[codes[i].kind].last \in Nat
      BY <2>1, <1>2, <1>6 DEF GridOK, Rows
    <3>. QED BY <3>1, <2>1, <1>2, <1>4, <1>6 DEF GridOK, CodesCounted
  <2>2. CASE i = Len(codes) + 1
    BY <2>2, <1>1, <1>2, <1>4
  <2>. QED BY <2>1, <2>2, <1>4
<1>8. NumbersDiffer'
  <2>1. \A i \in DOMAIN codes : codes[i].kind = k => codes[i].number # n
    BY <1>1, <1>6 DEF GridOK, Rows
  <2>. QED BY <2>1, <1>4 DEF GridOK, NumbersDiffer
<1>9. asked' \in RequestsType
  BY AnswerType DEF CreateItem
<1>. QED BY <1>2, <1>4, <1>5, <1>7, <1>8, <1>9 DEF GridOK, CreateItem

LEMMA KindsStep == KindsInv /\ [KindsNext]_kindVars => KindsInv'
<1>. SUFFICES ASSUME KindsInv, [KindsNext]_kindVars PROVE KindsInv'
  OBVIOUS
<1>1. CASE UNCHANGED kindVars
  BY <1>1, GridUntouched DEF KindsInv, kindVars
<1>2. CASE KindsNext
  <2>1. PICK d \in Desk : \/ DeskRequest(d)
                          \/ CreateKind(d) \/ SetPrefix(d) \/ RemoveKind(d)
                          \/ CreateItem(d) \/ SetKindArchived(d) \/ RefuseKind(d)
    BY <1>2 DEF KindsNext
  <2>2. CASE RefuseKind(d)
    BY <2>2, GridUntouched, AnswerType DEF RefuseKind, KindsInv
  <2>. QED BY <2>1, <2>2, ReadingKeeps, CreateKeeps, PrefixKeeps, RemoveKeeps, ItemKeeps,
              ArchiveKeeps
<1>. QED BY <1>1, <1>2

(* A type, a code and a request always have the shape of their rows: no step  *)
(* of a request writes another one's.                                         *)
THEOREM KindsTypeCorrect == KindsSpec => []KindsTypeOK
<1>1. KindsInv => KindsTypeOK
  BY InvTypes
<1>. QED BY <1>1, KindsStart, KindsStep, PTL DEF KindsSpec

(* Whatever requests race, a code stays under its type and prefix and is      *)
(* unique, for any number of types, prefixes, requests and codes.             *)
THEOREM CodesDesignateForEver == KindsSpec => []CodesDesignate
<1>1. KindsInv => CodesDesignate
  <2>. SUFFICES ASSUME KindsInv PROVE CodesDesignate
    OBVIOUS
  <2>. USE DEF KindsInv, GridOK
  <2>1. \A i \in DOMAIN codes : codes[i].kind \in Kinds /\ codes[i].prefix \in KindPrefixes
    BY CodeType
  <2>2. \A i \in DOMAIN codes : Exists(codes[i].kind)
    BY <2>1, KindsAssumption DEF CodesCounted, Exists
  <2>. QED BY <2>1, <2>2 DEF CodesDesignate, CodesCounted, PrefixesDiffer, NumbersDiffer
<1>. QED BY <1>1, KindsStart, KindsStep, PTL DEF KindsSpec
--------------------------------------------------------------------------------
(* The prices. A price entered for a day holds, for any commitments, prices,  *)
(* sheets and dates. What a sheet adds, to the rows and to the history of the *)
(* entries, is at most one element per commitment, and it is known what that  *)
(* does to what is in force on each day.                                      *)

PriceRow == [months : Months, from : Days, amount : Amounts]
EntryRow == [months : Months, from : Days, amount : Amounts, written : BOOLEAN]

(* Every date of a row was entered, and so is every row; an entry that was    *)
(* written is a row.                                                          *)
RowWasEntered ==
  \A i \in DOMAIN rows : \E j \in DOMAIN entries :
    entries[j].months = rows[i].months /\ entries[j].from = rows[i].from

WrittenIsRow ==
  \A j \in DOMAIN entries : entries[j].written =>
    \E i \in DOMAIN rows : rows[i].months = entries[j].months /\ rows[i].from = entries[j].from

(* The first part of EnteredPriceHolds, of the entries in force on a day.     *)
EntryInForceHolds ==
  \A m \in Months, day \in Days : \A i \in InForce(entries, m, day) :
    \/ PriceAt(rows, m, day) = entries[i].amount
    \/ Overtaken(i, PriceAt(rows, m, day))

GridInv ==
  /\ rows \in Seq(PriceRow)
  /\ entries \in Seq(EntryRow)
  /\ RowWasEntered
  /\ WrittenIsRow
  /\ EntryInForceHolds

LEMMA DaysAreIntegers == \A day \in Days : day \in Int
  BY GridAssumption DEF Days

(* Of the rows, as of the entries.                                            *)
Dated(R) == \A x \in R : x.from \in Days

LEMMA DatedRows == Dated(PriceRow) /\ Dated(EntryRow)
  BY DEF Dated, PriceRow, EntryRow

LEMMA RowsType ==
  ASSUME NEW R, Dated(R), NEW history \in Seq(R)
  PROVE  /\ DOMAIN history = 1..Len(history) /\ Len(history) \in Nat
         /\ \A i \in DOMAIN history : i \in Nat /\ history[i] \in R /\ history[i].from \in Int
<1>1. DOMAIN history = 1..Len(history) /\ Len(history) \in Nat
  OBVIOUS
<1>2. ASSUME NEW i \in 1..Len(history) PROVE history[i] \in R /\ history[i].from \in Int
  <2>1. history[i] \in R
    BY <1>2
  <2>. QED BY <2>1, DaysAreIntegers DEF Dated
<1>. QED BY <1>1, <1>2

(* The elements of a finite set, one after the other.                         *)
LEMMA ElementsInOrder ==
  ASSUME NEW S, IsFiniteSet(S)
  PROVE  /\ SetToSeq(S) \in Seq(S)
         /\ \A x \in S : \E k \in DOMAIN SetToSeq(S) : SetToSeq(S)[k] = x
         /\ \A k, l \in DOMAIN SetToSeq(S) : SetToSeq(S)[k] = SetToSeq(S)[l] => k = l
<1>. DEFINE n == Cardinality(S)
            s == SetToSeq(S)
<1>1. n \in Nat /\ ExistsBijection(1..n, S)
  BY FS_CardinalityType
<1>2. PICK f : f \in Bijection(1..n, S)
  BY <1>1 DEF ExistsBijection
<1>3. f \in [1..n -> S] /\ IsInjective(f)
  BY <1>2 DEF Bijection, Injection, IsInjective
<1>4. s \in [1..n -> S] /\ IsInjective(s)
  BY <1>3 DEF SetToSeq
<1>. HIDE DEF s
<1>5. s \in Injection(1..n, S)
  BY <1>4 DEF Injection, IsInjective
<1>6. Cardinality(1..n) = n
  <2>1. 1 \in Int /\ n \in Int
    BY <1>1
  <2>2. Cardinality(1..n) = IF 1 > n THEN 0 ELSE n - 1 + 1
    BY <2>1, FS_Interval
  <2>. QED BY <2>2, <1>1
<1>7. s \in Surjection(1..n, S)
  BY <1>5, <1>6, FS_Injection
<1>8. s \in Seq(S) /\ DOMAIN s = 1..n
  BY <1>1, <1>4, SeqDef
<1>. QED BY <1>4, <1>7, <1>8 DEF s, Surjection, IsInjective

(* What is added says one thing, f[m], of each m of M, from one date on.      *)
OneFor(added, f, M, from) ==
  /\ \A m \in M : f[m].months = m /\ f[m].from = from
  /\ \A k \in DOMAIN added : added[k].months \in M /\ added[k] = f[added[k].months]
  /\ \A m \in M : \E k \in DOMAIN added : added[k] = f[m]
  /\ \A k, l \in DOMAIN added : added[k].months = added[l].months => k = l

LEMMA AddsOneFor ==
  ASSUME NEW R, NEW M \in SUBSET Months, NEW from \in Days, NEW f \in [M -> R],
         \A m \in M : f[m].months = m /\ f[m].from = from,
         NEW S, S = {f[m] : m \in M}
  PROVE  SetToSeq(S) \in Seq(R) /\ OneFor(SetToSeq(S), f, M, from)
<1>. DEFINE added == SetToSeq(S)
<1>1. IsFiniteSet(M)
  BY FS_Subset, GridAssumption
<1>2. f \in Surjection(M, S)
  BY DEF Surjection
<1>3. IsFiniteSet(S)
  BY <1>1, <1>2, FS_Surjection
<1>4. /\ added \in Seq(S)
      /\ \A x \in S : \E k \in DOMAIN added : added[k] = x
      /\ \A k, l \in DOMAIN added : added[k] = added[l] => k = l
  BY ONLY <1>3, ElementsInOrder
<1>5. S \subseteq R
  OBVIOUS
<1>. HIDE DEF added
<1>6. \A k \in DOMAIN added : added[k] \in S
  BY <1>4
<1>7. added \in Seq(R)
  BY <1>4, <1>5
<1>8. \A k \in DOMAIN added : added[k].months \in M /\ added[k] = f[added[k].months]
  BY <1>6
<1>9. \A m \in M : \E k \in DOMAIN added : added[k] = f[m]
  BY <1>4
<1>10. \A k, l \in DOMAIN added : added[k].months = added[l].months => k = l
  BY <1>4, <1>8
<1>. QED BY <1>7, <1>8, <1>9, <1>10 DEF added, OneFor

(* Of nothing, nothing.                                                       *)
LEMMA NothingInOrder == SetToSeq({}) = << >>
<1>1. Cardinality({}) = 0
  BY FS_EmptySet
<1>2. ASSUME NEW f \in [1..0 -> {}] PROVE f = << >>
  <2>1. f \in Seq({}) /\ DOMAIN f = {}
    BY <1>2, SeqDef
  <2>. QED BY <2>1
<1>3. << >> \in [1..0 -> {}] /\ IsInjective(<< >>)
  BY DEF IsInjective
<1>. QED BY <1>1, <1>2, <1>3 DEF SetToSeq

(* At most one row is in force, so it says the price.                         *)
LEMMA PriceInForce ==
  ASSUME NEW R, Dated(R), NEW history \in Seq(R), NEW m, NEW day \in Days,
         NEW i \in InForce(history, m, day)
  PROVE  PriceAt(history, m, day) = history[i].amount
<1>1. \A j \in DOMAIN history : j \in Nat /\ history[j].from \in Int
  BY RowsType
<1>2. ASSUME NEW j \in InForce(history, m, day) PROVE j = i
  BY <1>1, <1>2 DEF InForce, Started
<1>. QED BY <1>2 DEF PriceAt

(* What is added is in force from its date on, up to the first later date.    *)
Takes(history, m, day, M, from) ==
  /\ m \in M /\ from <= day
  /\ \A i \in Started(history, m, day) : history[i].from <= from

LEMMA AddedRows ==
  ASSUME NEW R, NEW history \in Seq(R), NEW added \in Seq(R), NEW f, NEW M, NEW from \in Days,
         Dated(R), OneFor(added, f, M, from)
  PROVE  LET after == history \o added
         IN  /\ after \in Seq(R)
             /\ \A i \in DOMAIN history : i \in DOMAIN after /\ after[i] = history[i]
             /\ \A i \in DOMAIN after \ DOMAIN history :
                  /\ after[i].months \in M /\ after[i] = f[after[i].months]
                  /\ \A j \in DOMAIN history : j < i
             /\ \A i, j \in DOMAIN after \ DOMAIN history :
                  after[i].months = after[j].months => i = j
             /\ \A m \in M : \E i \in DOMAIN after \ DOMAIN history : after[i] = f[m]
<1>. DEFINE after == history \o added
            n == Len(history)
<1>1. /\ after \in Seq(R) /\ Len(after) = n + Len(added)
      /\ \A i \in 1..(n + Len(added)) : after[i] = IF i <= n THEN history[i] ELSE added[i - n]
  BY ConcatProperties
<1>2. /\ DOMAIN history = 1..n /\ n \in Nat
      /\ DOMAIN added = 1..Len(added) /\ Len(added) \in Nat
      /\ DOMAIN after = 1..(n + Len(added))
  BY <1>1, RowsType
<1>. HIDE DEF after, n
<1>3. \A i \in DOMAIN history : i \in DOMAIN after /\ after[i] = history[i]
  BY <1>1, <1>2
<1>4. ASSUME NEW i \in DOMAIN after \ DOMAIN history
      PROVE  /\ i - n \in DOMAIN added /\ after[i] = added[i - n]
             /\ \A j \in DOMAIN history : j < i
  BY <1>1, <1>2
<1>5. ASSUME NEW k \in DOMAIN added
      PROVE  n + k \in DOMAIN after \ DOMAIN history /\ after[n + k] = added[k]
  <2>1. /\ n + k \in 1..(n + Len(added)) /\ n + k \notin 1..n
        /\ ~(n + k <= n) /\ (n + k) - n = k
    BY <1>2
  <2>. QED BY <2>1, <1>1, <1>2
<1>6. \A i \in DOMAIN after \ DOMAIN history :
        after[i].months \in M /\ after[i] = f[after[i].months]
  BY <1>4 DEF OneFor
<1>7. ASSUME NEW i \in DOMAIN after \ DOMAIN history, NEW j \in DOMAIN after \ DOMAIN history,
             after[i].months = after[j].months
      PROVE  i = j
  <2>1. i - n = j - n
    BY <1>4, <1>7 DEF OneFor
  <2>. QED BY <2>1, <1>2
<1>8. \A m \in M : \E i \in DOMAIN after \ DOMAIN history : after[i] = f[m]
  BY <1>5 DEF OneFor
<1>. QED BY <1>1, <1>3, <1>4, <1>6, <1>7, <1>8 DEF after

LEMMA ForceOfAdded ==
  ASSUME NEW R, NEW history \in Seq(R), NEW added \in Seq(R), NEW f, NEW M, NEW from \in Days,
         Dated(R), OneFor(added, f, M, from), NEW m \in Months, NEW day \in Days
  PROVE  /\ Takes(history, m, day, M, from) =>
              \A i \in InForce(history \o added, m, day) : (history \o added)[i] = f[m]
         /\ Takes(history, m, day, M, from) => InForce(history \o added, m, day) # {}
         /\ ~Takes(history, m, day, M, from) =>
              InForce(history \o added, m, day) = InForce(history, m, day)
<1>. DEFINE after == history \o added
            old == DOMAIN history
            fresh == DOMAIN after \ old
<1>1. /\ after \in Seq(R)
      /\ \A i \in old : i \in DOMAIN after /\ after[i] = history[i]
      /\ \A i \in fresh : /\ after[i].months \in M /\ after[i] = f[after[i].months]
                          /\ \A j \in old : j < i
      /\ \A i, j \in fresh : after[i].months = after[j].months => i = j
      /\ \A k \in M : \E i \in fresh : after[i] = f[k]
  BY AddedRows
<1>. HIDE DEF after
<1>2. /\ \A i \in DOMAIN after : i \in Nat /\ after[i].from \in Int
      /\ \A i \in old : i \in Nat /\ history[i].from \in Int
      /\ from \in Int /\ day \in Int
  BY <1>1, RowsType, DaysAreIntegers
<1>3. \A k \in M : f[k].months = k /\ f[k].from = from
  BY DEF OneFor
<1>4. \A i \in fresh : after[i].from = from
  BY <1>1, <1>3
<1>5. Started(history, m, day) = Started(after, m, day) \ fresh
  BY <1>1 DEF Started
<1>6. \A i \in Started(history, m, day) : i \in old /\ after[i] = history[i]
  BY <1>1 DEF Started
<1>7. CASE Takes(history, m, day, M, from)
  <2>1. PICK i \in fresh : after[i] = f[m]
    BY <1>1, <1>7 DEF Takes
  <2>2. i \in Started(after, m, day) /\ after[i].from = from
    BY <2>1, <1>3, <1>4, <1>7 DEF Takes, Started
  <2>3. \A j \in Started(after, m, day) :
          j = i \/ (j \in old /\ j < i /\ after[j].from <= from)
    <3>1. \A j \in Started(after, m, day) \cap fresh : j = i
      BY <1>1, <1>3, <1>7, <2>1 DEF Started, Takes
    <3>2. \A j \in Started(history, m, day) : j \in old /\ j < i /\ after[j].from <= from
      BY <1>1, <1>6, <1>7, <2>1 DEF Takes
    <3>. QED BY <1>5, <3>1, <3>2
  <2>4. i \in InForce(after, m, day)
    BY <2>2, <2>3, <1>2 DEF InForce, Started
  <2>5. ASSUME NEW j \in InForce(after, m, day) PROVE j = i
    BY <2>2, <2>3, <2>5, <1>2 DEF InForce, Started
  <2>. QED BY <1>7, <2>1, <2>4, <2>5 DEF after
<1>8. CASE ~Takes(history, m, day, M, from)
  <2>1. CASE Started(after, m, day) \cap fresh = {}
    <3>1. Started(after, m, day) = Started(history, m, day)
      BY <1>5, <2>1
    <3>2. InForce(after, m, day) = InForce(history, m, day)
      BY <3>1, <1>6 DEF InForce
    <3>. QED BY <1>8, <3>2 DEF after
  <2>2. CASE Started(after, m, day) \cap fresh # {}
    <3>1. m \in M /\ from <= day
      BY <1>1, <1>4, <2>2 DEF Started
    <3>2. PICK j \in Started(history, m, day) : from < history[j].from
      BY <1>2, <1>6, <1>8, <3>1 DEF Takes
    <3>3. j \in Started(after, m, day) /\ after[j].from > from
      BY <3>2, <1>5, <1>6
    <3>4. \A i \in Started(after, m, day) \cap fresh : i \notin InForce(after, m, day)
      <4>1. \A i \in Started(after, m, day) \cap fresh :
              ~(after[j].from < after[i].from) /\ after[j].from # after[i].from
        BY <3>2, <3>3, <1>2, <1>4, <1>6
      <4>. QED BY <4>1, <3>3 DEF InForce
    <3>5. ASSUME NEW i \in InForce(history, m, day) PROVE i \in InForce(after, m, day)
      <4>1. i \in Started(history, m, day) /\ history[j].from <= history[i].from
        BY <3>2, <1>2, <1>6 DEF InForce
      <4>2. \A k \in Started(after, m, day) \cap fresh : after[k].from < after[i].from
        BY <4>1, <3>2, <1>2, <1>4, <1>6
      <4>. QED BY <4>1, <4>2, <1>5, <1>6 DEF InForce
    <3>6. ASSUME NEW i \in InForce(after, m, day) PROVE i \in InForce(history, m, day)
      <4>1. i \in Started(history, m, day)
        BY <3>4, <1>5 DEF InForce
      <4>. QED BY <4>1, <1>5, <1>6 DEF InForce
    <3>7. InForce(after, m, day) = InForce(history, m, day)
      BY <3>5, <3>6
    <3>. QED BY <1>8, <3>7 DEF after
  <2>. QED BY <2>1, <2>2
<1>. QED BY <1>7, <1>8

(* So it is the price, and no other price changes.                            *)
LEMMA PriceOfAdded ==
  ASSUME NEW R, NEW history \in Seq(R), NEW added \in Seq(R), NEW f, NEW M, NEW from \in Days,
         Dated(R), OneFor(added, f, M, from), NEW m \in Months, NEW day \in Days
  PROVE  PriceAt(history \o added, m, day) =
           IF Takes(history, m, day, M, from) THEN f[m].amount ELSE PriceAt(history, m, day)
<1>. DEFINE after == history \o added
<1>1. /\ after \in Seq(R)
      /\ \A i \in DOMAIN history : i \in DOMAIN after /\ after[i] = history[i]
  BY AddedRows
<1>2. /\ Takes(history, m, day, M, from) =>
           \A i \in InForce(after, m, day) : after[i] = f[m]
      /\ Takes(history, m, day, M, from) => InForce(after, m, day) # {}
      /\ ~Takes(history, m, day, M, from) =>
           InForce(after, m, day) = InForce(history, m, day)
  BY ForceOfAdded, ZenonT(60)
<1>. HIDE DEF after
<1>3. CASE Takes(history, m, day, M, from)
  <2>1. PICK i \in InForce(after, m, day) : after[i] = f[m]
    BY <1>2, <1>3
  <2>2. PriceAt(after, m, day) = f[m].amount
    BY <1>1, <2>1, PriceInForce
  <2>. QED BY <1>3, <2>2 DEF after
<1>4. CASE ~Takes(history, m, day, M, from)
  <2>1. \A i \in InForce(history, m, day) : after[i] = history[i]
    BY <1>1 DEF InForce, Started
  <2>2. PriceAt(after, m, day) = PriceAt(history, m, day)
    BY <1>2, <1>4, <2>1 DEF PriceAt
  <2>. QED BY <1>4, <2>2 DEF after
<1>. QED BY <1>3, <1>4

(* A price that is in force on a day is so until another one takes effect.    *)
LEMMA StillInForce ==
  ASSUME NEW history \in Seq(PriceRow), NEW m \in Months,
         NEW from \in Days, NEW day \in Days, from <= day,
         \A i \in Started(history, m, day) : history[i].from <= from
  PROVE  PriceAt(history, m, day) = PriceAt(history, m, from)
<1>1. \A i \in DOMAIN history : history[i].from \in Int
  BY RowsType, DatedRows
<1>2. Started(history, m, day) = Started(history, m, from)
  BY <1>1, GridAssumption DEF Started, Days
<1>. QED BY <1>2 DEF PriceAt, InForce

(* What a sheet adds to rows, and to the history of the entries.              *)
LEMMA RowsOfSheet ==
  ASSUME NEW history \in Seq(PriceRow), NEW sheet \in Sheets, NEW from \in Days
  PROVE  \E added \in Seq(PriceRow), f \in [New(history, sheet, from) -> PriceRow] :
           /\ Entered(history, sheet, from) = history \o added
           /\ OneFor(added, f, New(history, sheet, from), from)
           /\ \A m \in New(history, sheet, from) : f[m].amount = sheet[m]
<1>. DEFINE M == New(history, sheet, from)
            f == [m \in M |-> [months |-> m, from |-> from, amount |-> sheet[m]]]
            S == {[months |-> m, from |-> from, amount |-> sheet[m]] : m \in M}
<1>1. M \in SUBSET Months /\ \A m \in M : sheet[m] \in Amounts
  BY DEF New, Priced, Sheets
<1>2. f \in [M -> PriceRow] /\ \A m \in M : f[m].months = m /\ f[m].from = from
  BY <1>1 DEF PriceRow
<1>3. S = {f[m] : m \in M} /\ \A m \in M : f[m].amount = sheet[m]
  OBVIOUS
<1>. HIDE DEF M, f, S
<1>4. SetToSeq(S) \in Seq(PriceRow) /\ OneFor(SetToSeq(S), f, M, from)
  BY <1>1, <1>2, <1>3, AddsOneFor
<1>5. Entered(history, sheet, from) = history \o SetToSeq(S)
  BY DEF Entered, S, M
<1>. QED BY <1>2, <1>3, <1>4, <1>5 DEF M

LEMMA EntriesOfSheet ==
  ASSUME NEW sheet \in Sheets, NEW from \in Days
  PROVE  \E added \in Seq(EntryRow), f \in [Priced(sheet) -> EntryRow] :
           /\ Noted(sheet, from) = entries \o added
           /\ OneFor(added, f, Priced(sheet), from)
           /\ \A m \in Priced(sheet) : /\ f[m].amount = sheet[m]
                                       /\ f[m].written <=> m \in New(rows, sheet, from)
<1>. DEFINE M == Priced(sheet)
            f == [m \in M |-> [months |-> m, from |-> from, amount |-> sheet[m],
                               written |-> m \in New(rows, sheet, from)]]
            S == {[months |-> m, from |-> from, amount |-> sheet[m],
                   written |-> m \in New(rows, sheet, from)] : m \in M}
<1>1. M \in SUBSET Months /\ \A m \in M : sheet[m] \in Amounts
  BY DEF Priced, Sheets
<1>2. f \in [M -> EntryRow] /\ \A m \in M : f[m].months = m /\ f[m].from = from
  BY <1>1 DEF EntryRow
<1>3. /\ S = {f[m] : m \in M}
      /\ \A m \in M : /\ f[m].amount = sheet[m]
                      /\ f[m].written <=> m \in New(rows, sheet, from)
  OBVIOUS
<1>. HIDE DEF M, f, S
<1>4. SetToSeq(S) \in Seq(EntryRow) /\ OneFor(SetToSeq(S), f, M, from)
  BY <1>1, <1>2, <1>3, AddsOneFor
<1>5. Noted(sheet, from) = entries \o SetToSeq(S)
  BY DEF Noted, S, M
<1>. QED BY <1>2, <1>3, <1>4, <1>5 DEF M

(* What is played again finds nothing to write.                               *)
LEMMA PlayedAgain ==
  ASSUME rows \in Seq(PriceRow), NEW m \in Months, NEW amount \in Amounts, NEW from \in Days
  PROVE  LET sheet == [k \in {m} |-> amount]
             after == Entered(rows, sheet, from)
         IN  Entered(after, sheet, from) = after
<1>. DEFINE sheet == [k \in {m} |-> amount]
            after == Entered(rows, sheet, from)
<1>1. sheet \in Sheets /\ Priced(sheet) = {m} /\ sheet[m] = amount
  <2>1. {m} \in SUBSET Months /\ sheet \in [{m} -> Amounts \cup {EmptyCell}]
    OBVIOUS
  <2>2. sheet \in Sheets
    BY <2>1 DEF Sheets
  <2>3. Priced(sheet) = {m} /\ sheet[m] = amount
    BY GridAssumption DEF Priced
  <2>. QED BY <2>2, <2>3
<1>. HIDE DEF sheet
<1>2. PICK added \in Seq(PriceRow), f \in [New(rows, sheet, from) -> PriceRow] :
        /\ after = rows \o added
        /\ OneFor(added, f, New(rows, sheet, from), from)
        /\ \A k \in New(rows, sheet, from) : f[k].amount = sheet[k]
  BY <1>1, RowsOfSheet
<1>3. after \in Seq(PriceRow)
  BY <1>2, ConcatProperties
<1>4. from <= from /\ \A i \in Started(rows, m, from) : rows[i].from <= from
  BY DaysAreIntegers DEF Started
<1>5. PriceAt(after, m, from) = amount
  <2>1. PriceAt(after, m, from) =
          IF Takes(rows, m, from, New(rows, sheet, from), from)
            THEN f[m].amount ELSE PriceAt(rows, m, from)
    BY <1>2, DatedRows, PriceOfAdded
  <2>2. Takes(rows, m, from, New(rows, sheet, from), from) <=> m \in New(rows, sheet, from)
    BY <1>4 DEF Takes
  <2>3. m \in New(rows, sheet, from) <=> PriceAt(rows, m, from) # amount
    BY <1>1 DEF New
  <2>. QED BY <2>1, <2>2, <2>3, <1>1, <1>2
<1>6. New(after, sheet, from) = {}
  BY <1>1, <1>5 DEF New
<1>7. Entered(after, sheet, from) = after \o << >>
  <2>1. {[months |-> k, from |-> from, amount |-> sheet[k]] : k \in New(after, sheet, from)} = {}
    BY <1>6
  <2>. QED BY <2>1, NothingInOrder DEF Entered
<1>. QED BY <1>3, <1>7, ConcatEmptySeq DEF sheet

LEMMA EntryHolds == GridInv => EnteredPriceHolds
<1>. SUFFICES ASSUME GridInv PROVE EnteredPriceHolds
  OBVIOUS
<1>1. \A i \in DOMAIN entries : i \in Nat /\ entries[i] \in EntryRow /\ entries[i].from \in Int
  BY RowsType, DatedRows DEF GridInv
<1>2. ASSUME NEW i \in DOMAIN entries, NEW day \in Days,
             entries[i].from <= day, ~Replaced(i, day)
      PROVE  \/ PriceAt(rows, entries[i].months, day) = entries[i].amount
             \/ Overtaken(i, PriceAt(rows, entries[i].months, day))
  <2>1. entries[i].months \in Months
    BY <1>1 DEF EntryRow
  <2>2. i \in InForce(entries, entries[i].months, day)
    BY <1>1, <1>2 DEF Replaced, InForce, Started
  <2>. QED BY <2>1, <2>2 DEF GridInv, EntryInForceHolds
<1>3. ASSUME NEW m \in Months, NEW day \in Days, Started(entries, m, day) = {}
      PROVE  PriceAt(rows, m, day) = EmptyCell
  <2>1. Started(rows, m, day) = {}
    BY <1>3 DEF GridInv, RowWasEntered, Started
  <2>. QED BY <2>1 DEF PriceAt, InForce
<1>4. ASSUME NEW m \in Months, NEW amount \in Amounts, NEW from \in Days
      PROVE  LET sheet == [k \in {m} |-> amount]
                 after == Entered(rows, sheet, from)
             IN  Entered(after, sheet, from) = after
  BY PlayedAgain DEF GridInv
<1>. QED BY <1>2, <1>3, <1>4 DEF EnteredPriceHolds

LEMMA GridStart == GridInit => GridInv
  BY DEF GridInit, GridInv, RowWasEntered, WrittenIsRow, EntryInForceHolds, InForce, Started

(* A sheet that is applied. On a day where it takes, it gives the price; on   *)
(* a day with a later date, only an unwritten entry can lose its price to it. *)
LEMMA SheetStep ==
  ASSUME GridInv, NEW sheet \in Sheets, NEW from \in Days,
         rows' = Entered(rows, sheet, from), entries' = Noted(sheet, from)
  PROVE  GridInv'
<1>. DEFINE M == Priced(sheet)
            N == New(rows, sheet, from)
<1>0. rows \in Seq(PriceRow)
  BY DEF GridInv
<1>1. PICK added \in Seq(PriceRow), f \in [N -> PriceRow] :
        /\ rows' = rows \o added /\ OneFor(added, f, N, from)
        /\ \A m \in N : f[m].amount = sheet[m]
  <2>1. \E added \in Seq(PriceRow), f \in [New(rows, sheet, from) -> PriceRow] :
          /\ Entered(rows, sheet, from) = rows \o added
          /\ OneFor(added, f, New(rows, sheet, from), from)
          /\ \A m \in New(rows, sheet, from) : f[m].amount = sheet[m]
    BY ONLY <1>0, RowsOfSheet, sheet \in Sheets, from \in Days
  <2>. QED BY <2>1
<1>2. PICK noted \in Seq(EntryRow), g \in [M -> EntryRow] :
        /\ entries' = entries \o noted /\ OneFor(noted, g, M, from)
        /\ \A m \in M : g[m].amount = sheet[m] /\ (g[m].written <=> m \in N)
  BY EntriesOfSheet
<1>3. /\ rows \in Seq(PriceRow) /\ entries \in Seq(EntryRow)
      /\ Dated(PriceRow) /\ Dated(EntryRow)
  BY DatedRows DEF GridInv
<1>4. /\ N \subseteq M /\ M \subseteq Months
      /\ \A m \in M : m \notin N => PriceAt(rows, m, from) = sheet[m]
  BY DEF New, Priced, Sheets
<1>. HIDE DEF M, N
<1>5. /\ rows' \in Seq(PriceRow)
      /\ \A i \in DOMAIN rows : i \in DOMAIN rows' /\ rows'[i] = rows[i]
      /\ \A i \in DOMAIN rows' \ DOMAIN rows :
           rows'[i].months \in N /\ rows'[i] = f[rows'[i].months]
      /\ \A m \in N : \E i \in DOMAIN rows' : rows'[i] = f[m]
  BY ONLY <1>1, <1>3, AddedRows, added \in Seq(PriceRow), from \in Days
<1>6. /\ entries' \in Seq(EntryRow)
      /\ \A i \in DOMAIN entries : i \in DOMAIN entries' /\ entries'[i] = entries[i]
      /\ \A i \in DOMAIN entries' \ DOMAIN entries :
           /\ entries'[i].months \in M /\ entries'[i] = g[entries'[i].months]
           /\ \A j \in DOMAIN entries : j < i
      /\ \A m \in M : \E i \in DOMAIN entries' \ DOMAIN entries : entries'[i] = g[m]
  <2>. DEFINE after == entries \o noted
  <2>1. /\ after \in Seq(EntryRow)
        /\ \A i \in DOMAIN entries : i \in DOMAIN after /\ after[i] = entries[i]
        /\ \A i \in DOMAIN after \ DOMAIN entries :
             /\ after[i].months \in M /\ after[i] = g[after[i].months]
             /\ \A j \in DOMAIN entries : j < i
        /\ \A m \in M : \E i \in DOMAIN after \ DOMAIN entries : after[i] = g[m]
    <3>1. OneFor(noted, g, M, from)
      BY <1>2
    <3>. QED BY ONLY <1>3, <3>1, AddedRows, noted \in Seq(EntryRow), from \in Days
  <2>2. entries' = after
    BY <1>2
  <2>. QED BY ONLY <2>1, <2>2
<1>7. /\ \A m \in N : f[m].months = m /\ f[m].from = from
      /\ \A m \in M : g[m].months = m /\ g[m].from = from
  BY <1>1, <1>2 DEF OneFor
<1>8. RowWasEntered'
  <2>1. ASSUME NEW i \in DOMAIN rows'
        PROVE  \E j \in DOMAIN entries' : /\ entries'[j].months = rows'[i].months
                                          /\ entries'[j].from = rows'[i].from
    <3>1. CASE i \in DOMAIN rows
      <4>1. PICK j \in DOMAIN entries : /\ entries[j].months = rows[i].months
                                        /\ entries[j].from = rows[i].from
        BY <3>1 DEF GridInv, RowWasEntered
      <4>2. rows'[i] = rows[i] /\ j \in DOMAIN entries' /\ entries'[j] = entries[j]
        BY <3>1, <1>5, <1>6
      <4>. QED BY <4>1, <4>2
    <3>2. CASE i \notin DOMAIN rows
      <4>1. rows'[i].months \in N /\ rows'[i] = f[rows'[i].months]
        BY <3>2, <1>5
      <4>2. PICK j \in DOMAIN entries' : entries'[j] = g[rows'[i].months]
        BY <4>1, <1>4, <1>6
      <4>. QED BY <4>1, <4>2, <1>4, <1>7
    <3>. QED BY <3>1, <3>2
  <2>. QED BY <2>1 DEF RowWasEntered
<1>9. WrittenIsRow'
  <2>1. ASSUME NEW j \in DOMAIN entries', entries'[j].written
        PROVE  \E i \in DOMAIN rows' : /\ rows'[i].months = entries'[j].months
                                       /\ rows'[i].from = entries'[j].from
    <3>1. CASE j \in DOMAIN entries
      <4>1. PICK i \in DOMAIN rows : /\ rows[i].months = entries[j].months
                                     /\ rows[i].from = entries[j].from
        BY <2>1, <3>1, <1>6 DEF GridInv, WrittenIsRow
      <4>2. entries'[j] = entries[j] /\ i \in DOMAIN rows' /\ rows'[i] = rows[i]
        BY <3>1, <1>5, <1>6
      <4>. QED BY <4>1, <4>2
    <3>2. CASE j \notin DOMAIN entries
      <4>1. entries'[j].months \in M /\ entries'[j] = g[entries'[j].months]
        BY <3>2, <1>6
      <4>2. entries'[j].months \in N
        BY <2>1, <4>1, <1>2
      <4>3. PICK i \in DOMAIN rows' : rows'[i] = f[entries'[j].months]
        BY <4>2, <1>5
      <4>. QED BY <4>1, <4>2, <4>3, <1>7
    <3>. QED BY <3>1, <3>2
  <2>. QED BY <2>1 DEF WrittenIsRow
<1>10. EntryInForceHolds'
  <2>. SUFFICES ASSUME NEW m \in Months, NEW day \in Days, NEW i \in InForce(entries, m, day)'
                PROVE  \/ PriceAt(rows, m, day)' = entries'[i].amount
                       \/ Overtaken(i, PriceAt(rows, m, day))'
    BY DEF EntryInForceHolds
  <2>. DEFINE price == PriceAt(rows', m, day)
  <2>1. price = IF Takes(rows, m, day, N, from) THEN sheet[m] ELSE PriceAt(rows, m, day)
    <3>1. price = IF Takes(rows, m, day, N, from) THEN f[m].amount ELSE PriceAt(rows, m, day)
      BY <1>1, <1>3, PriceOfAdded
    <3>. QED BY <3>1, <1>1 DEF Takes
  <2>2. /\ Takes(entries, m, day, M, from) =>
             \A k \in InForce(entries', m, day) : entries'[k] = g[m]
        /\ ~Takes(entries, m, day, M, from) =>
             InForce(entries', m, day) = InForce(entries, m, day)
    <3>1. OneFor(noted, g, M, from) /\ entries \in Seq(EntryRow) /\ Dated(EntryRow)
      BY <1>2, <1>3
    <3>2. /\ Takes(entries, m, day, M, from) =>
               \A k \in InForce(entries \o noted, m, day) : (entries \o noted)[k] = g[m]
          /\ Takes(entries, m, day, M, from) => InForce(entries \o noted, m, day) # {}
          /\ ~Takes(entries, m, day, M, from) =>
               InForce(entries \o noted, m, day) = InForce(entries, m, day)
      BY <3>1, ForceOfAdded, ZenonT(60)
    <3>3. entries' = entries \o noted
      BY <1>2
    <3>. QED BY ONLY <3>2, <3>3
  <2>3. i \in InForce(entries', m, day)
    OBVIOUS
  <2>4. \A k \in Started(rows, m, day) :
          \E j \in Started(entries, m, day) : entries[j].from = rows[k].from
    BY DEF GridInv, RowWasEntered, Started
  <2>. HIDE DEF price
  <2>5. CASE Takes(entries, m, day, M, from)
    <3>1. entries'[i].amount = sheet[m] /\ m \in M
      BY <2>2, <2>3, <2>5, <1>2 DEF Takes
    <3>2. from <= day /\ \A k \in Started(rows, m, day) : rows[k].from <= from
      BY <2>4, <2>5 DEF Takes
    <3>3. CASE m \in N
      BY <3>1, <3>2, <3>3, <2>1 DEF Takes, price
    <3>4. CASE m \notin N
      <4>1. price = PriceAt(rows, m, day)
        BY <3>4, <2>1 DEF Takes
      <4>2. PriceAt(rows, m, day) = PriceAt(rows, m, from)
        BY <3>2, <1>3, StillInForce
      <4>. QED BY <4>1, <4>2, <3>1, <3>4, <1>4 DEF price
    <3>. QED BY <3>3, <3>4
  <2>6. CASE ~Takes(entries, m, day, M, from)
    <3>1. i \in InForce(entries, m, day) /\ i \in DOMAIN entries /\ entries'[i] = entries[i]
      BY <2>2, <2>3, <2>6, <1>6 DEF InForce, Started
    <3>2. CASE ~Takes(rows, m, day, N, from)
      <4>1. price = PriceAt(rows, m, day)
        BY <3>2, <2>1
      <4>2. \/ PriceAt(rows, m, day) = entries[i].amount
            \/ Overtaken(i, PriceAt(rows, m, day))
        BY <3>1 DEF GridInv, EntryInForceHolds
      <4>3. Overtaken(i, PriceAt(rows, m, day)) => Overtaken(i, PriceAt(rows, m, day))'
        BY <4>1, <3>1, <1>6 DEF Overtaken, price
      <4>. QED BY <4>1, <4>2, <4>3, <3>1 DEF price
    <3>3. CASE Takes(rows, m, day, N, from)
      <4>1. m \in N /\ m \in M /\ from <= day /\ price = sheet[m]
        BY <3>3, <2>1, <1>4 DEF Takes
      <4>2. /\ \A j \in DOMAIN entries : entries[j].from \in Int
            /\ from \in Int
        BY <1>3, RowsType, DaysAreIntegers
      <4>3. PICK j \in Started(entries, m, day) : from < entries[j].from
        BY <4>1, <4>2, <2>6 DEF Takes, Started
      <4>4. from < entries[i].from /\ entries[i].months = m /\ entries[i].from <= day
        BY <4>2, <4>3, <3>1 DEF InForce, Started
      <4>5. ~entries[i].written
        <5>1. SUFFICES ASSUME entries[i].written PROVE FALSE
          OBVIOUS
        <5>2. PICK k \in DOMAIN rows : /\ rows[k].months = m
                                       /\ rows[k].from = entries[i].from
          BY <5>1, <4>4, <3>1 DEF GridInv, WrittenIsRow
        <5>3. k \in Started(rows, m, day)
          BY <5>2, <4>4 DEF Started
        <5>. QED BY <5>2, <5>3, <4>2, <4>4, <3>1, <3>3 DEF Takes
      <4>6. PICK n \in DOMAIN entries' \ DOMAIN entries : entries'[n] = g[m]
        BY <4>1, <1>6
      <4>7. /\ n > i /\ entries'[n].months = m /\ entries'[n].from = from
            /\ entries'[n].amount = price
        BY <4>1, <4>6, <3>1, <1>2, <1>3, <1>6, <1>7, RowsType
      <4>8. Overtaken(i, PriceAt(rows, m, day))'
        BY <4>4, <4>5, <4>6, <4>7, <3>1 DEF Overtaken, price
      <4>. QED BY <4>8 DEF price
    <3>. QED BY <3>2, <3>3
  <2>. QED BY <2>5, <2>6
<1>. QED BY <1>5, <1>6, <1>8, <1>9, <1>10 DEF GridInv

LEMMA GridStep == GridInv /\ [GridNext]_gridVars => GridInv'
<1>. SUFFICES ASSUME GridInv, [GridNext]_gridVars PROVE GridInv'
  OBVIOUS
<1>1. ASSUME NEW sheet \in Sheets, NEW from \in Days,
             SetPrices(sheet, from) \/ ImportCsv(sheet, from)
      PROVE  GridInv'
  <2>1. rows' = Entered(rows, sheet, from) /\ entries' = Noted(sheet, from)
    BY <1>1 DEF SetPrices, ImportCsv, Apply
  <2>. QED BY <2>1, SheetStep
<1>2. ASSUME UNCHANGED <<rows, entries>> PROVE GridInv'
  BY <1>2 DEF GridInv, RowWasEntered, WrittenIsRow, EntryInForceHolds, Overtaken
<1>. QED BY <1>1, <1>2 DEF GridNext, Archive, Midnight, gridVars

(* In every state of a grid of any size: on each day the price is the last    *)
(* one entered for the latest date, or, if that one was in force when it was  *)
(* entered, one entered since with an earlier date.                           *)
THEOREM EnteredPricesHold == GridSpec => []EnteredPriceHolds
<1>. QED BY GridStart, GridStep, EntryHolds, PTL DEF GridSpec
--------------------------------------------------------------------------------
(* The templates. Whatever becomes of the library and of the template, a      *)
(* contract and the version it comes from keep the same texts.                *)

Edition == [body : UNION {[K -> Texts] : K \in SUBSET (Items \cup {Corps})},
            pinned : Compositions, declared : SUBSET Special, fixed : BOOLEAN]

(* A contract was copied from a version that no editor reaches any more.      *)
TemplatesInv ==
  /\ editions \in Seq(Edition) /\ editions # << >>
  /\ \A c \in issued : /\ c.edition \in DOMAIN editions /\ editions[c.edition].fixed
                       /\ c.clauses = Copied(editions[c.edition])

LEMMA BlankEdition ==
  /\ Blank \in Edition
  /\ \A text \in Texts : Free(text) \in [{Corps} -> Texts]
<1>1. Empty \in [{} -> Texts]
  BY DEF Empty
<1>2. Blank \in Edition
  BY <1>1 DEF Blank, Edition, Compositions
<1>. QED BY <1>2 DEF Free

LEMMA TemplatesStart == TemplatesInit => TemplatesInv
  BY BlankEdition DEF TemplatesInit, TemplatesInv

(* A step that leaves the fixed versions as they are keeps the invariant.     *)
LEMMA FixedKept ==
  ASSUME TemplatesInv, editions' \in Seq(Edition), Len(editions') >= Len(editions),
         \A e \in DOMAIN editions : editions[e].fixed =>
           editions'[e].fixed /\ Copied(editions'[e]) = Copied(editions[e]),
         issued' = issued
  PROVE  TemplatesInv'
<1>1. /\ Len(editions) \in Nat /\ DOMAIN editions = 1..Len(editions)
      /\ Len(editions') \in Nat /\ DOMAIN editions' = 1..Len(editions')
      /\ Len(editions) > 0
  BY EmptySeq DEF TemplatesInv
<1>2. DOMAIN editions \subseteq DOMAIN editions' /\ editions' # << >>
  BY <1>1
<1>. QED BY <1>2 DEF TemplatesInv

LEMMA TemplatesStep == TemplatesInv /\ [TemplatesNext]_templateVars => TemplatesInv'
<1>. SUFFICES ASSUME TemplatesInv, [TemplatesNext]_templateVars PROVE TemplatesInv'
  OBVIOUS
<1>0. /\ editions \in Seq(Edition) /\ Len(editions) \in Nat /\ Current \in DOMAIN editions
      /\ DOMAIN editions = 1..Len(editions)
  BY EmptySeq DEF TemplatesInv, Current
<1>1. ASSUME NEW w \in Edition, editions' = [editions EXCEPT ![Current] = w],
             ~editions[Current].fixed \/ (w.fixed /\ Copied(w) = Copied(editions[Current])),
             issued' = issued
      PROVE  TemplatesInv'
  <2>1. /\ editions' \in Seq(Edition) /\ Len(editions') = Len(editions)
        /\ \A e \in DOMAIN editions :
             editions'[e] = IF e = Current THEN w ELSE editions[e]
    BY <1>0, <1>1, ExceptSeq
  <2>. QED BY <1>0, <1>1, <2>1, FixedKept
<1>2. editions[Current] \in Edition
  BY <1>0, ElementOfSeq
<1>3. ASSUME NEW text \in Texts, SaveTemplate(text) PROVE TemplatesInv'
  <2>. DEFINE written(edition) ==
                [edition EXCEPT !.body = Free(text), !.declared = {text} \cap Special]
  <2>1. \A edition \in Edition :
          written(edition) \in Edition /\ written(edition).fixed = edition.fixed
    BY BlankEdition DEF Edition
  <2>2. CASE ~editions[Current].fixed
    <3>1. /\ editions' = [editions EXCEPT ![Current] = written(editions[Current])]
          /\ issued' = issued
      BY <1>3, <2>2 DEF SaveTemplate, InPlace
    <3>. QED BY <1>1, <1>2, <2>1, <2>2, <3>1
  <2>3. CASE editions[Current].fixed
    <3>1. editions' = Append(editions, written(Blank)) /\ issued' = issued
      BY <1>3, <2>3 DEF SaveTemplate, InPlace
    <3>2. written(Blank) \in Edition
      BY <2>1, BlankEdition
    <3>3. /\ editions' \in Seq(Edition) /\ Len(editions') = Len(editions) + 1
          /\ \A e \in DOMAIN editions : editions'[e] = editions[e]
      BY <1>0, <3>1, <3>2, AppendProperties
    <3>. QED BY <1>0, <3>1, <3>3, FixedKept
  <2>. QED BY <2>2, <2>3
<1>4. ASSUME NEW pins \in Compositions, ComposeTemplate(pins) PROVE TemplatesInv'
  <2>1. [editions[Current] EXCEPT !.pinned = pins, !.body = pins] \in Edition
    <3>1. pins \in UNION {[K -> Texts] : K \in SUBSET (Items \cup {Corps})}
      BY DEF Compositions
    <3>. QED BY <1>2, <3>1 DEF Edition
  <2>2. editions' = [editions EXCEPT ![Current] =
                       [editions[Current] EXCEPT !.pinned = pins, !.body = pins]]
    BY <1>0, <1>4 DEF ComposeTemplate
  <2>. QED BY <1>1, <1>4, <2>1, <2>2 DEF ComposeTemplate
<1>5. CASE PublishTemplate
  <2>. DEFINE w == [editions[Current] EXCEPT !.fixed = TRUE]
  <2>1. w \in Edition /\ w.fixed /\ Copied(w) = Copied(editions[Current])
    BY <1>2 DEF Edition, Copied
  <2>2. editions' = [editions EXCEPT ![Current] = w] /\ issued' = issued
    BY <1>0, <1>5 DEF PublishTemplate
  <2>. QED BY <1>1, <2>1, <2>2
<1>6. ASSUME NEW e \in DOMAIN editions, IssueContract(e) PROVE TemplatesInv'
  BY <1>6 DEF IssueContract, TemplatesInv
<1>7. CASE UNCHANGED <<editions, issued>>
  BY <1>7 DEF TemplatesInv
<1>. QED BY <1>3, <1>4, <1>5, <1>6, <1>7
         DEF TemplatesNext, AddClauseText, ArchiveClause, DeprecateTemplate, templateVars

(* A contract has the texts that the version it points to still has, for any  *)
(* library, any templates and any order of composing, publishing and issuing. *)
THEOREM IssuedHasItsTexts == TemplatesSpec => []IssuedAsPublished
<1>1. TemplatesInv => IssuedAsPublished
  <2>. SUFFICES ASSUME TemplatesInv, NEW c \in issued
                PROVE  /\ c.clauses = Copied(editions[c.edition])
                       /\ Reworded(editions[c.edition], c.clauses) = {}
    BY DEF IssuedAsPublished
  <2>. QED BY DEF TemplatesInv, Reworded, Copied
<1>. QED BY <1>1, TemplatesStart, TemplatesStep, PTL DEF TemplatesSpec
--------------------------------------------------------------------------------
(* The text. With one editor at a time, the two counts of the row are those   *)
(* of the version in force against the whole history of the decisions, and    *)
(* what a transaction read is still what is stored when it writes: both are   *)
(* needed for the count of one to be right after the other.                   *)

Drafts == [clauses : ClauseLists, body : Bodies \cup {NoBody}, filled : SUBSET Open]
Decisions == [Keys \X Bodies -> Verdicts \cup {Unread}]

CountsRight ==
  /\ contract.unreviewed = Unreviewed(draft.clauses, decided)
  /\ contract.missing = Missing(draft)

ReadIsStored ==
  \A e \in Editors : edit[e] # NoEdit =>
    /\ edit[e].draft = draft /\ edit[e].decided = decided
    /\ edit[e].op = "submit" => contract.unreviewed = 0 /\ contract.missing = 0
    /\ edit[e].op \in {"clauses", "draft", "free"} =>
         Edited(edit[e].snap).status # "IN_REVIEW"

(* A free text has no values.                                                 *)
FreeHasNoValues == draft.body # NoBody => draft.filled = {}

RowFields == {"status", "origin", "currentVersionId", "approvedVersionId", "unreviewed", "missing"}

ContentInv ==
  /\ draft \in Drafts /\ decided \in Decisions
  /\ contract = [f \in RowFields |-> contract[f]]
  /\ edit = [e \in Editors |-> edit[e]]
  /\ CountsRight /\ ReadIsStored /\ FreeHasNoValues

(* The counts are null exactly when nothing is missing.                       *)
LEMMA CountsOfFit ==
  ASSUME draft \in Drafts, CountsRight, FreeHasNoValues, contract.unreviewed = 0, contract.missing = 0
  PROVE  FitForReview
<1>. DEFINE unread == {k \in DOMAIN draft.clauses :
                         draft.clauses[k].ai /\ ~Validated(k, draft.clauses[k].text, decided)}
            texts == {draft.clauses[k].text : k \in DOMAIN draft.clauses}
            lacking == (texts \cup {draft.body}) \cap (Open \ draft.filled)
<1>1. PICK K \in SUBSET Keys : draft.clauses \in [K -> Clause]
  BY DEF Drafts, ClauseLists
<1>2. IsFiniteSet(K)
  BY ContentAssumption, FS_Subset
<1>3. unread \subseteq K /\ IsFiniteSet(unread)
  BY <1>1, <1>2, FS_Subset
<1>4. IsFiniteSet(texts)
  <2>. DEFINE f == [k \in K |-> draft.clauses[k].text]
  <2>1. f \in Surjection(K, texts)
    BY <1>1 DEF Surjection
  <2>. QED BY <1>2, <2>1, FS_Surjection
<1>5. IsFiniteSet(lacking)
  <2>. HIDE DEF texts
  <2>1. IsFiniteSet(texts \cup {draft.body})
    BY <1>4, FS_AddElement
  <2>2. lacking \in SUBSET (texts \cup {draft.body})
    OBVIOUS
  <2>. HIDE DEF lacking
  <2>. QED BY <2>1, <2>2, FS_Subset
<1>6. unread = {} /\ lacking = {}
  BY <1>3, <1>5, FS_EmptySet DEF CountsRight, Unreviewed, Missing
<1>7. draft.body \notin Open
  BY <1>6, ContentAssumption DEF FreeHasNoValues
<1>. QED BY <1>1, <1>6, <1>7 DEF FitForReview, Validated

LEMMA ContentStart == ContentInit => ContentInv
<1>. SUFFICES ASSUME ContentInit PROVE ContentInv
  OBVIOUS
<1>1. draft \in Drafts /\ draft.body = NoBody /\ \A k \in DOMAIN draft.clauses : ~draft.clauses[k].ai
  BY DEF ContentInit, FirstDrafts, Drafts
<1>2. decided \in Decisions
  BY DEF ContentInit, Decisions, Unread
<1>3. Unreviewed(draft.clauses, decided) = 0
  <2>1. {k \in DOMAIN draft.clauses :
           draft.clauses[k].ai /\ ~Validated(k, draft.clauses[k].text, decided)} = {}
    BY <1>1
  <2>. QED BY <2>1, FS_EmptySet DEF Unreviewed
<1>4. /\ contract = [f \in RowFields |-> contract[f]] /\ contract.status = "DRAFT"
      /\ contract.unreviewed = 0 /\ contract.missing = Missing(draft)
  BY DEF ContentInit, RowFields
<1>. QED BY <1>1, <1>2, <1>3, <1>4
         DEF ContentInv, ContentInit, CountsRight, ReadIsStored, FreeHasNoValues

(* What a handler reads is what is stored.                                    *)
LEMMA FetchKeeps ==
  ASSUME ContentInv, NEW e \in Editors, NEW op, Fetch(e, op),
         op = "submit" => contract.unreviewed = 0 /\ contract.missing = 0,
         op \in {"clauses", "draft", "free"} => CanEdit(contract)
  PROVE  ContentInv'
<1>1. UNCHANGED <<contract, draft, decided>>
  BY DEF Fetch
<1>2. edit' = [edit EXCEPT ![e] =
                 [op |-> op, snap |-> contract, draft |-> draft, decided |-> decided]]
  BY DEF Fetch
<1>3. CanEdit(contract) => Edited(contract).status # "IN_REVIEW"
  BY DEF ContentInv, RowFields, CanEdit, Edited, EditableStatuses
<1>4. ReadIsStored'
  BY <1>1, <1>2, <1>3 DEF ContentInv, ReadIsStored
<1>. QED BY <1>1, <1>2, <1>4 DEF ContentInv, CountsRight, FreeHasNoValues

(* A version that is written by the only editor.                              *)
LEMMA WriteKeeps ==
  ASSUME ContentInv, NEW e \in Editors, \A f \in Editors : f = e, edit[e] # NoEdit,
         NEW version \in Drafts, NEW origin, WriteVersion(e, version, origin),
         version.body # NoBody => version.filled = {},
         edit[e].op \in {"clauses", "draft", "free"}
  PROVE  ContentInv' /\ contract'.status # "IN_REVIEW"
<1>1. /\ draft' = version /\ decided' = decided /\ edit' = [edit EXCEPT ![e] = NoEdit]
      /\ edit[e].decided = decided /\ Edited(edit[e].snap).status # "IN_REVIEW"
  BY DEF WriteVersion, Finished, ContentInv, ReadIsStored
<1>2. /\ contract' = [f \in RowFields |-> contract'[f]]
      /\ contract'.status = Edited(edit[e].snap).status
      /\ contract'.missing = Missing(version)
      /\ contract'.unreviewed = Unreviewed(version.clauses, decided)
  BY <1>1 DEF WriteVersion, ContentInv, RowFields
<1>3. ReadIsStored'
  BY <1>1 DEF ReadIsStored, ContentInv
<1>. QED BY <1>1, <1>2, <1>3 DEF ContentInv, CountsRight, FreeHasNoValues

LEMMA Lists ==
  /\ << >> \in ClauseLists
  /\ \A key \in Keys, clause \in Clause, list \in ClauseLists : With(list, key, clause) \in ClauseLists
<1>1. << >> \in [{} -> Clause]
  OBVIOUS
<1>2. ASSUME NEW key \in Keys, NEW clause \in Clause, NEW list \in ClauseLists
      PROVE  With(list, key, clause) \in ClauseLists
  <2>1. PICK K \in SUBSET Keys : list \in [K -> Clause]
    BY DEF ClauseLists
  <2>2. With(list, key, clause) \in [K \cup {key} -> Clause]
    BY <2>1 DEF With
  <2>. QED BY <2>2 DEF ClauseLists
<1>. QED BY <1>1, <1>2 DEF ClauseLists

LEMMA WritersKeep ==
  ASSUME ContentInv, NEW e \in Editors, \A f \in Editors : f = e,
         SaveClauses(e) \/ DraftClause(e) \/ SaveFreeText(e)
  PROVE  ContentInv' /\ contract'.status # "IN_REVIEW"
<1>1. ASSUME edit[e].op \in {"clauses", "draft", "free"} PROVE edit[e] # NoEdit
  BY <1>1 DEF NoEdit
<1>2. edit[e] # NoEdit => edit[e].draft \in Drafts
  BY DEF ContentInv, ReadIsStored
<1>3. CASE SaveClauses(e)
  <2>1. PICK clauses \in ClauseLists, values \in SUBSET Open :
          /\ edit[e].op = "clauses"
          /\ WriteVersion(e, [clauses |-> clauses, body |-> NoBody,
                              filled |-> edit[e].draft.filled \cup values], contract.origin)
    BY <1>3 DEF SaveClauses
  <2>2. [clauses |-> clauses, body |-> NoBody, filled |-> edit[e].draft.filled \cup values]
          \in Drafts
    BY <1>1, <1>2, <2>1 DEF Drafts
  <2>. QED BY <1>1, <2>1, <2>2, WriteKeeps
<1>4. CASE DraftClause(e)
  <2>1. PICK key \in Keys, text \in Bodies, replace \in BOOLEAN :
          /\ edit[e].op = "draft"
          /\ WriteVersion(e,
               [clauses |-> With(IF replace THEN << >> ELSE edit[e].draft.clauses,
                                 key, [text |-> text, ai |-> TRUE]),
                body |-> NoBody, filled |-> edit[e].draft.filled],
               IF replace THEN "AI" ELSE contract.origin)
    BY <1>4 DEF DraftClause
  <2>. DEFINE kept == IF replace THEN << >> ELSE edit[e].draft.clauses
              list == With(kept, key, [text |-> text, ai |-> TRUE])
  <2>2. kept \in ClauseLists /\ [text |-> text, ai |-> TRUE] \in Clause
    BY <1>1, <1>2, <2>1, Lists DEF Drafts, Clause
  <2>. HIDE DEF kept
  <2>3. list \in ClauseLists
    BY <2>2, Lists
  <2>. HIDE DEF list
  <2>4. [clauses |-> list, body |-> NoBody, filled |-> edit[e].draft.filled] \in Drafts
    BY <1>1, <1>2, <2>1, <2>3 DEF Drafts
  <2>5. WriteVersion(e, [clauses |-> list, body |-> NoBody, filled |-> edit[e].draft.filled],
                     IF replace THEN "AI" ELSE contract.origin)
    BY <2>1 DEF list, kept
  <2>. QED BY <1>1, <2>1, <2>4, <2>5, WriteKeeps
<1>5. CASE SaveFreeText(e)
  <2>1. PICK text \in Bodies :
          /\ edit[e].op = "free"
          /\ WriteVersion(e, [clauses |-> << >>, body |-> text, filled |-> {}], contract.origin)
    BY <1>5 DEF SaveFreeText
  <2>2. [clauses |-> << >>, body |-> text, filled |-> {}] \in Drafts
    BY Lists DEF Drafts
  <2>. QED BY <1>1, <2>1, <2>2, WriteKeeps
<1>. QED BY <1>3, <1>4, <1>5

LEMMA ReviewKeeps ==
  ASSUME ContentInv, NEW e \in Editors, \A f \in Editors : f = e, ReviewClause(e)
  PROVE  ContentInv' /\ contract'.status = contract.status
<1>1. edit[e].op = "review" /\ edit[e] # NoEdit
  BY DEF ReviewClause, NoEdit
<1>2. edit[e].draft = draft /\ edit[e].decided = decided /\ draft \in Drafts
  BY <1>1 DEF ContentInv, ReadIsStored
<1>3. PICK key \in DOMAIN draft.clauses, verdict \in Verdicts :
        /\ decided' = [decided EXCEPT ![<<key, draft.clauses[key].text>>] = verdict]
        /\ contract' = [contract EXCEPT !.unreviewed = Unreviewed(draft.clauses, decided')]
        /\ edit' = [edit EXCEPT ![e] = NoEdit] /\ draft' = draft
  <2>1. PICK key \in DOMAIN edit[e].draft.clauses, verdict \in Verdicts :
          LET text == edit[e].draft.clauses[key].text
              seen == [edit[e].decided EXCEPT ![<<key, text>>] = verdict]
          IN  /\ decided' = [decided EXCEPT ![<<key, text>>] = verdict]
              /\ contract' = [contract EXCEPT !.unreviewed =
                                 Unreviewed(edit[e].draft.clauses, seen)]
    BY DEF ReviewClause
  <2>2. /\ decided' = [decided EXCEPT ![<<key, draft.clauses[key].text>>] = verdict]
        /\ contract' = [contract EXCEPT !.unreviewed = Unreviewed(draft.clauses, decided')]
    BY <1>2, <2>1
  <2>. QED BY <1>2, <2>1, <2>2, ZenonT(60) DEF ReviewClause, Finished
<1>4. decided' \in Decisions
  BY <1>3 DEF ContentInv, Decisions
<1>5. /\ contract' = [f \in RowFields |-> contract'[f]] /\ contract'.status = contract.status
      /\ contract'.missing = contract.missing
      /\ contract'.unreviewed = Unreviewed(draft.clauses, decided')
  BY <1>3 DEF ContentInv, RowFields
<1>6. ReadIsStored'
  BY <1>3 DEF ReadIsStored, ContentInv
<1>. QED BY <1>3, <1>4, <1>5, <1>6 DEF ContentInv, CountsRight, FreeHasNoValues

LEMMA SubmissionKeeps ==
  ASSUME ContentInv, NEW e \in Editors, \A f \in Editors : f = e,
         SubmitText(e) \/ GiveUp(e) \/ ConcludeReview
  PROVE  ContentInv' /\ (contract.status # "IN_REVIEW" /\ contract'.status = "IN_REVIEW"
                           => FitForReview)
<1>0. UNCHANGED <<draft, decided>>
  BY DEF SubmitText, GiveUp, ConcludeReview
<1>1. CASE SubmitText(e)
  <2>1. edit[e].op = "submit" /\ edit[e] # NoEdit /\ edit' = [edit EXCEPT ![e] = NoEdit]
    BY <1>1 DEF SubmitText, NoEdit, Finished
  <2>2. FitForReview
    BY <2>1, CountsOfFit DEF ContentInv, ReadIsStored
  <2>3. /\ contract' = [f \in RowFields |-> contract'[f]]
        /\ contract'.unreviewed = contract.unreviewed /\ contract'.missing = contract.missing
        /\ contract'.status = Submitted(edit[e].snap).status
    BY <1>1 DEF SubmitText, ContentInv, RowFields
  <2>4. ReadIsStored'
    BY <2>1 DEF ReadIsStored, ContentInv
  <2>. QED BY <1>0, <2>1, <2>2, <2>3, <2>4 DEF ContentInv, CountsRight, FreeHasNoValues
<1>2. CASE GiveUp(e)
  BY <1>0, <1>2 DEF GiveUp, Finished, ContentInv, CountsRight, ReadIsStored, FreeHasNoValues
<1>3. CASE ConcludeReview
  <2>1. /\ contract' = [f \in RowFields |-> contract'[f]]
        /\ contract'.status \in {"APPROVED", "CHANGES_REQUESTED"}
        /\ contract'.unreviewed = contract.unreviewed /\ contract'.missing = contract.missing
    BY <1>3 DEF ConcludeReview, Approved, ChangesRequested, ContentInv, RowFields
  <2>2. edit' = edit
    BY <1>3 DEF ConcludeReview
  <2>. QED BY <1>0, <2>1, <2>2 DEF ContentInv, CountsRight, ReadIsStored, FreeHasNoValues
<1>. QED BY <1>1, <1>2, <1>3

LEMMA ContentStep ==
  ASSUME ContentInv, \A e, f \in Editors : e = f, [ContentNext]_contentVars
  PROVE  /\ ContentInv'
         /\ contract.status # "IN_REVIEW" /\ contract'.status = "IN_REVIEW" => FitForReview
<1>1. CASE UNCHANGED contentVars
  BY <1>1 DEF contentVars, ContentInv, CountsRight, ReadIsStored, FreeHasNoValues
<1>2. CASE ConcludeReview
  <2>1. CASE Editors = {}
    <3>1. /\ contract' = [f \in RowFields |-> contract'[f]]
          /\ contract.status = "IN_REVIEW"
          /\ contract'.unreviewed = contract.unreviewed /\ contract'.missing = contract.missing
      BY <1>2 DEF ConcludeReview, Approved, ChangesRequested, ContentInv, RowFields
    <3>. QED BY <1>2, <2>1, <3>1
             DEF ConcludeReview, ContentInv, CountsRight, ReadIsStored, FreeHasNoValues
  <2>2. CASE Editors # {}
    BY <1>2, <2>2, SubmissionKeeps
  <2>. QED BY <2>1, <2>2
<1>3. ASSUME NEW e \in Editors, EditorStep(e)
      PROVE  /\ ContentInv'
             /\ contract.status # "IN_REVIEW" /\ contract'.status = "IN_REVIEW" => FitForReview
  <2>0. \A f \in Editors : f = e
    OBVIOUS
  <2>1. CASE FetchVersion(e, "clauses") \/ FetchVersion(e, "draft") \/ FetchFreeText(e)
    BY <2>1, FetchKeeps DEF FetchVersion, FetchFreeText, Fetch
  <2>2. CASE FetchReview(e) \/ FetchSubmit(e)
    BY <2>2, FetchKeeps DEF FetchReview, FetchSubmit, CanSubmit, Fetch
  <2>3. CASE SaveClauses(e) \/ DraftClause(e) \/ SaveFreeText(e)
    BY <2>0, <2>3, WritersKeep
  <2>4. CASE ReviewClause(e)
    BY <2>0, <2>4, ReviewKeeps
  <2>5. CASE SubmitText(e) \/ GiveUp(e)
    BY <2>0, <2>5, SubmissionKeeps
  <2>. QED BY <1>3, <2>1, <2>2, <2>3, <2>4, <2>5 DEF EditorStep
<1>. QED BY <1>1, <1>2, <1>3 DEF ContentNext

(* With one editor at a time, a text is submitted only when the last word on  *)
(* each of its AI clauses is an approval of that very text and each of its    *)
(* variables has a value, for any keys, any texts and any number of versions. *)
THEOREM OnlyFitIsSubmitted ==
  ASSUME \A e, f \in Editors : e = f
  PROVE  ContentSpec => SubmittedIsReviewed
<1>1. ContentInv /\ [ContentNext]_contentVars
        => /\ ContentInv'
           /\ contract.status # "IN_REVIEW" /\ contract'.status = "IN_REVIEW" => FitForReview
  BY ContentStep
<1>2. ContentInv /\ [ContentNext]_contentVars
        => [contract.status # "IN_REVIEW" /\ contract'.status = "IN_REVIEW"
              => FitForReview]_contentVars
  BY <1>1
<1>. QED BY <1>1, <1>2, ContentStart, PTL DEF ContentSpec, SubmittedIsReviewed
--------------------------------------------------------------------------------
(* The budget. What a month may cost beyond its budget, for any number of     *)
(* requests under way, any budgets and any cost of a call.                    *)
(*                                                                            *)
(* The bound is not inductive: what is written says nothing of the calls that *)
(* have left and may still write.  The inductive one counts them, each for    *)
(* the highest cost, and holds because a call that leaves was under its       *)
(* budget alone, whatever the others do.                                      *)

(* A call that has read its settings and not left: its month was marked.      *)
ReadIsMarked ==
  \A u \in Callers : call[u].phase = "read" =>
    /\ call[u].budget = {} => call[u].month \in unlimited
    /\ \A b \in call[u].budget : b <= allowed[call[u].month]

(* The lines of a month are among those since its first day.                  *)
MonthInSince == \A m \in Calendar : costs[m] <= since[m]

(* What is written and what may still be.                                     *)
Committed(m) == costs[m] + MaxCost * Cardinality(Unwritten(m))
CommitmentBounded ==
  \A m \in Calendar \ unlimited : Committed(m) < allowed[m] + MaxCost * Cardinality(Callers)

GatewayInv == GatewayTypeOK /\ ReadIsMarked /\ MonthInSince /\ CommitmentBounded

Record == [phase: {"idle", "asked", "open", "read", "out", "answered"}, month: Calendar,
           provider: Providers, budget: Budgets, cost: 0..MaxCost]

(* The number of unwritten calls is that of a finite set.                     *)
LEMMA Counted ==
  ASSUME GatewayAssumption, NEW m
  PROVE  /\ IsFiniteSet(Unwritten(m))
         /\ Cardinality(Unwritten(m)) \in Nat
         /\ Cardinality(Callers) \in Nat
         /\ Cardinality(Unwritten(m)) <= Cardinality(Callers)
<1>1. Unwritten(m) \in SUBSET Callers
  BY DEF Unwritten
<1>2. IsFiniteSet(Callers)
  BY DEF GatewayAssumption
<1>. QED BY <1>1, <1>2, FS_Subset, FS_CardinalityType

(* A product grows with its second factor.                                    *)
LEMMA Monotone ==
  ASSUME NEW c \in Nat, NEW i \in Nat, NEW j \in Nat, i <= j
  PROVE  c * i \in Nat /\ c * j \in Nat /\ c * i <= c * j
<1>1. j - i \in Nat /\ j = i + (j - i)
  OBVIOUS
<1>2. c * (j - i) \in Nat
  BY <1>1
<1>3. c * j = c * i + c * (j - i)
  BY <1>1, SMT
<1>. QED BY <1>2, <1>3

(* There is room for a call.                                                  *)
LEMMA SomeCaller == GatewayAssumption => Cardinality(Callers) >= 1
<1>. SUFFICES ASSUME GatewayAssumption PROVE Cardinality(Callers) >= 1
  OBVIOUS
<1>1. IsFiniteSet(Callers) /\ Callers # {}
  BY DEF GatewayAssumption
<1>2. Cardinality(Callers) \in Nat /\ Cardinality(Callers) # 0
  BY <1>1, FS_CardinalityType, FS_EmptySet
<1>. QED BY <1>2

LEMMA GatewayStart == GatewayAssumption /\ GatewayInit => GatewayInv
<1>. SUFFICES ASSUME GatewayAssumption, GatewayInit PROVE GatewayInv
  OBVIOUS
<1>. USE DEF GatewayInit
<1>1. 1 \in Calendar /\ {} \in Budgets
  BY DEF Calendar, Budgets, GatewayAssumption
<1>2. Quiet \in Record
  BY <1>1 DEF Quiet, Record, Providers, GatewayAssumption
<1>3. GatewayTypeOK
  BY <1>1, <1>2 DEF GatewayTypeOK, Record, Providers
<1>4. ReadIsMarked
  BY DEF ReadIsMarked, Quiet
<1>5. MonthInSince
  BY DEF MonthInSince
<1>6. CommitmentBounded
  <2>. SUFFICES ASSUME NEW m \in Calendar
                PROVE  Committed(m) < allowed[m] + MaxCost * Cardinality(Callers)
    BY DEF CommitmentBounded
  <2>1. Unwritten(m) = {}
    BY DEF Unwritten, Quiet
  <2>2. Cardinality(Unwritten(m)) = 0
    BY <2>1, FS_EmptySet
  <2>3. MaxCost \in Nat \ {0}
    BY DEF GatewayAssumption
  <2>4. MaxCost * 1 <= MaxCost * Cardinality(Callers) /\ MaxCost * Cardinality(Callers) \in Nat
    BY <2>3, SomeCaller, Counted, Monotone
  <2>. QED BY <2>2, <2>3, <2>4 DEF Committed
<1>. QED BY <1>3, <1>4, <1>5, <1>6 DEF GatewayInv

(* What the administrator and the calendar do touches no call.                *)
LEMMA SettingSteps ==
  ASSUME GatewayAssumption, GatewayInv,
         SetFlag \/ (\E p \in Providers : SetProvider(p)) \/ (\E b \in Budgets : SetBudget(b))
         \/ NextMonth
  PROVE  GatewayInv'
<1>1. UNCHANGED <<call, costs, since, allowed, unlimited>>
  BY DEF SetFlag, SetProvider, SetBudget, NextMonth
<1>2. setting' \in [enabled: BOOLEAN, provider: Providers, budget: Budgets]
  BY DEF GatewayInv, GatewayTypeOK, SetFlag, SetProvider, SetBudget, NextMonth
<1>3. month' \in Calendar
  BY DEF GatewayInv, GatewayTypeOK, SetFlag, SetProvider, SetBudget, NextMonth, Calendar,
         GatewayAssumption
<1>4. GatewayTypeOK'
  BY <1>1, <1>2, <1>3 DEF GatewayInv, GatewayTypeOK
<1>5. (ReadIsMarked /\ MonthInSince)'
  BY <1>1 DEF GatewayInv, ReadIsMarked, MonthInSince
<1>6. CommitmentBounded'
  BY <1>1 DEF GatewayInv, CommitmentBounded, Committed, Unwritten
<1>. QED BY <1>4, <1>5, <1>6 DEF GatewayInv

(* A request that changes one call, and neither the lines nor the calls that  *)
(* may still write one, keeps the bound.                                      *)
LEMMA SameCommitment ==
  ASSUME UNCHANGED <<costs, allowed, unlimited>>, CommitmentBounded,
         \A m \in Calendar : Unwritten(m)' = Unwritten(m)
  PROVE  CommitmentBounded'
  BY DEF CommitmentBounded, Committed

LEMMA IdleRecord == GatewayAssumption => Quiet \in Record
  BY DEF Quiet, Record, Providers, Calendar, Budgets, GatewayAssumption

(* A request starts, and reads the flag.                                      *)
LEMMA FirstSteps ==
  ASSUME GatewayAssumption, GatewayInv, NEW u \in Callers,
         (\E m \in 1..month : TakeMonth(u, m)) \/ ReadFlag(u)
  PROVE  GatewayInv'
<1>1. call \in [Callers -> Record]
  BY DEF GatewayInv, GatewayTypeOK, Record
<1>2. PICK r \in Record :
        /\ call' = [call EXCEPT ![u] = r]
        /\ r.phase \notin {"read", "out", "answered"}
  <2>1. CASE \E m \in 1..month : TakeMonth(u, m)
    <3>1. PICK m \in 1..month : TakeMonth(u, m)
      BY <2>1
    <3>. DEFINE r == [Quiet EXCEPT !.phase = "asked", !.month = m]
    <3>2. m \in Calendar
      BY DEF GatewayInv, GatewayTypeOK, Calendar, GatewayAssumption
    <3>3. r \in Record /\ r.phase = "asked"
      BY <3>2, IdleRecord DEF Record, Quiet
    <3>. QED BY <3>1, <3>3 DEF TakeMonth
  <2>2. CASE ReadFlag(u)
    <3>1. CASE setting.enabled
      <4>. DEFINE r == [call[u] EXCEPT !.phase = "open"]
      <4>1. r \in Record /\ r.phase = "open"
        BY <1>1 DEF Record
      <4>2. call' = [call EXCEPT ![u] = r]
        BY <2>2, <3>1 DEF ReadFlag
      <4>. QED BY <4>1, <4>2
    <3>2. CASE ~setting.enabled
      BY <2>2, <3>2, IdleRecord DEF ReadFlag, Quiet
    <3>. QED BY <3>1, <3>2
  <2>. QED BY <2>1, <2>2
<1>3. call[u].phase \in {"asked", "idle"} /\ UNCHANGED <<setting, month, costs, since, allowed, unlimited>>
  BY DEF TakeMonth, ReadFlag
<1>4. GatewayTypeOK'
  <2>1. call' \in [Callers -> Record]
    BY <1>1, <1>2
  <2>. QED BY <1>3, <2>1 DEF GatewayInv, GatewayTypeOK, Record
<1>5. ReadIsMarked'
  BY <1>1, <1>2, <1>3 DEF GatewayInv, ReadIsMarked
<1>6. MonthInSince'
  BY <1>3 DEF GatewayInv, MonthInSince
<1>7. CommitmentBounded'
  <2>1. \A m \in Calendar : Unwritten(m)' = Unwritten(m)
    BY <1>1, <1>2, <1>3 DEF Unwritten
  <2>. QED BY <1>3, <2>1, SameCommitment DEF GatewayInv
<1>. QED BY <1>4, <1>5, <1>6, <1>7 DEF GatewayInv

(* The settings are read: the month is marked with the budget.                *)
LEMMA SettingsStep ==
  ASSUME GatewayAssumption, GatewayInv, NEW u \in Callers, ReadSettings(u)
  PROVE  GatewayInv'
<1>. DEFINE k == call[u].month
<1>1. call \in [Callers -> Record] /\ k \in Calendar /\ allowed \in [Calendar -> Nat]
  BY DEF GatewayInv, GatewayTypeOK, Record
<1>. DEFINE r == [[[call[u] EXCEPT !.phase = "read"] EXCEPT !.provider = setting.provider]
                    EXCEPT !.budget = setting.budget]
<1>2. setting.provider \in Providers /\ setting.budget \in Budgets
  BY DEF GatewayInv, GatewayTypeOK
<1>3. r \in Record /\ r.phase = "read" /\ r.month = k /\ r.budget = setting.budget
  BY <1>1, <1>2 DEF Record
<1>4. call' = [call EXCEPT ![u] = r]
  BY <1>1 DEF ReadSettings, Record
<1>. DEFINE top == CHOOSE a \in {allowed[k]} \cup setting.budget :
                     \A b \in {allowed[k]} \cup setting.budget : a >= b
<1>5. allowed' = [allowed EXCEPT ![k] = top]
  BY <1>1 DEF ReadSettings
<1>6. top \in Nat /\ top >= allowed[k] /\ \A b \in setting.budget : b <= top
  <2>1. setting.budget = {} \/ \E b \in Limits : setting.budget = {b}
    BY <1>2 DEF Budgets
  <2>2. {allowed[k]} \cup setting.budget \subseteq Nat
    BY <1>1, <2>1 DEF GatewayAssumption
  <2>3. \E a \in {allowed[k]} \cup setting.budget :
          \A b \in {allowed[k]} \cup setting.budget : a >= b
    <3>1. CASE setting.budget = {}
      BY <1>1, <3>1
    <3>2. CASE \E b \in Limits : setting.budget = {b}
      <4>1. PICK b \in Nat : setting.budget = {b}
        BY <3>2 DEF GatewayAssumption
      <4>2. allowed[k] \in Nat
        BY <1>1
      <4>3. CASE b <= allowed[k]
        <5>1. \A x \in {allowed[k], b} : allowed[k] >= x
          BY <4>1, <4>2, <4>3
        <5>. QED BY <4>1, <5>1
      <4>4. CASE b > allowed[k]
        <5>1. \A x \in {allowed[k], b} : b >= x
          BY <4>1, <4>2, <4>4
        <5>. QED BY <4>1, <5>1
      <4>. QED BY <4>1, <4>2, <4>3, <4>4
    <3>. QED BY <2>1, <3>1, <3>2
  <2>4. top \in {allowed[k]} \cup setting.budget
        /\ \A b \in {allowed[k]} \cup setting.budget : top >= b
    BY <2>3
  <2>. HIDE DEF top
  <2>. QED BY <2>2, <2>4
<1>. HIDE DEF top, r
<1>7. unlimited \subseteq unlimited' /\ unlimited' \subseteq Calendar
      /\ (setting.budget = {} => k \in unlimited')
  BY <1>1 DEF ReadSettings, GatewayInv, GatewayTypeOK
<1>8. UNCHANGED <<setting, month, costs, since>>
  BY DEF ReadSettings
<1>9. allowed' \in [Calendar -> Nat] /\ \A m \in Calendar : allowed[m] <= allowed'[m]
  BY <1>1, <1>5, <1>6
<1>10. GatewayTypeOK'
  <2>1. call' \in [Callers -> Record]
    BY <1>1, <1>3, <1>4
  <2>. QED BY <1>7, <1>8, <1>9, <2>1 DEF GatewayInv, GatewayTypeOK, Record
<1>11. ReadIsMarked'
  <2>. SUFFICES ASSUME NEW v \in Callers, call'[v].phase = "read"
                PROVE  /\ call'[v].budget = {} => call'[v].month \in unlimited'
                       /\ \A b \in call'[v].budget : b <= allowed'[call'[v].month]
    BY DEF ReadIsMarked
  <2>1. CASE v = u
    BY <1>1, <1>3, <1>4, <1>5, <1>6, <1>7, <2>1
  <2>2. CASE v # u
    <3>1. call'[v] = call[v] /\ call[v] \in Record
      BY <1>1, <1>4, <2>2
    <3>2. call[v].month \in Calendar /\ \A b \in call[v].budget : b \in Nat
      BY <3>1 DEF Record, Budgets, GatewayAssumption
    <3>3. allowed[call[v].month] \in Nat /\ allowed'[call[v].month] \in Nat
          /\ allowed[call[v].month] <= allowed'[call[v].month]
      BY <1>1, <1>9, <3>2
    <3>4. /\ call[v].budget = {} => call[v].month \in unlimited
          /\ \A b \in call[v].budget : b <= allowed[call[v].month]
      BY <3>1 DEF GatewayInv, ReadIsMarked
    <3>. QED BY <1>7, <3>1, <3>2, <3>3, <3>4
  <2>. QED BY <2>1, <2>2
<1>12. MonthInSince'
  BY <1>8 DEF GatewayInv, MonthInSince
<1>13. CommitmentBounded'
  <2>. SUFFICES ASSUME NEW m \in Calendar \ unlimited'
                PROVE  Committed(m)' < allowed'[m] + MaxCost * Cardinality(Callers)
    BY DEF CommitmentBounded
  <2>1. Unwritten(m)' = Unwritten(m)
    BY <1>1, <1>3, <1>4 DEF Unwritten, ReadSettings
  <2>2. Committed(m)' = Committed(m)
    BY <1>8, <2>1 DEF Committed
  <2>3. Committed(m) < allowed[m] + MaxCost * Cardinality(Callers)
    BY <1>7 DEF GatewayInv, CommitmentBounded
  <2>4. Committed(m) \in Nat /\ MaxCost * Cardinality(Callers) \in Nat
    <3>1. MaxCost \in Nat /\ costs[m] \in Nat
      BY DEF GatewayAssumption, GatewayInv, GatewayTypeOK
    <3>2. MaxCost * Cardinality(Unwritten(m)) \in Nat /\ MaxCost * Cardinality(Callers) \in Nat
      BY <3>1, Counted, Monotone
    <3>. QED BY <3>1, <3>2 DEF Committed
  <2>5. allowed[m] \in Nat /\ allowed'[m] \in Nat /\ allowed[m] <= allowed'[m]
    BY <1>1, <1>9
  <2>. QED BY <2>2, <2>3, <2>4, <2>5
<1>. QED BY <1>10, <1>11, <1>12, <1>13 DEF GatewayInv

(* A call under its budget leaves: what its month has cost is below a budget  *)
(* that was marked, and there are no more unwritten calls than requests.      *)
LEMMA DepartureBounded ==
  ASSUME GatewayAssumption, GatewayInv, NEW u \in Callers, call[u].phase = "read",
         UnderBudget(u), NEW k \in Calendar \ unlimited, k = call[u].month,
         UNCHANGED <<costs, allowed>>
  PROVE  Committed(k)' < allowed'[k] + MaxCost * Cardinality(Callers)
<1>1. call[u].budget \in Budgets
  BY DEF GatewayInv, GatewayTypeOK
<1>2. call[u].budget # {}
  BY DEF GatewayInv, ReadIsMarked
<1>3. PICK b \in Nat : b \in call[u].budget
  BY <1>1, <1>2 DEF Budgets, GatewayAssumption
<1>4. b <= allowed[k]
  BY <1>3 DEF GatewayInv, ReadIsMarked
<1>5. since[k] < b
  BY <1>3 DEF UnderBudget
<1>6. costs[k] <= since[k]
  BY <1>1 DEF GatewayInv, MonthInSince
<1>7. costs[k] \in Nat /\ since[k] \in Nat /\ allowed[k] \in Nat
  BY <1>1 DEF GatewayInv, GatewayTypeOK
<1>8. costs[k] < allowed[k]
  BY <1>3, <1>4, <1>5, <1>6, <1>7
<1>9. Unwritten(k)' \in SUBSET Callers /\ IsFiniteSet(Callers)
  BY DEF Unwritten, GatewayAssumption
<1>10. Cardinality(Unwritten(k)') \in Nat /\ Cardinality(Callers) \in Nat
       /\ Cardinality(Unwritten(k)') <= Cardinality(Callers)
  BY <1>9, FS_Subset, FS_CardinalityType
<1>11. MaxCost * Cardinality(Unwritten(k)') <= MaxCost * Cardinality(Callers)
       /\ MaxCost * Cardinality(Unwritten(k)') \in Nat /\ MaxCost * Cardinality(Callers) \in Nat
  BY <1>10, Monotone DEF GatewayAssumption
<1>. QED BY <1>7, <1>8, <1>11 DEF Committed

LEMMA GoStep ==
  ASSUME GatewayAssumption, GatewayInv, NEW u \in Callers, Go(u)
  PROVE  GatewayInv'
<1>1. call \in [Callers -> Record] /\ call[u].phase = "read"
  BY DEF GatewayInv, GatewayTypeOK, Record, Go
<1>2. UNCHANGED <<setting, month, costs, since, allowed, unlimited>>
  BY DEF Go
<1>3. PICK r \in Record :
        /\ call' = [call EXCEPT ![u] = r]
        /\ r.phase # "read"
        /\ r.phase \in {"out", "answered"} => r.month = call[u].month /\ UnderBudget(u)
  <2>1. CASE ~UnderBudget(u)
    BY <2>1, IdleRecord DEF Go, Quiet
  <2>2. CASE UnderBudget(u) /\ call[u].provider \in Configured
    <3>. DEFINE r == [call[u] EXCEPT !.phase = "out"]
    <3>1. r \in Record /\ r.phase = "out" /\ r.month = call[u].month
      BY <1>1 DEF Record
    <3>2. call' = [call EXCEPT ![u] = r]
      BY <2>2 DEF Go
    <3>. QED BY <2>2, <3>1, <3>2
  <2>3. CASE UnderBudget(u) /\ call[u].provider \notin Configured
    <3>. DEFINE r == [call[u] EXCEPT !.phase = "answered"]
    <3>1. r \in Record /\ r.phase = "answered" /\ r.month = call[u].month
      BY <1>1 DEF Record
    <3>2. call' = [call EXCEPT ![u] = r]
      BY <2>3 DEF Go
    <3>. QED BY <2>3, <3>1, <3>2
  <2>. QED BY <2>1, <2>2, <2>3
<1>4. GatewayTypeOK'
  <2>1. call' \in [Callers -> Record]
    BY <1>1, <1>3
  <2>. QED BY <1>2, <2>1 DEF GatewayInv, GatewayTypeOK, Record
<1>5. ReadIsMarked'
  BY <1>1, <1>2, <1>3 DEF GatewayInv, ReadIsMarked
<1>6. MonthInSince'
  BY <1>2 DEF GatewayInv, MonthInSince
<1>7. CommitmentBounded'
  <2>. SUFFICES ASSUME NEW m \in Calendar \ unlimited
                PROVE  Committed(m)' < allowed'[m] + MaxCost * Cardinality(Callers)
    BY <1>2 DEF CommitmentBounded
  <2>1. CASE m = call[u].month /\ r.phase \in {"out", "answered"}
    BY <1>1, <1>2, <1>3, <2>1, DepartureBounded
  <2>2. CASE ~(m = call[u].month /\ r.phase \in {"out", "answered"})
    <3>1. Unwritten(m)' = Unwritten(m)
      BY <1>1, <1>3, <2>2 DEF Unwritten
    <3>. QED BY <1>2, <3>1 DEF GatewayInv, CommitmentBounded, Committed
  <2>. QED BY <2>1, <2>2
<1>. QED BY <1>4, <1>5, <1>6, <1>7 DEF GatewayInv

LEMMA ReplyStep ==
  ASSUME GatewayAssumption, GatewayInv, NEW u \in Callers, NEW cost \in 0..MaxCost,
         Reply(u, cost)
  PROVE  GatewayInv'
<1>1. call \in [Callers -> Record] /\ call[u].phase = "out"
  BY DEF GatewayInv, GatewayTypeOK, Record, Reply
<1>2. UNCHANGED <<setting, month, costs, since, allowed, unlimited>>
  BY DEF Reply
<1>. DEFINE r == [[call[u] EXCEPT !.phase = "answered"] EXCEPT !.cost = cost]
<1>3. r \in Record /\ r.phase = "answered" /\ r.month = call[u].month
  BY <1>1 DEF Record
<1>4. call' = [call EXCEPT ![u] = r]
  BY <1>1 DEF Reply, Record
<1>. HIDE DEF r
<1>5. GatewayTypeOK'
  <2>1. call' \in [Callers -> Record]
    BY <1>1, <1>3, <1>4
  <2>. QED BY <1>2, <2>1 DEF GatewayInv, GatewayTypeOK, Record
<1>6. ReadIsMarked'
  BY <1>1, <1>2, <1>3, <1>4 DEF GatewayInv, ReadIsMarked
<1>7. MonthInSince'
  BY <1>2 DEF GatewayInv, MonthInSince
<1>8. CommitmentBounded'
  <2>1. \A m \in Calendar : Unwritten(m)' = Unwritten(m)
    BY <1>1, <1>3, <1>4 DEF Unwritten
  <2>. QED BY <1>2, <2>1, SameCommitment DEF GatewayInv
<1>. QED BY <1>5, <1>6, <1>7, <1>8 DEF GatewayInv

(* A call that ends is written or not: what it adds to the lines it takes off *)
(* the calls that may still write.                                            *)
LEMMA CallEnds ==
  ASSUME GatewayAssumption, GatewayInv, NEW u \in Callers,
         call[u].phase \in {"out", "answered"}, call' = [call EXCEPT ![u] = Quiet],
         UNCHANGED <<allowed, unlimited>>,
         NEW cost \in 0..MaxCost, costs' = [costs EXCEPT ![call[u].month] = @ + cost]
  PROVE  CommitmentBounded'
<1>. SUFFICES ASSUME NEW m \in Calendar \ unlimited
              PROVE  Committed(m)' < allowed[m] + MaxCost * Cardinality(Callers)
  BY DEF CommitmentBounded
<1>1. call \in [Callers -> Record] /\ costs \in [Calendar -> Nat] /\ allowed[m] \in Nat
  BY DEF GatewayInv, GatewayTypeOK, Record
<1>2. Committed(m) < allowed[m] + MaxCost * Cardinality(Callers)
  BY DEF GatewayInv, CommitmentBounded
<1>3. CASE m # call[u].month
  <2>1. Unwritten(m)' = Unwritten(m)
    BY <1>1, <1>3 DEF Unwritten, Quiet
  <2>2. costs'[m] = costs[m]
    BY <1>1, <1>3
  <2>. QED BY <1>2, <2>1, <2>2 DEF Committed
<1>4. CASE m = call[u].month
  <2>1. Unwritten(m)' = Unwritten(m) \ {u} /\ u \in Unwritten(m)
    BY <1>1, <1>4 DEF Unwritten, Quiet
  <2>2. costs'[m] = costs[m] + cost
    BY <1>1, <1>4
  <2>. DEFINE k == Cardinality(Unwritten(m))
  <2>3. IsFiniteSet(Unwritten(m)) /\ k \in Nat /\ Cardinality(Callers) \in Nat
    BY Counted
  <2>4. Cardinality(Unwritten(m) \ {u}) = k - 1 /\ k # 0
    BY <2>1, <2>3, FS_RemoveElement, FS_EmptySet
  <2>5. Committed(m)' = costs'[m] + MaxCost * (k - 1)
    BY <2>1, <2>4 DEF Committed
  <2>6. Committed(m) = costs[m] + MaxCost * k
    BY DEF Committed
  <2>. HIDE DEF k
  <2>7. MaxCost \in Nat /\ cost \in Nat /\ cost <= MaxCost /\ costs[m] \in Nat
    BY <1>1 DEF GatewayAssumption
  <2>8. MaxCost * k = MaxCost * (k - 1) + MaxCost /\ MaxCost * (k - 1) \in Nat
    <3>1. k - 1 \in Nat
      BY <2>3, <2>4
    <3>. QED BY <2>3, <2>7, <3>1, SMT
  <2>9. Committed(m)' <= Committed(m) /\ Committed(m)' \in Nat /\ Committed(m) \in Nat
    BY <2>2, <2>5, <2>6, <2>7, <2>8
  <2>10. MaxCost * Cardinality(Callers) \in Nat
    BY <2>3, <2>7, Monotone
  <2>. QED BY <1>1, <1>2, <2>9, <2>10
<1>. QED BY <1>3, <1>4

LEMMA WriteStep ==
  ASSUME GatewayAssumption, GatewayInv, NEW u \in Callers, NEW cost \in 0..MaxCost,
         Write(u, cost)
  PROVE  GatewayInv'
<1>1. call \in [Callers -> Record] /\ call[u].phase = "answered" /\ call[u].month \in Calendar
  BY DEF GatewayInv, GatewayTypeOK, Record, Write
<1>2. cost \in Nat /\ costs \in [Calendar -> Nat] /\ since \in [Calendar -> Nat]
  BY DEF GatewayInv, GatewayTypeOK, GatewayAssumption
<1>3. /\ call' = [call EXCEPT ![u] = Quiet]
      /\ costs' = [costs EXCEPT ![call[u].month] = @ + cost]
      /\ since' = [m \in Calendar |-> IF m <= call[u].month THEN since[m] + cost ELSE since[m]]
      /\ UNCHANGED <<setting, month, allowed, unlimited>>
  BY DEF Write
<1>4. GatewayTypeOK'
  <2>1. call' \in [Callers -> Record]
    BY <1>1, <1>3, IdleRecord
  <2>2. costs' \in [Calendar -> Nat] /\ since' \in [Calendar -> Nat]
    BY <1>1, <1>2, <1>3
  <2>. QED BY <1>3, <2>1, <2>2 DEF GatewayInv, GatewayTypeOK, Record
<1>5. ReadIsMarked'
  BY <1>1, <1>3 DEF GatewayInv, ReadIsMarked, Quiet
<1>6. MonthInSince'
  <2>. SUFFICES ASSUME NEW m \in Calendar PROVE costs'[m] <= since'[m]
    BY DEF MonthInSince
  <2>1. costs[m] <= since[m] /\ costs[m] \in Nat /\ since[m] \in Nat /\ m \in Int
    BY <1>2 DEF GatewayInv, MonthInSince, Calendar, GatewayAssumption
  <2>2. CASE m = call[u].month
    BY <1>2, <1>3, <2>1, <2>2
  <2>3. CASE m # call[u].month
    BY <1>2, <1>3, <2>1, <2>3
  <2>. QED BY <2>2, <2>3
<1>7. CommitmentBounded'
  BY <1>1, <1>3, CallEnds
<1>. QED BY <1>4, <1>5, <1>6, <1>7 DEF GatewayInv

LEMMA FailStep ==
  ASSUME GatewayAssumption, GatewayInv, NEW u \in Callers, Fail(u)
  PROVE  GatewayInv'
<1>1. call \in [Callers -> Record] /\ call[u].phase = "out" /\ costs \in [Calendar -> Nat]
  BY DEF GatewayInv, GatewayTypeOK, Record, Fail
<1>2. call' = [call EXCEPT ![u] = Quiet]
      /\ UNCHANGED <<setting, month, costs, since, allowed, unlimited>>
  BY DEF Fail
<1>3. GatewayTypeOK'
  <2>1. call' \in [Callers -> Record]
    BY <1>1, <1>2, IdleRecord
  <2>. QED BY <1>2, <2>1 DEF GatewayInv, GatewayTypeOK, Record
<1>4. ReadIsMarked'
  BY <1>1, <1>2 DEF GatewayInv, ReadIsMarked, Quiet
<1>5. MonthInSince'
  BY <1>2 DEF GatewayInv, MonthInSince
<1>6. CommitmentBounded'
  <2>1. 0 \in 0..MaxCost
    BY DEF GatewayAssumption
  <2>2. costs' = [costs EXCEPT ![call[u].month] = @ + 0]
    <3>1. call[u].month \in Calendar
      BY <1>1 DEF Record
    <3>. QED BY <1>1, <1>2, <3>1
  <2>. QED BY <1>1, <1>2, <2>1, <2>2, CallEnds
<1>. QED BY <1>3, <1>4, <1>5, <1>6 DEF GatewayInv

LEMMA GatewayStep == GatewayAssumption /\ GatewayInv /\ [GatewayNext]_gatewayVars => GatewayInv'
<1>. SUFFICES ASSUME GatewayAssumption, GatewayInv, [GatewayNext]_gatewayVars PROVE GatewayInv'
  OBVIOUS
<1>1. CASE SetFlag \/ (\E p \in Providers : SetProvider(p))
           \/ (\E b \in Budgets : SetBudget(b)) \/ NextMonth
  BY <1>1, SettingSteps
<1>2. ASSUME NEW u \in Callers, (\E m \in 1..month : TakeMonth(u, m)) \/ ReadFlag(u)
      PROVE  GatewayInv'
  BY <1>2, FirstSteps
<1>3. ASSUME NEW u \in Callers, ReadSettings(u) PROVE GatewayInv'
  BY <1>3, SettingsStep
<1>4. ASSUME NEW u \in Callers, Go(u) PROVE GatewayInv'
  BY <1>4, GoStep
<1>5. ASSUME NEW u \in Callers, NEW cost \in 0..MaxCost, Reply(u, cost) PROVE GatewayInv'
  BY <1>5, ReplyStep
<1>6. ASSUME NEW u \in Callers, NEW cost \in 0..MaxCost, Write(u, cost) PROVE GatewayInv'
  BY <1>6, WriteStep
<1>7. ASSUME NEW u \in Callers, Fail(u) PROVE GatewayInv'
  BY <1>7, FailStep
<1>8. CASE UNCHANGED gatewayVars
  BY <1>8 DEF gatewayVars, GatewayInv, GatewayTypeOK, ReadIsMarked, MonthInSince,
              CommitmentBounded, Committed, Unwritten
<1>. QED BY <1>1, <1>2, <1>3, <1>4, <1>5, <1>6, <1>7, <1>8 DEF GatewayNext

(* Whatever the budgets, the costs and the requests under way, a month whose  *)
(* calls were all held by a budget costs less than the highest of them and    *)
(* one call for each request (call of ai-gateway.service.ts).                 *)
THEOREM OverspendingIsBounded == GatewaySpec => []OverspendingBounded
<1>. USE GatewayAssumption
<1>1. GatewayInv => OverspendingBounded
  <2>. SUFFICES ASSUME GatewayInv, NEW m \in Calendar \ unlimited
                PROVE  costs[m] < allowed[m] + MaxCost * Cardinality(Callers)
    BY DEF OverspendingBounded
  <2>1. Committed(m) < allowed[m] + MaxCost * Cardinality(Callers)
    BY DEF GatewayInv, CommitmentBounded
  <2>2. MaxCost \in Nat /\ costs[m] \in Nat /\ allowed[m] \in Nat
    BY DEF GatewayAssumption, GatewayInv, GatewayTypeOK
  <2>3. MaxCost * Cardinality(Unwritten(m)) \in Nat /\ MaxCost * Cardinality(Callers) \in Nat
    BY <2>2, Counted, Monotone
  <2>. QED BY <2>1, <2>2, <2>3 DEF Committed
<1>. QED BY <1>1, GatewayStart, GatewayStep, PTL DEF GatewaySpec

--------------------------------------------------------------------------------
(* The help of a provider. Numbers and lists.                                 *)
(*                                                                            *)
(* No library theorem that takes a predicate can be used here, so inductions  *)
(* are done with the least element of a set of counterexamples.               *)

LEMMA LeastNatural ==
  ASSUME NEW T \in SUBSET Nat, T # {}
  PROVE  \E m \in T : \A k \in T : m <= k
<1> DEFINE R == OpToRel(<, Nat)
<1>1. IsWellFoundedOn(R, Nat)
  BY NatLessThanWellFounded
<1>2. ASSUME NEW x \in Nat, NEW y \in Nat, y < x
      PROVE  <<y, x>> \in R
  BY <1>2 DEF OpToRel
<1> HIDE DEF R
<1>3. PICK m \in T : \A y \in T : ~(<<y, m>> \in R)
  BY <1>1, WFMin
<1>4. ASSUME NEW k \in T
      PROVE  m <= k
  <2>1. m \in Nat /\ k \in Nat
    OBVIOUS
  <2>2. ~(k < m)
    BY <1>2, <1>3, <2>1
  <2> QED
    BY <2>1, <2>2
<1> QED
  BY <1>3, <1>4

(* Induction: a set that has 0 and every successor up to n has them all.      *)
LEMMA UpTo ==
  ASSUME NEW n \in Nat, NEW T, 0 \in T, \A k \in 1..n : k - 1 \in T => k \in T
  PROVE  0..n \subseteq T
<1> SUFFICES ASSUME 0..n \ T # {}
             PROVE  FALSE
  OBVIOUS
<1>0. 0..n \ T \in SUBSET Nat
  OBVIOUS
<1>1. PICK m \in 0..n \ T : \A k \in 0..n \ T : m <= k
  BY <1>0, LeastNatural
<1>2. m \in 1..n /\ m - 1 \in 0..n /\ m - 1 < m
  BY <1>1
<1>3. m - 1 \in T
  BY <1>1, <1>2
<1> QED
  BY <1>1, <1>2, <1>3

LEMMA MinIs ==
  ASSUME NEW S \in SUBSET Nat, S # {}
  PROVE  Min(S) \in S /\ \A k \in S : Min(S) <= k
<1>1. \E m \in S : \A k \in S : m =< k
  BY LeastNatural
<1> QED
  BY <1>1 DEF Min

LEMMA MaxIs ==
  ASSUME NEW S, NEW m \in S, S \subseteq Nat, \A k \in S : k <= m
  PROVE  Max(S) = m
<1>1. \A y \in S : m >= y
  OBVIOUS
<1>2. Max(S) \in S /\ \A y \in S : Max(S) >= y
  BY <1>1 DEF Max
<1>3. Max(S) \in Nat /\ m \in Nat /\ Max(S) >= m /\ m >= Max(S)
  BY <1>1, <1>2
<1> QED
  BY <1>3

IsText(t) == t \in Seq(Range(t))

LEMMA TextIs ==
  ASSUME NEW t
  PROVE  IsText(t) <=> \E n \in Nat : t \in [1..n -> Range(t)]
BY SeqDef DEF IsText

LEMMA TextOf ==
  ASSUME NEW n \in Nat, NEW S, NEW t \in [1..n -> S]
  PROVE  IsText(t) /\ Len(t) = n /\ DOMAIN t = 1..n
<1>1. t \in [1..n -> Range(t)]
  BY DEF Range
<1>2. t \in Seq(Range(t))
  BY <1>1, SeqDef
<1> QED
  BY <1>2, LenProperties DEF IsText

LEMMA SeqText ==
  ASSUME NEW S, NEW t \in Seq(S)
  PROVE  IsText(t)
<1>1. PICK n \in Nat : t \in [1..n -> S]
  BY SeqDef
<1> QED
  BY <1>1, TextOf

LEMMA EmptyText == IsText(<< >>)
<1>1. << >> \in Seq({})
  OBVIOUS
<1> QED
  BY <1>1, SeqText

LEMMA TextDomain ==
  ASSUME NEW t, IsText(t)
  PROVE  Len(t) \in Nat /\ DOMAIN t = 1..Len(t) /\ t = [i \in 1..Len(t) |-> t[i]]
BY LenProperties DEF IsText

LEMMA SubText ==
  ASSUME NEW t, IsText(t), NEW i \in 1..(Len(t) + 1), NEW j \in (i - 1)..Len(t)
  PROVE  /\ IsText(SubSeq(t, i, j)) /\ Len(SubSeq(t, i, j)) = j - i + 1
         /\ \A k \in 1..(j - i + 1) : SubSeq(t, i, j)[k] = t[i + k - 1]
<1>1. /\ SubSeq(t, i, j) \in Seq(Range(t))
      /\ Len(SubSeq(t, i, j)) = IF i <= j THEN j - i + 1 ELSE 0
      /\ \A k \in 1..(j - i + 1) : SubSeq(t, i, j)[k] = t[k + i - 1]
  <2>1. t \in Seq(Range(t)) /\ Len(t) \in Nat
    BY TextDomain DEF IsText
  <2> QED
    BY <2>1, SubSeqProperties
<1>2. IsText(SubSeq(t, i, j))
  BY <1>1, SeqText
<1> QED
  BY <1>1, <1>2, TextDomain

LEMMA Concatenated ==
  ASSUME NEW s, NEW t, IsText(s), IsText(t)
  PROVE  /\ IsText(s \o t) /\ Len(s \o t) = Len(s) + Len(t)
         /\ \A i \in 1..Len(s) : (s \o t)[i] = s[i]
         /\ \A i \in 1..Len(t) : (s \o t)[Len(s) + i] = t[i]
<1> DEFINE S == Range(s) \cup Range(t)
<1>1. s \in Seq(S) /\ t \in Seq(S)
  BY SeqMonotonic DEF IsText
<1> HIDE DEF S
<1>2. /\ s \o t \in Seq(S) /\ Len(s \o t) = Len(s) + Len(t)
      /\ \A i \in 1..(Len(s) + Len(t)) :
           (s \o t)[i] = IF i <= Len(s) THEN s[i] ELSE t[i - Len(s)]
  BY <1>1, ConcatProperties
<1>3. IsText(s \o t)
  BY <1>2, SeqText
<1>4. Len(s) \in Nat /\ Len(t) \in Nat
  BY TextDomain
<1>5. ASSUME NEW i \in 1..Len(t)
      PROVE  (s \o t)[Len(s) + i] = t[i]
  <2>1. Len(s) + i \in 1..(Len(s) + Len(t)) /\ ~(Len(s) + i <= Len(s)) /\ Len(s) + i - Len(s) = i
    BY <1>4
  <2> QED
    BY <1>2, <2>1
<1> QED
  BY <1>2, <1>3, <1>4, <1>5

--------------------------------------------------------------------------------
(* A fold is a sequence of steps: the value of the step k is made from that   *)
(* of the step k - 1. The fold of the library goes over subsets, with a       *)
(* function that exists because the least number that takes it away from a    *)
(* subset is smaller.                                                         *)

Begun(done) == [text |-> << >>, table |-> done.table, next |-> 1]

ScanRec(f, done, p, s) ==
  IF s = {} THEN Begun(done)
  ELSE Scan(done.text, p, f[s \ {Max(s)}], [i \in DOMAIN done.text |-> i][Max(s)])

ScanFun(f, done, p, n) == f = [s \in SUBSET (1..n) |-> ScanRec(f, done, p, s)]

LEMMA RunPassIs ==
  ASSUME NEW done, NEW p, NEW n \in Nat, DOMAIN done.text = 1..n
  PROVE  RunPass(done, p) =
           LET f == CHOOSE f : ScanFun(f, done, p, n)
           IN [text |-> f[1..n].text, table |-> f[1..n].table]
BY DEF RunPass, FoldLeftDomain, FoldLeft, MapThenFoldSet, ScanFun, ScanRec, Begun

LEMMA ScanFunExists ==
  ASSUME NEW done, NEW p, NEW n \in Nat
  PROVE  \E f : ScanFun(f, done, p, n)
<1> DEFINE T == {k \in 0..n : \E f : ScanFun(f, done, p, k)}
<1>1. 0 \in T
  <2> DEFINE f == [s \in SUBSET (1..0) |-> Begun(done)]
  <2>1. 1..0 = {} /\ SUBSET {} = {{}}
    OBVIOUS
  <2>2. ScanFun(f, done, p, 0)
    BY <2>1 DEF ScanFun, ScanRec
  <2> QED
    BY <2>2
<1>2. ASSUME NEW k \in 1..n, k - 1 \in T
      PROVE  k \in T
  <2>1. PICK f : ScanFun(f, done, p, k - 1)
    BY <1>2
  <2> DEFINE g == [s \in SUBSET (1..k) |->
                     IF k \in s THEN Scan(done.text, p, f[s \ {k}], [i \in DOMAIN done.text |-> i][k])
                     ELSE f[s]]
  <2>2. ASSUME NEW s \in SUBSET (1..k), k \notin s
        PROVE  s \in SUBSET (1..(k - 1))
    BY <2>2
  <2>3. ASSUME NEW s \in SUBSET (1..k)
        PROVE  g[s] = ScanRec(g, done, p, s)
    <3>1. CASE k \in s
      <4>1. Max(s) = k
        <5>1. k \in s /\ s \subseteq Nat /\ \A j \in s : j <= k
          BY <3>1
        <5> QED
          BY <5>1, MaxIs
      <4>2. s \ {k} \in SUBSET (1..k) /\ s # {}
        BY <3>1
      <4>3. g[s \ {k}] = f[s \ {k}]
        BY <4>2
      <4> HIDE DEF g
      <4>4. g[s] = Scan(done.text, p, f[s \ {k}], [i \in DOMAIN done.text |-> i][k])
        BY <3>1 DEF g
      <4> QED
        BY <4>1, <4>2, <4>3, <4>4 DEF ScanRec
    <3>2. CASE k \notin s
      <4>1. s \in SUBSET (1..(k - 1)) /\ s \ {Max(s)} \in SUBSET (1..k) /\ k \notin s \ {Max(s)}
        BY <2>2, <3>2
      <4>2. g[s \ {Max(s)}] = f[s \ {Max(s)}] /\ g[s] = f[s]
        BY <3>2, <4>1
      <4> HIDE DEF g
      <4>3. f[s] = ScanRec(f, done, p, s)
        BY <2>1, <4>1 DEF ScanFun
      <4> QED
        BY <4>2, <4>3 DEF ScanRec
    <3> QED
      BY <3>1, <3>2
  <2>4. g = [s \in SUBSET (1..k) |-> g[s]]
    OBVIOUS
  <2> HIDE DEF g
  <2>5. ScanFun(g, done, p, k)
    BY <2>3, <2>4 DEF ScanFun
  <2> QED
    BY <2>5
<1> HIDE DEF T
<1>3. n \in T
  BY <1>1, <1>2, UpTo
<1> QED
  BY <1>3 DEF T

LEMMA ScanSteps ==
  ASSUME NEW done, NEW p, NEW n \in Nat, DOMAIN done.text = 1..n
  PROVE  \E it : /\ it[0] = Begun(done)
                 /\ \A k \in 1..n : it[k] = Scan(done.text, p, it[k - 1], k)
                 /\ RunPass(done, p) = [text |-> it[n].text, table |-> it[n].table]
<1> DEFINE f == CHOOSE f : ScanFun(f, done, p, n)
           it == [k \in 0..n |-> f[1..k]]
<1>1. ScanFun(f, done, p, n)
  BY ScanFunExists
<1>2. RunPass(done, p) = [text |-> f[1..n].text, table |-> f[1..n].table]
  BY RunPassIs
<1> HIDE DEF f
<1>3. it[0] = Begun(done)
  BY <1>1 DEF ScanFun, ScanRec
<1>4. ASSUME NEW k \in 1..n
      PROVE  it[k] = Scan(done.text, p, it[k - 1], k)
  <2>1. Max(1..k) = k
    <3>1. k \in 1..k /\ 1..k \subseteq Nat /\ \A j \in 1..k : j <= k
      OBVIOUS
    <3> QED
      BY <3>1, MaxIs
  <2>2. /\ (1..k) \ {k} = 1..(k - 1) /\ 1..k # {} /\ 1..k \in SUBSET (1..n)
        /\ k \in 0..n /\ k - 1 \in 0..n
    OBVIOUS
  <2>3. f[1..k] = ScanRec(f, done, p, 1..k)
    BY <1>1, <2>2 DEF ScanFun
  <2>4. [i \in DOMAIN done.text |-> i][k] = k
    OBVIOUS
  <2>5. f[1..k] = Scan(done.text, p, f[1..(k - 1)], k)
    BY <2>1, <2>2, <2>3, <2>4 DEF ScanRec
  <2> QED
    BY <2>2, <2>5
<1>5. it[n] = f[1..n]
  OBVIOUS
<1> QED
  BY <1>2, <1>3, <1>4, <1>5

(* The same for the passes.                                                   *)

Read(text, map) == [text |-> text, table |-> TokenTable(map)]

PassRec(f, text, map, s) ==
  IF s = {} THEN Read(text, map) ELSE RunPass(f[s \ {Max(s)}], Passes[Max(s)])

PassFun(f, text, map, n) == f = [s \in SUBSET (1..n) |-> PassRec(f, text, map, s)]

LEMMA PseudonymizeIs ==
  ASSUME NEW text, NEW map, NEW n \in Nat, DOMAIN Passes = 1..n
  PROVE  Pseudonymize(text, map) =
           LET f == CHOOSE f : PassFun(f, text, map, n)
           IN [text |-> f[1..n].text, map |-> f[1..n].table.map]
BY DEF Pseudonymize, FoldLeft, MapThenFoldSet, PassFun, PassRec, Read

LEMMA PassFunExists ==
  ASSUME NEW text, NEW map, NEW n \in Nat
  PROVE  \E f : PassFun(f, text, map, n)
<1> DEFINE T == {k \in 0..n : \E f : PassFun(f, text, map, k)}
<1>1. 0 \in T
  <2> DEFINE f == [s \in SUBSET (1..0) |-> Read(text, map)]
  <2>1. 1..0 = {} /\ SUBSET {} = {{}}
    OBVIOUS
  <2>2. PassFun(f, text, map, 0)
    BY <2>1 DEF PassFun, PassRec
  <2> QED
    BY <2>2
<1>2. ASSUME NEW k \in 1..n, k - 1 \in T
      PROVE  k \in T
  <2>1. PICK f : PassFun(f, text, map, k - 1)
    BY <1>2
  <2> DEFINE g == [s \in SUBSET (1..k) |->
                     IF k \in s THEN RunPass(f[s \ {k}], Passes[k])
                     ELSE f[s]]
  <2>2. ASSUME NEW s \in SUBSET (1..k), k \notin s
        PROVE  s \in SUBSET (1..(k - 1))
    BY <2>2
  <2>3. ASSUME NEW s \in SUBSET (1..k)
        PROVE  g[s] = PassRec(g, text, map, s)
    <3>1. CASE k \in s
      <4>1. Max(s) = k
        <5>1. k \in s /\ s \subseteq Nat /\ \A j \in s : j <= k
          BY <3>1
        <5> QED
          BY <5>1, MaxIs
      <4>2. s \ {k} \in SUBSET (1..k) /\ s # {}
        BY <3>1
      <4>3. g[s \ {k}] = f[s \ {k}]
        BY <4>2
      <4> HIDE DEF g
      <4>4. g[s] = RunPass(f[s \ {k}], Passes[k])
        BY <3>1 DEF g
      <4> QED
        BY <4>1, <4>2, <4>3, <4>4 DEF PassRec
    <3>2. CASE k \notin s
      <4>1. s \in SUBSET (1..(k - 1)) /\ s \ {Max(s)} \in SUBSET (1..k) /\ k \notin s \ {Max(s)}
        BY <2>2, <3>2
      <4>2. g[s \ {Max(s)}] = f[s \ {Max(s)}] /\ g[s] = f[s]
        BY <3>2, <4>1
      <4> HIDE DEF g
      <4>3. f[s] = PassRec(f, text, map, s)
        BY <2>1, <4>1 DEF PassFun
      <4> QED
        BY <4>2, <4>3 DEF PassRec
    <3> QED
      BY <3>1, <3>2
  <2>4. g = [s \in SUBSET (1..k) |-> g[s]]
    OBVIOUS
  <2> HIDE DEF g
  <2>5. PassFun(g, text, map, k)
    BY <2>3, <2>4 DEF PassFun
  <2> QED
    BY <2>5
<1> HIDE DEF T
<1>3. n \in T
  BY <1>1, <1>2, UpTo
<1> QED
  BY <1>3 DEF T

LEMMA PassSteps ==
  ASSUME NEW text, NEW map, NEW n \in Nat, DOMAIN Passes = 1..n
  PROVE  \E it : /\ it[0] = Read(text, map)
                 /\ \A k \in 1..n : it[k] = RunPass(it[k - 1], Passes[k])
                 /\ Pseudonymize(text, map) = [text |-> it[n].text, map |-> it[n].table.map]
<1> DEFINE f == CHOOSE f : PassFun(f, text, map, n)
           it == [k \in 0..n |-> f[1..k]]
<1>1. PassFun(f, text, map, n)
  BY PassFunExists
<1>2. Pseudonymize(text, map) = [text |-> f[1..n].text, map |-> f[1..n].table.map]
  BY PseudonymizeIs
<1> HIDE DEF f
<1>3. it[0] = Read(text, map)
  BY <1>1 DEF PassFun, PassRec
<1>4. ASSUME NEW k \in 1..n
      PROVE  it[k] = RunPass(it[k - 1], Passes[k])
  <2>1. Max(1..k) = k
    <3>1. k \in 1..k /\ 1..k \subseteq Nat /\ \A j \in 1..k : j <= k
      OBVIOUS
    <3> QED
      BY <3>1, MaxIs
  <2>2. /\ (1..k) \ {k} = 1..(k - 1) /\ 1..k # {} /\ 1..k \in SUBSET (1..n)
        /\ k \in 0..n /\ k - 1 \in 0..n
    OBVIOUS
  <2>3. f[1..k] = PassRec(f, text, map, 1..k)
    BY <1>1, <2>2 DEF PassFun
  <2>4. f[1..k] = RunPass(f[1..(k - 1)], Passes[k])
    BY <2>1, <2>2, <2>3 DEF PassRec
  <2> QED
    BY <2>2, <2>4
<1>5. it[n] = f[1..n]
  OBVIOUS
<1> QED
  BY <1>2, <1>3, <1>4, <1>5

--------------------------------------------------------------------------------
(* The passes, and what they find.                                            *)

FirstPasses ==
  <<[kind |-> "EMAIL", by |-> "mail"], [kind |-> "MONTANT", by |-> "amount"],
    [kind |-> "SIREN", by |-> "id"], [kind |-> "SIRET", by |-> "siret"],
    [kind |-> "SIREN", by |-> "siren"], [kind |-> "ADRESSE", by |-> "street"]>>

NamePass(name) == [kind |-> name.kind, by |-> "name", folded |-> name.folded]

LastPass == [kind |-> "PERSONNE", by |-> "civility"]

LEMMA PassList ==
  /\ Len(KnownNames) \in Nat
  /\ DOMAIN Passes = 1..(7 + Len(KnownNames))
  /\ \A k \in 1..6 : Passes[k] = FirstPasses[k]
  /\ \A k \in DOMAIN KnownNames : Passes[6 + k] = NamePass(KnownNames[k])
  /\ Passes[7 + Len(KnownNames)] = LastPass
<1> DEFINE N == [k \in DOMAIN KnownNames |-> NamePass(KnownNames[k])]
<1>1. IsText(KnownNames)
  BY NamesAssumption DEF IsText
<1>2. Len(KnownNames) \in Nat /\ DOMAIN KnownNames = 1..Len(KnownNames)
  BY <1>1, TextDomain
<1>3. IsText(N) /\ Len(N) = Len(KnownNames)
  <2>1. N \in [1..Len(KnownNames) -> Range(N)]
    BY <1>2 DEF Range
  <2> HIDE DEF N
  <2> QED
    BY <1>2, <2>1, TextOf
<1>4. IsText(FirstPasses) /\ Len(FirstPasses) = 6
  <2>1. FirstPasses \in Seq({FirstPasses[1], FirstPasses[2], FirstPasses[3], FirstPasses[4],
                             FirstPasses[5], FirstPasses[6]})
    BY DEF FirstPasses
  <2>2. Len(FirstPasses) = 6
    BY DEF FirstPasses
  <2> QED
    BY <2>1, <2>2, SeqText
<1>5. IsText(<<LastPass>>) /\ Len(<<LastPass>>) = 1 /\ <<LastPass>>[1] = LastPass
  <2>1. <<LastPass>> \in Seq({LastPass})
    OBVIOUS
  <2> QED
    BY <2>1, SeqText
<1>6. Passes = (FirstPasses \o N) \o <<LastPass>>
  BY DEF Passes, FirstPasses, NamePass, LastPass
<1> DEFINE P == FirstPasses \o N
<1> HIDE DEF N
<1>7. /\ IsText(P) /\ Len(P) = 6 + Len(KnownNames)
      /\ \A k \in 1..6 : P[k] = FirstPasses[k]
      /\ \A k \in 1..Len(KnownNames) : P[6 + k] = N[k]
  <2>1. /\ IsText(FirstPasses \o N)
        /\ Len(FirstPasses \o N) = Len(FirstPasses) + Len(N)
        /\ \A k \in 1..Len(FirstPasses) : (FirstPasses \o N)[k] = FirstPasses[k]
        /\ \A k \in 1..Len(N) : (FirstPasses \o N)[Len(FirstPasses) + k] = N[k]
    <3>1. IsText(FirstPasses) /\ IsText(N)
      BY <1>3, <1>4
    <3> QED
      BY <3>1, Concatenated
  <2> QED
    BY <1>3, <1>4, <2>1
<1> HIDE DEF P
<1>8. /\ IsText(Passes) /\ Len(Passes) = 7 + Len(KnownNames)
      /\ \A k \in 1..(6 + Len(KnownNames)) : Passes[k] = P[k]
      /\ Passes[7 + Len(KnownNames)] = LastPass
  <2>1. /\ IsText(P \o <<LastPass>>) /\ Len(P \o <<LastPass>>) = Len(P) + 1
        /\ \A k \in 1..Len(P) : (P \o <<LastPass>>)[k] = P[k]
        /\ (P \o <<LastPass>>)[Len(P) + 1] = LastPass
    BY <1>5, <1>7, Concatenated
  <2>2. Passes = P \o <<LastPass>>
    BY <1>6 DEF P
  <2>3. Len(P) + 1 = 7 + Len(KnownNames)
    BY <1>2, <1>7
  <2> QED
    BY <1>7, <2>1, <2>2, <2>3
<1>9. \A k \in 1..6 : k \in 1..(6 + Len(KnownNames))
  BY <1>2
<1>10. \A k \in 1..Len(KnownNames) : 6 + k \in 1..(6 + Len(KnownNames))
  BY <1>2
<1>11. \A k \in DOMAIN KnownNames : N[k] = NamePass(KnownNames[k])
  BY DEF N
<1> QED
  BY <1>2, <1>7, <1>8, <1>9, <1>10, <1>11, TextDomain

(* A pass is one of these.                                                    *)
LEMMA PassIs ==
  ASSUME NEW p \in Range(Passes)
  PROVE  \/ p.by \in {"mail", "amount", "id", "siret", "siren", "street", "civility"}
         \/ p.by = "name" /\ \E k \in DOMAIN KnownNames : p.folded = KnownNames[k].folded
<1>1. PICK j \in 1..(7 + Len(KnownNames)) : p = Passes[j]
  BY PassList DEF Range
<1>2. Len(KnownNames) \in Nat /\ DOMAIN KnownNames = 1..Len(KnownNames)
  BY NamesAssumption, TextDomain, PassList DEF IsText
<1>3. CASE j \in 1..6
  <2>1. p = FirstPasses[j]
    BY <1>1, <1>3, PassList
  <2>2. j = 1 \/ j = 2 \/ j = 3 \/ j = 4 \/ j = 5 \/ j = 6
    BY <1>3
  <2> QED
    BY <2>1, <2>2 DEF FirstPasses
<1>4. CASE j = 7 + Len(KnownNames)
  BY <1>1, <1>4, PassList DEF LastPass
<1>5. CASE j \notin 1..6 /\ j # 7 + Len(KnownNames)
  <2>1. j - 6 \in DOMAIN KnownNames /\ 6 + (j - 6) = j
    BY <1>2, <1>5
  <2>2. p = NamePass(KnownNames[j - 6])
    BY <1>1, <2>1, PassList
  <2> QED
    BY <2>1, <2>2 DEF NamePass
<1> QED
  BY <1>3, <1>4, <1>5

(* And the guard looks for all of them.                                       *)
LEMMA PassOf ==
  /\ \A by \in {"mail", "amount", "id", "siret", "siren", "street", "civility"} :
       \E p \in Range(Passes) : p.by = by
  /\ \A k \in DOMAIN KnownNames :
       \E p \in Range(Passes) : p.by = "name" /\ p.folded = KnownNames[k].folded
<1>1. /\ Len(KnownNames) \in Nat
      /\ DOMAIN KnownNames = 1..Len(KnownNames)
      /\ \A k \in DOMAIN Passes : Passes[k] \in Range(Passes)
  BY NamesAssumption, TextDomain, PassList DEF IsText, Range
<1>2. \A k \in 1..6 : FirstPasses[k] \in Range(Passes)
  <2>1. \A k \in 1..6 : k \in DOMAIN Passes
    BY <1>1, PassList
  <2> QED
    BY <1>1, <2>1, PassList
<1>3. LastPass \in Range(Passes)
  <2>1. 7 + Len(KnownNames) \in DOMAIN Passes
    BY <1>1, PassList
  <2> QED
    BY <1>1, <2>1, PassList
<1>4. ASSUME NEW k \in DOMAIN KnownNames
      PROVE  NamePass(KnownNames[k]) \in Range(Passes)
  <2>1. 6 + k \in DOMAIN Passes
    BY <1>1, PassList
  <2> QED
    BY <1>1, <2>1, PassList
<1>5. /\ FirstPasses[1].by = "mail" /\ FirstPasses[2].by = "amount" /\ FirstPasses[3].by = "id"
      /\ FirstPasses[4].by = "siret" /\ FirstPasses[5].by = "siren"
      /\ FirstPasses[6].by = "street" /\ LastPass.by = "civility"
  BY DEF FirstPasses, LastPass
<1>6. \A k \in DOMAIN KnownNames : /\ NamePass(KnownNames[k]).by = "name"
                                   /\ NamePass(KnownNames[k]).folded = KnownNames[k].folded
  BY DEF NamePass
<1> QED
  BY <1>2, <1>3, <1>4, <1>5, <1>6

LEMMA FirstBeyond ==
  ASSUME NEW t, IsText(t), NEW i \in 1..Len(t), NEW classes, "end" \notin classes
  PROVE  /\ Beyond(t, i, classes) \in (i + 1)..(Len(t) + 1)
         /\ Class(t, Beyond(t, i, classes)) \notin classes
         /\ \A k \in (i + 1)..(Beyond(t, i, classes) - 1) : Class(t, k) \in classes
<1> DEFINE S == {k \in (i + 1)..(Len(t) + 1) : Class(t, k) \notin classes}
<1>1. Len(t) \in Nat /\ DOMAIN t = 1..Len(t)
  BY TextDomain
<1>2. Len(t) + 1 \in S
  BY <1>1 DEF Class
<1>3. S \in SUBSET Nat /\ Beyond(t, i, classes) = Min(S)
  BY <1>1 DEF Beyond
<1>4. Min(S) \in S /\ \A k \in S : Min(S) <= k
  <2> HIDE DEF S
  <2> QED
    BY <1>2, <1>3, MinIs
<1>5. ASSUME NEW k \in (i + 1)..(Min(S) - 1)
      PROVE  Class(t, k) \in classes
  <2>1. Min(S) \in (i + 1)..(Len(t) + 1)
    BY <1>4
  <2>2. k \in (i + 1)..(Len(t) + 1) /\ ~(Min(S) <= k)
    BY <1>1, <2>1
  <2> QED
    BY <1>4, <2>2
<1> QED
  BY <1>3, <1>4, <1>5

(* What a reader would recognise, one of the finders finds, here or just      *)
(* before.                                                                    *)
LEMMA ClassInside ==
  ASSUME NEW t, NEW i, Class(t, i) # "end"
  PROVE  i \in DOMAIN t /\ Class(t, i) = t[i][1]
BY DEF Class

LEMMA EuroFound ==
  ASSUME NEW t, IsText(t), NEW i \in DOMAIN t, Class(t, i) = "euro", Class(t, i - 1) \in Digits
  PROVE  i - 1 \in DOMAIN t /\ Amount(t, i - 1) # 0
<1> DEFINE classes == IF Class(t, i - 1) = "five" THEN {} ELSE {"nine"}
           last == Beyond(t, i - 1, classes)
<1>1. i - 1 \in DOMAIN t
  BY ClassInside DEF Digits
<1>2. i - 1 \in 1..Len(t) /\ i \in 1..Len(t) /\ Len(t) \in Nat
  BY <1>1, TextDomain
<1>3. "end" \notin classes /\ "euro" \notin classes
  OBVIOUS
<1> HIDE DEF classes
<1>4. /\ last \in (i - 1 + 1)..(Len(t) + 1)
      /\ \A k \in (i - 1 + 1)..(last - 1) : Class(t, k) \in classes
  BY <1>2, <1>3, FirstBeyond
<1>5. last = i
  <2> HIDE DEF last
  <2>1. i \notin i..(last - 1)
    BY <1>2, <1>3, <1>4
  <2> QED
    BY <1>2, <1>4, <2>1
<1>6. Amount(t, i - 1) = IF Class(t, i - 1) \in Digits /\ Class(t, last) = "euro" THEN last ELSE 0
  BY DEF Amount, classes
<1> QED
  BY <1>1, <1>2, <1>5, <1>6

LEMMA CivilityFound ==
  ASSUME NEW t, IsText(t), NEW i \in DOMAIN t, Class(t, i) = "cap", Class(t, i - 1) = "civ"
  PROVE  i - 1 \in DOMAIN t /\ Civility(t, i - 1) # 0
<1> DEFINE beyond == Beyond(t, i - 1, {"cap"})
           last == Min({beyond - 1, i - 1 + 3})
<1>1. i - 1 \in DOMAIN t
  BY ClassInside
<1>2. i - 1 \in 1..Len(t) /\ i \in 1..Len(t) /\ Len(t) \in Nat
  BY <1>1, TextDomain
<1>3. beyond \in (i - 1 + 1)..(Len(t) + 1) /\ Class(t, beyond) # "cap"
  BY <1>2, FirstBeyond
<1> HIDE DEF beyond
<1>4. beyond >= i + 1
  BY <1>2, <1>3
<1>5. last \in {beyond - 1, i + 2}
  <2>1. {beyond - 1, i - 1 + 3} \in SUBSET Nat /\ {beyond - 1, i - 1 + 3} # {}
    BY <1>2, <1>3
  <2>2. Min({beyond - 1, i - 1 + 3}) \in {beyond - 1, i - 1 + 3}
    BY <2>1, MinIs
  <2>3. i - 1 + 3 = i + 2
    BY <1>2
  <2> QED
    BY <2>2, <2>3
<1>6. Civility(t, i - 1) = IF Class(t, i - 1) = "civ" /\ last > i - 1 THEN last ELSE 0
  BY DEF Civility, beyond
<1> HIDE DEF last
<1> QED
  BY <1>1, <1>2, <1>3, <1>4, <1>5, <1>6

LEMMA TailNotEmpty ==
  ASSUME NEW t, IsText(t), NEW end \in 1..Len(t)
  PROVE  CityTail(t, end) \in end..Len(t)
<1> DEFINE code == IF end + 1 \in DOMAIN t /\ t[end + 1] = <<"sep", ",">> THEN end + 2 ELSE end + 1
<1>1. CASE Class(t, code) = "five" /\ Class(t, code + 1) = "cap"
  <2>1. code \in 1..Len(t) /\ Len(t) \in Nat
    BY <1>1, ClassInside, TextDomain
  <2>2. Beyond(t, code, {"cap"}) \in (code + 1)..(Len(t) + 1)
    BY <2>1, FirstBeyond
  <2>3. CityTail(t, end) = Beyond(t, code, {"cap"}) - 1
    BY <1>1 DEF CityTail
  <2>4. end \in Int
    <3>1. Len(t) \in Nat
      BY TextDomain
    <3> QED
      BY <3>1
  <2>5. code = end + 2 \/ code = end + 1
    OBVIOUS
  <2> HIDE DEF code
  <2> QED
    BY <2>1, <2>2, <2>3, <2>4, <2>5
<1>2. CASE ~(Class(t, code) = "five" /\ Class(t, code + 1) = "cap")
  <2>1. CityTail(t, end) = end
    BY <1>2 DEF CityTail
  <2> QED
    BY <2>1, TextDomain
<1> QED
  BY <1>1, <1>2

StreetStop(t, i) ==
  Min({k \in (i + 2)..(Len(t) + 1) : Class(t, k) \in {"sep", "five", "token", "end"}})

LEMMA StreetStops ==
  ASSUME NEW t, IsText(t), NEW i \in 1..Len(t), Class(t, i + 1) = "street"
  PROVE  /\ StreetStop(t, i) \in (i + 2)..(Len(t) + 1)
         /\ Class(t, StreetStop(t, i)) \in {"sep", "five", "token", "end"}
         /\ \A k \in (i + 2)..(StreetStop(t, i) - 1) :
              Class(t, k) \notin {"sep", "five", "token", "end"}
<1> DEFINE S == {k \in (i + 2)..(Len(t) + 1) : Class(t, k) \in {"sep", "five", "token", "end"}}
<1>1. Len(t) \in Nat /\ DOMAIN t = 1..Len(t) /\ i + 1 \in DOMAIN t
  BY ClassInside, TextDomain
<1>2. Len(t) + 1 \in S
  BY <1>1 DEF Class
<1>3. S \in SUBSET Nat /\ StreetStop(t, i) = Min(S)
  BY <1>1 DEF StreetStop
<1>4. Min(S) \in S /\ \A k \in S : Min(S) <= k
  <2> HIDE DEF S
  <2> QED
    BY <1>2, <1>3, MinIs
<1>5. ASSUME NEW k \in (i + 2)..(Min(S) - 1)
      PROVE  Class(t, k) \notin {"sep", "five", "token", "end"}
  <2>1. Min(S) \in (i + 2)..(Len(t) + 1)
    BY <1>4
  <2>2. k \in (i + 2)..(Len(t) + 1) /\ ~(Min(S) <= k)
    BY <1>1, <2>1
  <2> QED
    BY <1>4, <2>2
<1> QED
  BY <1>3, <1>4, <1>5

LEMMA StreetFound ==
  ASSUME NEW t, IsText(t), NEW i \in DOMAIN t,
         Class(t, i) = "few", Class(t, i + 1) = "street", Class(t, i + 2) = "plain"
  PROVE  Street(t, i) # 0
<1> DEFINE stop == StreetStop(t, i)
<1>1. i \in 1..Len(t) /\ Len(t) \in Nat
  BY TextDomain
<1>2. stop \in (i + 2)..(Len(t) + 1) /\ Class(t, stop) # "plain"
  BY <1>1, StreetStops
<1>3. Street(t, i) =
        IF /\ Class(t, i) = "few" /\ Class(t, i + 1) = "street"
           /\ stop > i + 2 \/ Class(t, stop) \in {"five", "token"}
          THEN CityTail(t, stop - 1) ELSE 0
  BY DEF Street, StreetStop
<1> HIDE DEF stop
<1>4. stop > i + 2
  BY <1>1, <1>2
<1>5. CityTail(t, stop - 1) \in (stop - 1)..Len(t)
  BY <1>1, <1>2, TailNotEmpty
<1> QED
  BY <1>1, <1>2, <1>3, <1>4, <1>5

(* The guard: nothing recognisable passes it. It is the finders that matter,  *)
(* and not what the passes made of the text before.                           *)
LEMMA GuardSees ==
  ASSUME NEW t, IsText(t), NEW i \in DOMAIN t, Recognisable(t, i)
  PROVE  FindLeaks(t) # {}
<1> SUFFICES \E j \in DOMAIN t : \E p \in Range(Passes) : Found(p, t, j) # 0
  BY DEF FindLeaks
<1>1. i \in Nat \ {0} /\ DOMAIN t = 1..Len(t) /\ Len(t) \in Nat
  BY TextDomain
<1>2. CASE \E k \in DOMAIN KnownNames : Name(t, i, KnownNames[k].folded) # 0
  <2>1. PICK k \in DOMAIN KnownNames : Name(t, i, KnownNames[k].folded) # 0
    BY <1>2
  <2>2. PICK p \in Range(Passes) : p.by = "name" /\ p.folded = KnownNames[k].folded
    BY PassOf
  <2>3. Found(p, t, i) = Name(t, i, p.folded)
    BY <2>2 DEF Found
  <2> QED
    BY <2>1, <2>2, <2>3
<1>3. CASE Class(t, i) = "at" /\ Class(t, i - 1) \in Local
  <2>1. PICK p \in Range(Passes) : p.by = "mail"
    BY PassOf
  <2>2. i - 1 \in DOMAIN t
    BY <1>3, ClassInside DEF Local
  <2>3. Found(p, t, i - 1) = Mail(t, i - 1) /\ i - 1 + 1 = i
    BY <1>1, <2>1 DEF Found
  <2>4. Mail(t, i - 1) # 0
    BY <1>1, <1>3, <2>3 DEF Mail
  <2> QED
    BY <2>2, <2>3, <2>4
<1>4. CASE Class(t, i) = "nine" /\ (Apart(t, i, i) \/ t[i][2] \in KnownIds)
  <2>1. PICK p \in Range(Passes) : p.by = "siren"
    BY PassOf
  <2>2. PICK q \in Range(Passes) : q.by = "id"
    BY PassOf
  <2>3. Found(p, t, i) = Siren(t, i) /\ Found(q, t, i) = KnownId(t, i)
    BY <2>1, <2>2 DEF Found
  <2>4. Siren(t, i) # 0 \/ KnownId(t, i) # 0
    BY <1>1, <1>4 DEF Siren, KnownId
  <2> QED
    BY <2>3, <2>4
<1>5. CASE Class(t, i) = "euro" /\ Class(t, i - 1) \in Digits
  <2>1. PICK p \in Range(Passes) : p.by = "amount"
    BY PassOf
  <2>2. Found(p, t, i - 1) = Amount(t, i - 1)
    BY <2>1 DEF Found
  <2> QED
    BY <1>5, <2>2, EuroFound
<1>6. CASE Class(t, i) = "cap" /\ Class(t, i - 1) = "civ"
  <2>1. PICK p \in Range(Passes) : p.by = "civility"
    BY PassOf
  <2>2. Found(p, t, i - 1) = Civility(t, i - 1)
    BY <2>1 DEF Found
  <2> QED
    BY <1>6, <2>2, CivilityFound
<1>7. CASE Class(t, i) = "few" /\ Class(t, i + 1) = "street" /\ Class(t, i + 2) = "plain"
  <2>1. PICK p \in Range(Passes) : p.by = "street"
    BY PassOf
  <2>2. Found(p, t, i) = Street(t, i)
    BY <2>1 DEF Found
  <2> QED
    BY <1>7, <2>2, StreetFound
<1> QED
  BY <1>2, <1>3, <1>4, <1>5, <1>6, <1>7 DEF Recognisable

--------------------------------------------------------------------------------
(* What is recoded is a text.                                                 *)

LEMMA Extended ==
  ASSUME NEW t, IsText(t), NEW e
  PROVE  IsText(Append(t, e)) /\ IsText(t \o <<e>>) /\ Append(t, e) = t \o <<e>>
<1> DEFINE S == Range(t) \cup {e}
<1>1. t \in Seq(S) /\ e \in S
  BY SeqMonotonic DEF IsText
<1> HIDE DEF S
<1>2. Append(t, e) \in Seq(S) /\ <<e>> \in Seq(S) /\ t \o <<e>> \in Seq(S)
  BY <1>1
<1>3. Append(t, e) = t \o <<e>>
  BY <1>1
<1> QED
  BY <1>2, <1>3, SeqText

IsScan(acc) ==
  acc = [text |-> acc.text, table |-> acc.table, next |-> acc.next] /\ IsText(acc.text)

LEMMA ScanIsText ==
  ASSUME NEW text, IsText(text), NEW p, NEW acc, IsScan(acc), NEW i \in DOMAIN text
  PROVE  IsScan(Scan(text, p, acc, i))
<1> DEFINE end == Found(p, text, i)
           from == IF p.by = "civility" THEN i + 1 ELSE i
           got == TokenFor(acc.table, p.kind, SubSeq(text, from, end))
           kept == SubSeq(text, i, from - 1)
           new == [text |-> acc.text \o kept \o <<got.token>>, table |-> got.table,
                   next |-> end + 1]
<1>1. Scan(text, p, acc, i) =
        IF i < acc.next THEN acc
        ELSE IF end = 0 THEN [acc EXCEPT !.text = Append(@, text[i]), !.next = i + 1]
        ELSE new
  BY DEF Scan
<1>2. i \in 1..Len(text) /\ Len(text) \in Nat
  BY TextDomain
<1>3. IsText(kept)
  <2>1. from - 1 \in (i - 1)..Len(text) /\ i \in 1..(Len(text) + 1)
    BY <1>2
  <2> QED
    BY <2>1, SubText
<1>4. CASE i < acc.next
  BY <1>1, <1>4
<1>5. CASE ~(i < acc.next) /\ end = 0
  <2>1. IsText(Append(acc.text, text[i]))
    BY Extended DEF IsScan
  <2> QED
    BY <1>1, <1>5, <2>1 DEF IsScan
<1>6. CASE ~(i < acc.next) /\ end # 0
  <2> HIDE DEF kept, got, end
  <2>1. IsText(acc.text \o kept \o <<got.token>>)
    <3>1. IsText(acc.text \o kept)
      BY <1>3, Concatenated DEF IsScan
    <3> QED
      BY <3>1, Extended
  <2>2. IsScan(new)
    BY <2>1 DEF IsScan
  <2> QED
    BY <1>1, <1>6, <2>2
<1> QED
  BY <1>4, <1>5, <1>6

LEMMA RunPassIsText ==
  ASSUME NEW done, NEW p, IsText(done.text)
  PROVE  IsText(RunPass(done, p).text)
<1> DEFINE n == Len(done.text)
<1>1. n \in Nat /\ DOMAIN done.text = 1..n
  BY TextDomain
<1> HIDE DEF n
<1>2. PICK it : /\ it[0] = Begun(done)
                /\ \A k \in 1..n : it[k] = Scan(done.text, p, it[k - 1], k)
                /\ RunPass(done, p) = [text |-> it[n].text, table |-> it[n].table]
  BY <1>1, ScanSteps
<1> DEFINE T == {k \in 0..n : IsScan(it[k])}
<1>3. 0 \in T
  <2>1. IsText(<< >>)
    BY EmptyText
  <2>2. IsScan(Begun(done))
    BY <2>1 DEF IsScan, Begun
  <2> QED
    BY <1>1, <1>2, <2>2
<1>4. ASSUME NEW k \in 1..n, k - 1 \in T
      PROVE  k \in T
  <2>1. IsScan(it[k - 1]) /\ k \in DOMAIN done.text /\ k \in 0..n
    BY <1>1, <1>4
  <2> QED
    BY <1>2, <2>1, ScanIsText
<1> HIDE DEF T
<1>5. n \in T
  BY <1>1, <1>3, <1>4, UpTo
<1> QED
  BY <1>2, <1>5 DEF T, IsScan

LEMMA PseudonymizeIsText ==
  ASSUME NEW text, NEW map, IsText(text)
  PROVE  IsText(Pseudonymize(text, map).text)
<1> DEFINE n == 7 + Len(KnownNames)
<1>1. n \in Nat /\ DOMAIN Passes = 1..n
  BY PassList
<1> HIDE DEF n
<1>2. PICK it : /\ it[0] = Read(text, map)
                /\ \A k \in 1..n : it[k] = RunPass(it[k - 1], Passes[k])
                /\ Pseudonymize(text, map) = [text |-> it[n].text, map |-> it[n].table.map]
  BY <1>1, PassSteps
<1> DEFINE T == {k \in 0..n : IsText(it[k].text)}
<1>3. 0 \in T
  BY <1>1, <1>2 DEF Read
<1>4. ASSUME NEW k \in 1..n, k - 1 \in T
      PROVE  k \in T
  <2>1. IsText(it[k - 1].text) /\ k \in 0..n
    BY <1>1, <1>4
  <2> QED
    BY <1>2, <2>1, RunPassIsText
<1> HIDE DEF T
<1>5. n \in T
  BY <1>1, <1>3, <1>4, UpTo
<1> QED
  BY <1>2, <1>5 DEF T

(* The two fields of a request, one after the other.                          *)
JoinFun(f, fields) == f = [i \in 1..2 |-> IF i = 1 THEN fields[i] ELSE f[i - 1] \o fields[i]]

LEMMA TwoJoined ==
  ASSUME NEW fields, IsText(fields), Len(fields) = 2, IsText(fields[1]), IsText(fields[2])
  PROVE  Joined(fields) = fields[1] \o fields[2] /\ IsText(Joined(fields))
<1> DEFINE both == [i \in 1..2 |-> IF i = 1 THEN fields[1] ELSE fields[1] \o fields[2]]
           f == CHOOSE f : JoinFun(f, fields)
<1>1. JoinFun(both, fields)
  BY DEF JoinFun
<1> HIDE DEF both
<1>2. JoinFun(f, fields)
  BY <1>1
<1>3. FlattenSeq(fields) = f[2]
  BY DEF FlattenSeq, JoinFun
<1> HIDE DEF f
<1>4. f[1] = fields[1] /\ f[2] = f[1] \o fields[2]
  BY <1>2 DEF JoinFun
<1> QED
  BY <1>3, <1>4, Concatenated DEF Joined

(* What leaves is exactly what the guard has seen.                            *)
PromptShaped ==
  /\ IsText(recoded) /\ Len(recoded) <= 2
  /\ DOMAIN prompt = {1, 2} /\ Len(prompt) = 2 /\ IsText(prompt[1]) /\ IsText(prompt[2])
  /\ \A k \in DOMAIN recoded : IsText(recoded[k])

GuardHeld ==
  stage \in {"out", "back"} => Len(recoded) = 2 /\ FindLeaks(Joined(recoded)) = {}

AiInv == PromptShaped /\ GuardHeld

LEMMA AiInitHolds == AiInit => AiInv
<1> SUFFICES ASSUME AiInit
             PROVE  AiInv
  OBVIOUS
<1>1. recoded = << >> /\ stage = "recoding" /\ prompt \in Prompts
  BY DEF AiInit
<1>2. IsText(recoded) /\ Len(recoded) = 0 /\ DOMAIN recoded = {}
  BY <1>1, EmptyText
<1>3. /\ prompt = <<prompt[1], prompt[2]>>
      /\ IsText(prompt[1]) /\ IsText(prompt[2])
  BY <1>1, PromptsAssumption DEF IsText
<1>4. Len(prompt) = 2 /\ DOMAIN prompt = {1, 2}
  BY <1>3
<1> QED
  BY <1>1, <1>2, <1>3, <1>4 DEF AiInv, PromptShaped, GuardHeld

LEMMA AiStepHolds == AiInv /\ [AiNext]_aiVars => AiInv'
<1> SUFFICES ASSUME AiInv, [AiNext]_aiVars
             PROVE  AiInv'
  OBVIOUS
<1>1. CASE Recode
  <2> DEFINE k == Len(recoded) + 1
             done == Pseudonymize(prompt[k], tokens)
  <2>1. /\ recoded' = Append(recoded, done.text) /\ prompt' = prompt
        /\ stage = "recoding" /\ stage' = "recoding" /\ Len(recoded) < 2
    BY <1>1 DEF Recode, AiInv, PromptShaped
  <2>2. Len(recoded) \in Nat /\ DOMAIN recoded = 1..Len(recoded)
    BY TextDomain DEF AiInv, PromptShaped
  <2>3. IsText(prompt[k])
    <3>1. k = 1 \/ k = 2
      BY <2>1, <2>2
    <3> QED
      BY <3>1 DEF AiInv, PromptShaped
  <2>4. IsText(done.text)
    BY <2>3, PseudonymizeIsText
  <2> HIDE DEF done, k
  <2>5. /\ IsText(recoded')
        /\ Len(recoded') = Len(recoded) + 1
        /\ \A j \in DOMAIN recoded' : IsText(recoded'[j])
    <3> DEFINE S == {recoded[j] : j \in DOMAIN recoded} \cup {done.text}
    <3>1. recoded \in Seq(S) /\ \A e \in S : IsText(e)
      <4>1. recoded \in Seq(Range(recoded)) /\ Range(recoded) \subseteq S
        BY DEF AiInv, PromptShaped, IsText, Range
      <4>2. \A e \in S : IsText(e)
        BY <2>4 DEF AiInv, PromptShaped
      <4> HIDE DEF S
      <4> QED
        BY <4>1, <4>2, SeqMonotonic
    <3>2. done.text \in S
      OBVIOUS
    <3> HIDE DEF S
    <3>3. recoded' \in Seq(S) /\ Len(recoded') = Len(recoded) + 1
      BY <2>1, <3>1, <3>2
    <3>4. \A j \in DOMAIN recoded' : recoded'[j] \in S
      BY <3>3
    <3> QED
      BY <3>1, <3>3, <3>4, SeqText
  <2> QED
    BY <2>1, <2>2, <2>5 DEF AiInv, PromptShaped, GuardHeld
<1>2. CASE Send
  <2>1. /\ UNCHANGED <<prompt, recoded>> /\ Len(recoded) = Len(prompt)
        /\ stage' = IF FindLeaks(Joined(recoded)) = {} THEN "out" ELSE "blocked"
    BY <1>2 DEF Send
  <2> QED
    BY <2>1 DEF AiInv, PromptShaped, GuardHeld
<1>3. CASE \E order \in {<<1>>, <<2>>, <<2, 1>>} : Answer(order)
  <2>1. UNCHANGED <<prompt, recoded>> /\ stage = "out" /\ stage' = "back"
    BY <1>3 DEF Answer
  <2> QED
    BY <2>1 DEF AiInv, PromptShaped, GuardHeld
<1>4. CASE UNCHANGED aiVars
  BY <1>4 DEF aiVars, AiInv, PromptShaped, GuardHeld
<1> QED
  BY <1>1, <1>2, <1>3, <1>4 DEF AiNext

(* NothingKnownLeaves for any names, identifiers, spellings and fields: what  *)
(* goes out is what the guard read, and the finders of the guard see all that *)
(* a reader would recognise, whatever the passes left or took apart.          *)
THEOREM NothingKnownGoesOut == AiSpec => []NothingKnownLeaves
<1>1. AiSpec => []AiInv
  BY AiInitHolds, AiStepHolds, PTL DEF AiSpec
<1>2. AiInv => NothingKnownLeaves
  <2> SUFFICES ASSUME AiInv, stage \in {"out", "back"},
                      NEW i \in DOMAIN Joined(recoded), Recognisable(Joined(recoded), i)
               PROVE  FALSE
    BY DEF NothingKnownLeaves
  <2>1. Len(recoded) = 2 /\ FindLeaks(Joined(recoded)) = {}
    BY DEF AiInv, GuardHeld
  <2>2. 1 \in DOMAIN recoded /\ 2 \in DOMAIN recoded
    BY <2>1, TextDomain DEF AiInv, PromptShaped
  <2>3. IsText(Joined(recoded))
    BY <2>1, <2>2, TwoJoined DEF AiInv, PromptShaped
  <2> QED
    BY <2>1, <2>3, GuardSees
<1> QED
  BY <1>1, <1>2, PTL

--------------------------------------------------------------------------------
(* What is given back. The words that a token stands for.                     *)

Piece(w, map) == IF w \in DOMAIN map THEN map[w] ELSE <<w>>

(* All the values of a table are texts.                                       *)
IsMap(map) == \A w \in DOMAIN map : IsText(map[w])

FlatFun(f, s, n) == f = [i \in 1..n |-> IF i = 1 THEN s[i] ELSE f[i - 1] \o s[i]]

LEMMA FlatStep ==
  ASSUME NEW f, NEW s, NEW n, FlatFun(f, s, n), NEW k \in 1..n
  PROVE  f[k] = IF k = 1 THEN s[k] ELSE f[k - 1] \o s[k]
BY DEF FlatFun

LEMMA FlatFunExists ==
  ASSUME NEW s, NEW n \in Nat
  PROVE  \E f : FlatFun(f, s, n)
<1> DEFINE T == {k \in 0..n : \E f : FlatFun(f, s, k)}
<1>1. 0 \in T
  <2>1. FlatFun([i \in 1..0 |-> s[i]], s, 0)
    BY DEF FlatFun
  <2> QED
    BY <2>1
<1>2. ASSUME NEW k \in 1..n, k - 1 \in T
      PROVE  k \in T
  <2>1. PICK f : FlatFun(f, s, k - 1)
    BY <1>2
  <2> DEFINE g == [i \in 1..k |-> IF i < k THEN f[i] ELSE IF i = 1 THEN s[i] ELSE f[i - 1] \o s[i]]
  <2>2. ASSUME NEW i \in 1..k
        PROVE  g[i] = IF i = 1 THEN s[i] ELSE g[i - 1] \o s[i]
    <3>1. CASE i < k
      <4>1. i \in 1..(k - 1)
        BY <3>1
      <4>2. f[i] = IF i = 1 THEN s[i] ELSE f[i - 1] \o s[i]
        BY <2>1, <4>1 DEF FlatFun
      <4>3. i # 1 => i - 1 \in 1..k /\ i - 1 < k /\ g[i - 1] = f[i - 1]
        BY <4>1
      <4> QED
        BY <3>1, <4>2, <4>3
    <3>2. CASE i = k
      <4>1. i # 1 => i - 1 \in 1..k /\ i - 1 < k /\ g[i - 1] = f[i - 1]
        BY <3>2
      <4> QED
        BY <3>2, <4>1
    <3> QED
      BY <3>1, <3>2
  <2>3. g = [i \in 1..k |-> g[i]]
    OBVIOUS
  <2> HIDE DEF g
  <2>4. FlatFun(g, s, k)
    BY <2>2, <2>3 DEF FlatFun
  <2> QED
    BY <2>4
<1> HIDE DEF T
<1>3. n \in T
  BY <1>1, <1>2, UpTo
<1> QED
  BY <1>3 DEF T

(* Two lists that begin alike are joined alike so far.                        *)
LEMMA FlatFunSame ==
  ASSUME NEW s, NEW t, NEW n \in Nat, NEW m \in Nat, n <= m, \A i \in 1..n : s[i] = t[i],
         NEW f, NEW g, FlatFun(f, s, n), FlatFun(g, t, m)
  PROVE  \A i \in 1..n : f[i] = g[i]
<1> DEFINE T == {0} \cup {k \in 1..n : f[k] = g[k]}
<1>1. 0 \in T
  OBVIOUS
<1>2. ASSUME NEW k \in 1..n, k - 1 \in T
      PROVE  k \in T
  <2>1. f[k] = IF k = 1 THEN s[k] ELSE f[k - 1] \o s[k]
    BY FlatStep
  <2>2. g[k] = IF k = 1 THEN t[k] ELSE g[k - 1] \o t[k]
    <3>1. k \in 1..m
      OBVIOUS
    <3> QED
      BY <3>1, FlatStep
  <2>3. k # 1 => f[k - 1] = g[k - 1]
    BY <1>2
  <2> QED
    BY <2>1, <2>2, <2>3
<1> HIDE DEF T
<1>3. 0..n \subseteq T
  BY <1>1, <1>2, UpTo
<1> QED
  BY <1>3 DEF T

LEMMA FlatIs ==
  ASSUME NEW s, NEW n \in Nat \ {0}, Len(s) = n
  PROVE  \E f : FlatFun(f, s, n) /\ FlattenSeq(s) = f[n]
<1> DEFINE f == CHOOSE f : FlatFun(f, s, n)
<1>1. FlatFun(f, s, n)
  BY FlatFunExists
<1>2. FlattenSeq(s) = f[n]
  BY DEF FlattenSeq, FlatFun
<1> QED
  BY <1>1, <1>2

LEMMA FlatExtended ==
  ASSUME NEW s, IsText(s), NEW e, IsText(e)
  PROVE  FlattenSeq(s \o <<e>>) = FlattenSeq(s) \o e
<1> DEFINE t == s \o <<e>>
           n == Len(s)
<1>1. IsText(<<e>>) /\ Len(<<e>>) = 1 /\ <<e>>[1] = e
  <2>1. <<e>> \in Seq({e})
    OBVIOUS
  <2> QED
    BY <2>1, SeqText
<1>2. /\ n \in Nat /\ Len(t) = n + 1 /\ t[n + 1] = e
      /\ \A i \in 1..n : t[i] = s[i]
  BY <1>1, TextDomain, Concatenated
<1> HIDE DEF t, n
<1>3. PICK g : FlatFun(g, t, n + 1) /\ FlattenSeq(t) = g[n + 1]
  BY <1>2, FlatIs
<1>4. g[n + 1] = IF n = 0 THEN e ELSE g[n] \o e
  <2>1. PICK m \in Nat : m = n + 1
    BY <1>2
  <2>2. FlatFun(g, t, m) /\ m \in 1..m
    BY <1>2, <1>3, <2>1
  <2>3. g[m] = IF m = 1 THEN t[m] ELSE g[m - 1] \o t[m]
    BY <2>2, FlatStep
  <2>4. m - 1 = n /\ (m = 1 <=> n = 0)
    BY <1>2, <2>1
  <2> QED
    BY <1>2, <2>1, <2>3, <2>4
<1>5. CASE n = 0
  <2>1. s = << >>
    BY <1>5, TextDomain DEF n
  <2>2. FlattenSeq(s) = << >>
    BY <2>1 DEF FlattenSeq
  <2>3. << >> \o e = e
    BY ConcatEmptySeq DEF IsText
  <2> QED
    BY <1>2, <1>3, <1>4, <1>5, <2>2, <2>3 DEF t
<1>6. CASE n # 0
  <2>1. PICK f : FlatFun(f, s, n) /\ FlattenSeq(s) = f[n]
    <3>1. n \in Nat \ {0} /\ Len(s) = n
      BY <1>2, <1>6 DEF n
    <3> QED
      BY <3>1, FlatIs
  <2>2. f[n] = g[n]
    <3>1. n \in 1..n /\ n <= n + 1 /\ n + 1 \in Nat
      BY <1>2, <1>6
    <3>2. \A i \in 1..n : f[i] = g[i]
      BY <1>2, <1>3, <2>1, <3>1, FlatFunSame
    <3> QED
      BY <3>1, <3>2
  <2> QED
    BY <1>2, <1>3, <1>4, <1>6, <2>1, <2>2 DEF t
<1> QED
  BY <1>5, <1>6

LEMMA PieceIsText ==
  ASSUME NEW map, IsMap(map), NEW w
  PROVE  IsText(Piece(w, map))
<1>1. IsText(<<w>>)
  <2>1. <<w>> \in Seq({w})
    OBVIOUS
  <2> QED
    BY <2>1, SeqText
<1> QED
  BY <1>1 DEF Piece, IsMap

Pieces(t, map) == [i \in DOMAIN t |-> Piece(t[i], map)]

LEMMA ReidentifyIs ==
  ASSUME NEW t, NEW map
  PROVE  Reidentify(t, map) = FlattenSeq(Pieces(t, map))
<1>1. Pieces(t, map) = [i \in DOMAIN t |-> IF t[i] \in DOMAIN map THEN map[t[i]] ELSE <<t[i]>>]
  BY DEF Pieces, Piece
<1> QED
  BY <1>1 DEF Reidentify

LEMMA PiecesIsText ==
  ASSUME NEW t, IsText(t), NEW map
  PROVE  IsText(Pieces(t, map)) /\ Len(Pieces(t, map)) = Len(t)
<1>1. Len(t) \in Nat /\ DOMAIN t = 1..Len(t)
  BY TextDomain
<1>2. Pieces(t, map) \in [1..Len(t) -> Range(Pieces(t, map))]
  BY <1>1 DEF Pieces, Range
<1> QED
  BY <1>1, <1>2, TextOf

LEMMA SameText ==
  ASSUME NEW s, NEW t, IsText(s), IsText(t), Len(s) = Len(t), \A i \in 1..Len(s) : s[i] = t[i]
  PROVE  s = t
<1>1. s = [i \in 1..Len(s) |-> s[i]] /\ t = [i \in 1..Len(s) |-> t[i]]
  BY TextDomain
<1> QED
  BY <1>1

LEMMA ReidentifyExtended ==
  ASSUME NEW t, IsText(t), NEW map, IsMap(map), NEW w
  PROVE  Reidentify(t \o <<w>>, map) = Reidentify(t, map) \o Piece(w, map)
<1> DEFINE a == Pieces(t \o <<w>>, map)
           b == Pieces(t, map) \o <<Piece(w, map)>>
<1>1. \A x : IsText(<<x>>) /\ Len(<<x>>) = 1 /\ <<x>>[1] = x
  <2> TAKE x
  <2>1. <<x>> \in Seq({x})
    OBVIOUS
  <2> QED
    BY <2>1, SeqText
<1>2. /\ IsText(t \o <<w>>) /\ Len(t \o <<w>>) = Len(t) + 1 /\ Len(t) \in Nat
      /\ \A i \in 1..Len(t) : (t \o <<w>>)[i] = t[i]
      /\ (t \o <<w>>)[Len(t) + 1] = w
  BY <1>1, Concatenated, TextDomain
<1>3. /\ IsText(a) /\ Len(a) = Len(t) + 1
      /\ \A i \in 1..Len(t) : a[i] = Piece(t[i], map)
      /\ a[Len(t) + 1] = Piece(w, map)
  <2>1. IsText(a) /\ Len(a) = Len(t) + 1
    BY <1>2, PiecesIsText
  <2>2. DOMAIN (t \o <<w>>) = 1..(Len(t) + 1)
    BY <1>2, TextDomain
  <2>3. \A i \in 1..(Len(t) + 1) : a[i] = Piece((t \o <<w>>)[i], map)
    BY <2>2 DEF Pieces
  <2> HIDE DEF a
  <2> QED
    BY <1>2, <2>1, <2>3
<1>4. /\ IsText(b) /\ Len(b) = Len(t) + 1
      /\ \A i \in 1..Len(t) : b[i] = Piece(t[i], map)
      /\ b[Len(t) + 1] = Piece(w, map)
  <2> DEFINE s == Pieces(t, map)
  <2>1. IsText(s) /\ Len(s) = Len(t) /\ \A i \in 1..Len(t) : s[i] = Piece(t[i], map)
    BY PiecesIsText, TextDomain DEF Pieces
  <2> HIDE DEF s
  <2>2. /\ IsText(s \o <<Piece(w, map)>>) /\ Len(s \o <<Piece(w, map)>>) = Len(s) + 1
        /\ \A i \in 1..Len(s) : (s \o <<Piece(w, map)>>)[i] = s[i]
        /\ (s \o <<Piece(w, map)>>)[Len(s) + 1] = Piece(w, map)
    BY <1>1, <2>1, Concatenated
  <2> QED
    BY <2>1, <2>2 DEF s
<1>5. a = b
  <2> HIDE DEF a, b
  <2> QED
    BY <1>2, <1>3, <1>4, SameText
<1>6. FlattenSeq(b) = FlattenSeq(Pieces(t, map)) \o Piece(w, map)
  <2>1. IsText(Pieces(t, map)) /\ IsText(Piece(w, map))
    BY PiecesIsText, PieceIsText
  <2> QED
    BY <2>1, FlatExtended
<1> QED
  BY <1>5, <1>6, ReidentifyIs

LEMMA ReidentifyEmpty ==
  ASSUME NEW map
  PROVE  Reidentify(<< >>, map) = << >>
<1>1. Pieces(<< >>, map) = << >>
  BY DEF Pieces
<1>2. FlattenSeq(<< >>) = << >>
  BY DEF FlattenSeq
<1> QED
  BY <1>1, <1>2, ReidentifyIs

LEMMA EmptyConcatenated ==
  ASSUME NEW t, IsText(t)
  PROVE  t \o << >> = t /\ << >> \o t = t
BY ConcatEmptySeq DEF IsText

LEMMA Associative ==
  ASSUME NEW s, NEW t, NEW u, IsText(s), IsText(t), IsText(u)
  PROVE  (s \o t) \o u = s \o (t \o u)
<1> DEFINE S == (Range(s) \cup Range(t)) \cup Range(u)
<1>1. s \in Seq(S) /\ t \in Seq(S) /\ u \in Seq(S)
  <2>1. Range(s) \subseteq S /\ Range(t) \subseteq S /\ Range(u) \subseteq S
    OBVIOUS
  <2> HIDE DEF S
  <2> QED
    BY <2>1, SeqMonotonic DEF IsText
<1> HIDE DEF S
<1> QED
  BY <1>1, ConcatAssociative

(* The beginning of a text, word after word.                                  *)
LEMMA TextPrefixes ==
  ASSUME NEW t, IsText(t)
  PROVE  /\ SubSeq(t, 1, 0) = << >> /\ SubSeq(t, 1, Len(t)) = t
         /\ \A k \in 1..Len(t) : /\ IsText(SubSeq(t, 1, k - 1))
                                 /\ SubSeq(t, 1, k) = SubSeq(t, 1, k - 1) \o <<t[k]>>
<1>1. Len(t) \in Nat /\ DOMAIN t = 1..Len(t)
  BY TextDomain
<1>2. SubSeq(t, 1, 0) = << >>
  BY SubSeqEmpty
<1>3. SubSeq(t, 1, Len(t)) = t
  <2> DEFINE s == SubSeq(t, 1, Len(t))
  <2>1. /\ 1 \in 1..(Len(t) + 1) /\ Len(t) \in (1 - 1)..Len(t) /\ Len(t) - 1 + 1 = Len(t)
        /\ \A i \in Int : 1 + i - 1 = i
    BY <1>1
  <2>2. IsText(s) /\ Len(s) = Len(t) /\ \A i \in 1..Len(t) : s[i] = t[i]
    BY <2>1, SubText
  <2> HIDE DEF s
  <2>3. s = t
    BY <2>2, SameText
  <2> QED
    BY <2>3 DEF s
<1>4. ASSUME NEW k \in 1..Len(t)
      PROVE  /\ IsText(SubSeq(t, 1, k - 1))
             /\ SubSeq(t, 1, k) = SubSeq(t, 1, k - 1) \o <<t[k]>>
  <2> DEFINE s == SubSeq(t, 1, k - 1)
  <2>1. /\ k \in (1 - 1)..Len(t) /\ k - 1 \in (1 - 1)..Len(t) /\ 1 \in 1..(Len(t) + 1)
        /\ k - 1 - 1 + 1 = k - 1 /\ k - 1 + 1 = k /\ \A i \in Int : 1 + i - 1 = i
    BY <1>1
  <2>2. /\ IsText(SubSeq(t, 1, k)) /\ Len(SubSeq(t, 1, k)) = k
        /\ \A i \in 1..k : SubSeq(t, 1, k)[i] = t[i]
    BY <2>1, SubText
  <2>3. /\ IsText(s) /\ Len(s) = k - 1
        /\ \A i \in 1..(k - 1) : s[i] = t[i]
    BY <2>1, SubText
  <2> HIDE DEF s
  <2>4. /\ IsText(s \o <<t[k]>>) /\ Len(s \o <<t[k]>>) = Len(s) + 1
        /\ \A i \in 1..Len(s) : (s \o <<t[k]>>)[i] = s[i]
        /\ (s \o <<t[k]>>)[Len(s) + 1] = t[k]
    <3>1. <<t[k]>> \in Seq({t[k]}) /\ Len(<<t[k]>>) = 1 /\ <<t[k]>>[1] = t[k]
      OBVIOUS
    <3>2. IsText(<<t[k]>>)
      BY <3>1, SeqText
    <3> QED
      BY <2>3, <3>1, <3>2, Concatenated
  <2>5. SubSeq(t, 1, k) = s \o <<t[k]>>
    <3> DEFINE a == SubSeq(t, 1, k)
               b == s \o <<t[k]>>
    <3>1. IsText(a) /\ IsText(b) /\ Len(a) = k /\ Len(b) = k
      BY <2>1, <2>2, <2>3, <2>4
    <3>2. ASSUME NEW i \in 1..k
          PROVE  a[i] = b[i]
      <4>1. CASE i = k
        BY <2>2, <2>3, <2>4, <2>1, <4>1
      <4>2. CASE i # k
        <5>1. i \in 1..(k - 1)
          BY <4>2
        <5> QED
          BY <2>2, <2>3, <2>4, <5>1
      <4> QED
        BY <4>1, <4>2
    <3> HIDE DEF a, b
    <3>3. a = b
      BY <3>1, <3>2, SameText
    <3> QED
      BY <3>3 DEF a, b
  <2> QED
    BY <2>3, <2>5 DEF s
<1> QED
  BY <1>2, <1>3, <1>4

LEMMA ReidentifyIsText ==
  ASSUME NEW t, IsText(t), NEW map, IsMap(map)
  PROVE  IsText(Reidentify(t, map))
<1> DEFINE T == {k \in 0..Len(t) : IsText(Reidentify(SubSeq(t, 1, k), map))}
<1>1. 0 \in T
  <2>1. 0 \in 0..Len(t) /\ SubSeq(t, 1, 0) = << >>
    BY TextDomain, TextPrefixes
  <2>2. IsText(Reidentify(<< >>, map))
    BY ReidentifyEmpty, EmptyText
  <2> QED
    BY <2>1, <2>2
<1>2. ASSUME NEW k \in 1..Len(t), k - 1 \in T
      PROVE  k \in T
  <2>1. IsText(Reidentify(SubSeq(t, 1, k - 1), map)) /\ k \in 0..Len(t)
    BY <1>2
  <2>2. Reidentify(SubSeq(t, 1, k), map) =
          Reidentify(SubSeq(t, 1, k - 1), map) \o Piece(t[k], map)
    <3>1. IsText(SubSeq(t, 1, k - 1)) /\ SubSeq(t, 1, k) = SubSeq(t, 1, k - 1) \o <<t[k]>>
      BY TextPrefixes
    <3> QED
      BY <3>1, ReidentifyExtended
  <2> QED
    BY <2>1, <2>2, PieceIsText, Concatenated
<1> HIDE DEF T
<1>3. Len(t) \in Nat /\ Len(t) \in 0..Len(t)
  BY TextDomain
<1>4. Len(t) \in T
  BY <1>1, <1>2, <1>3, UpTo
<1> QED
  BY <1>4, TextPrefixes DEF T

(* The tokens of two texts are replaced side by side.                         *)
LEMMA ReidentifyConcatenated ==
  ASSUME NEW t, IsText(t), NEW u, IsText(u), NEW map, IsMap(map)
  PROVE  Reidentify(t \o u, map) = Reidentify(t, map) \o Reidentify(u, map)
<1> DEFINE Split(k) == Reidentify(t \o SubSeq(u, 1, k), map) =
                         Reidentify(t, map) \o Reidentify(SubSeq(u, 1, k), map)
           T == {k \in 0..Len(u) : Split(k)}
<1>1. 0 \in T
  <2>1. SubSeq(u, 1, 0) = << >> /\ 0 \in 0..Len(u)
    BY TextPrefixes, TextDomain
  <2>2. t \o << >> = t /\ Reidentify(t, map) \o << >> = Reidentify(t, map)
    BY EmptyConcatenated, ReidentifyIsText
  <2> QED
    BY <2>1, <2>2, ReidentifyEmpty
<1>2. ASSUME NEW k \in 1..Len(u), k - 1 \in T
      PROVE  k \in T
  <2> DEFINE p == SubSeq(u, 1, k - 1)
             w == u[k]
  <2>1. /\ Reidentify(t \o p, map) = Reidentify(t, map) \o Reidentify(p, map)
        /\ k \in 0..Len(u)
    BY <1>2
  <2>2. IsText(p) /\ SubSeq(u, 1, k) = p \o <<w>>
    BY TextPrefixes
  <2> HIDE DEF p, w
  <2>3. IsText(<<w>>) /\ IsText(t \o p)
    <3>1. <<w>> \in Seq({w})
      OBVIOUS
    <3> QED
      BY <2>2, <3>1, SeqText, Concatenated
  <2>4. (t \o p) \o <<w>> = t \o (p \o <<w>>)
    <3>1. PICK one : one = <<w>> /\ IsText(one)
      BY <2>3
    <3>2. IsText(t) /\ IsText(p)
      BY <2>2
    <3>3. (t \o p) \o one = t \o (p \o one)
      BY ONLY <3>1, <3>2, Associative
    <3> QED
      BY <3>1, <3>3
  <2>5. Reidentify((t \o p) \o <<w>>, map) = Reidentify(t \o p, map) \o Piece(w, map)
    BY <2>3, ReidentifyExtended
  <2>6. Reidentify(p \o <<w>>, map) = Reidentify(p, map) \o Piece(w, map)
    BY <2>2, ReidentifyExtended
  <2>7. (Reidentify(t, map) \o Reidentify(p, map)) \o Piece(w, map) =
          Reidentify(t, map) \o (Reidentify(p, map) \o Piece(w, map))
    <3>1. IsText(Reidentify(t, map)) /\ IsText(Reidentify(p, map)) /\ IsText(Piece(w, map))
      BY <2>2, ReidentifyIsText, PieceIsText
    <3>2. PICK a, b, c : /\ a = Reidentify(t, map) /\ b = Reidentify(p, map) /\ c = Piece(w, map)
                         /\ IsText(a) /\ IsText(b) /\ IsText(c)
      BY <3>1
    <3>3. (a \o b) \o c = a \o (b \o c)
      BY ONLY <3>2, Associative
    <3> QED
      BY <3>2, <3>3
  <2> QED
    BY <2>1, <2>2, <2>4, <2>5, <2>6, <2>7
<1> HIDE DEF T
<1>3. Len(u) \in Nat /\ Len(u) \in 0..Len(u)
  BY TextDomain
<1>4. Len(u) \in T
  BY <1>1, <1>2, <1>3, UpTo
<1> QED
  BY <1>4, TextPrefixes DEF T

(* Only the tokens of the text matter in the table.                           *)
LEMMA ReidentifySame ==
  ASSUME NEW t, NEW map, NEW more, \A i \in DOMAIN t : Piece(t[i], map) = Piece(t[i], more)
  PROVE  Reidentify(t, map) = Reidentify(t, more)
<1>1. Pieces(t, map) = Pieces(t, more)
  BY DEF Pieces
<1> QED
  BY <1>1, ReidentifyIs

(* A text without a token comes back as it is.                                *)
LEMMA ReidentifyNothing ==
  ASSUME NEW t, IsText(t), NEW map, IsMap(map), \A i \in DOMAIN t : t[i] \notin DOMAIN map
  PROVE  Reidentify(t, map) = t
<1> DEFINE T == {k \in 0..Len(t) : Reidentify(SubSeq(t, 1, k), map) = SubSeq(t, 1, k)}
<1>1. 0 \in T
  <2>1. 0 \in 0..Len(t) /\ SubSeq(t, 1, 0) = << >>
    BY TextDomain, TextPrefixes
  <2>2. Reidentify(<< >>, map) = << >>
    BY ReidentifyEmpty
  <2> QED
    BY <2>1, <2>2
<1>2. ASSUME NEW k \in 1..Len(t), k - 1 \in T
      PROVE  k \in T
  <2>1. Reidentify(SubSeq(t, 1, k - 1), map) = SubSeq(t, 1, k - 1) /\ k \in 0..Len(t)
    BY <1>2
  <2>2. Reidentify(SubSeq(t, 1, k), map) =
          Reidentify(SubSeq(t, 1, k - 1), map) \o Piece(t[k], map)
    <3>1. IsText(SubSeq(t, 1, k - 1)) /\ SubSeq(t, 1, k) = SubSeq(t, 1, k - 1) \o <<t[k]>>
      BY TextPrefixes
    <3> QED
      BY <3>1, ReidentifyExtended
  <2>3. Piece(t[k], map) = <<t[k]>>
    BY TextDomain DEF Piece
  <2> QED
    BY <2>1, <2>2, <2>3, TextPrefixes
<1> HIDE DEF T
<1>3. Len(t) \in Nat /\ Len(t) \in 0..Len(t)
  BY TextDomain
<1>4. Len(t) \in T
  BY <1>1, <1>2, <1>3, UpTo
<1> QED
  BY <1>4, TextPrefixes DEF T

LEMMA KeyIs ==
  ASSUME NEW t, IsText(t)
  PROVE  IsText(KeyOf(t)) /\ Len(KeyOf(t)) = Len(t) /\ \A i \in 1..Len(t) : KeyOf(t)[i] = FoldOf(t[i])
<1>1. Len(t) \in Nat /\ DOMAIN t = 1..Len(t)
  BY TextDomain
<1>2. KeyOf(t) \in [1..Len(t) -> Range(KeyOf(t))] /\ \A i \in 1..Len(t) : KeyOf(t)[i] = FoldOf(t[i])
  BY <1>1 DEF KeyOf, Range
<1> QED
  BY <1>1, <1>2, TextOf

LEMMA KeyConcatenated ==
  ASSUME NEW s, NEW t, IsText(s), IsText(t)
  PROVE  KeyOf(s \o t) = KeyOf(s) \o KeyOf(t)
<1>1. /\ IsText(s \o t) /\ Len(s \o t) = Len(s) + Len(t)
      /\ \A i \in 1..Len(s) : (s \o t)[i] = s[i]
      /\ \A i \in 1..Len(t) : (s \o t)[Len(s) + i] = t[i]
  BY Concatenated
<1>2. /\ IsText(KeyOf(s)) /\ Len(KeyOf(s)) = Len(s) /\ \A i \in 1..Len(s) : KeyOf(s)[i] = FoldOf(s[i])
      /\ IsText(KeyOf(t)) /\ Len(KeyOf(t)) = Len(t) /\ \A i \in 1..Len(t) : KeyOf(t)[i] = FoldOf(t[i])
  BY KeyIs
<1> DEFINE a == KeyOf(s \o t)
           b == KeyOf(s) \o KeyOf(t)
<1>3. /\ IsText(a) /\ Len(a) = Len(s) + Len(t)
      /\ \A i \in 1..(Len(s) + Len(t)) : a[i] = FoldOf((s \o t)[i])
  BY <1>1, KeyIs
<1>4. /\ IsText(b) /\ Len(b) = Len(s) + Len(t)
      /\ \A i \in 1..Len(s) : b[i] = FoldOf(s[i])
      /\ \A i \in 1..Len(t) : b[Len(s) + i] = FoldOf(t[i])
  <2>1. /\ IsText(b) /\ Len(b) = Len(KeyOf(s)) + Len(KeyOf(t))
        /\ \A i \in 1..Len(KeyOf(s)) : b[i] = KeyOf(s)[i]
        /\ \A i \in 1..Len(KeyOf(t)) : b[Len(KeyOf(s)) + i] = KeyOf(t)[i]
    BY <1>2, Concatenated
  <2> HIDE DEF b
  <2> QED
    BY <1>2, <2>1
<1>5. Len(s) \in Nat /\ Len(t) \in Nat
  BY TextDomain
<1> HIDE DEF a, b
<1>6. ASSUME NEW i \in 1..(Len(s) + Len(t))
      PROVE  a[i] = b[i]
  <2>1. CASE i \in 1..Len(s)
    BY <1>1, <1>3, <1>4, <2>1
  <2>2. CASE i \notin 1..Len(s)
    <3>1. PICK j \in 1..Len(t) : i = Len(s) + j
      <4>1. i - Len(s) \in 1..Len(t) /\ i = Len(s) + (i - Len(s))
        BY <1>5, <2>2
      <4> QED
        BY <4>1
    <3>2. (s \o t)[i] = t[j] /\ b[i] = FoldOf(t[j])
      BY <1>1, <1>4, <3>1
    <3> QED
      BY <1>3, <3>2
  <2> QED
    BY <2>1, <2>2
<1> QED
  BY <1>3, <1>4, <1>6, SameText DEF a, b

--------------------------------------------------------------------------------
(* What a text says once its tokens are replaced, up to spelling. The tokens  *)
(* of a text must all be those of the table; then a table that is prolonged   *)
(* says the same of it.                                                       *)
TokenWords == {<<"token", kind, n>> : kind \in TokenKinds, n \in Nat}

IsTable(table) ==
  /\ DOMAIN table.map \subseteq TokenWords
  /\ IsMap(table.map)
  /\ table.last \in [TokenKinds -> Nat]
  /\ \A w \in DOMAIN table.map : w[3] <= table.last[w[2]]

Tokenless(t) == \A i \in DOMAIN t : t[i] \notin TokenWords
Closed(t, map) == \A i \in DOMAIN t : t[i] \in TokenWords => t[i] \in DOMAIN map
Prolongs(more, map) ==
  /\ DOMAIN map \subseteq DOMAIN more
  /\ \A w \in DOMAIN map : more[w] = map[w]

Said(t, map) == KeyOf(Reidentify(t, map))

LEMMA TokenIs ==
  ASSUME NEW kind \in TokenKinds, NEW n \in Nat
  PROVE  /\ <<"token", kind, n>> \in TokenWords
         /\ <<"token", kind, n>>[2] = kind /\ <<"token", kind, n>>[3] = n
BY DEF TokenWords

LEMMA TokenType ==
  ASSUME NEW w \in TokenWords
  PROVE  w[1] = "token" /\ w[2] \in TokenKinds /\ w[3] \in Nat /\ FoldOf(w)[1] = "token"
<1>1. PICK kind \in TokenKinds, n \in Nat : w = <<"token", kind, n>>
  BY DEF TokenWords
<1>2. w[1] = "token" /\ w[2] = kind /\ w[3] = n /\ DOMAIN w = 1..3
  BY <1>1
<1>3. [w EXCEPT ![2] = Fold[@]][1] = "token"
  BY <1>2
<1> QED
  BY <1>2, <1>3 DEF FoldOf

LEMMA OneIsText ==
  ASSUME NEW w
  PROVE  IsText(<<w>>) /\ Len(<<w>>) = 1 /\ <<w>>[1] = w
<1>1. <<w>> \in Seq({w})
  OBVIOUS
<1> QED
  BY <1>1, SeqText

LEMMA SaidConcatenated ==
  ASSUME NEW t, IsText(t), NEW u, IsText(u), NEW map, IsMap(map)
  PROVE  Said(t \o u, map) = Said(t, map) \o Said(u, map)
<1>1. Reidentify(t \o u, map) = Reidentify(t, map) \o Reidentify(u, map)
  BY ReidentifyConcatenated
<1>2. IsText(Reidentify(t, map)) /\ IsText(Reidentify(u, map))
  BY ReidentifyIsText
<1>3. KeyOf(Reidentify(t, map) \o Reidentify(u, map)) =
        KeyOf(Reidentify(t, map)) \o KeyOf(Reidentify(u, map))
  BY <1>2, KeyConcatenated
<1> QED
  BY <1>1, <1>3 DEF Said

LEMMA SaidIsText ==
  ASSUME NEW t, IsText(t), NEW map, IsMap(map)
  PROVE  IsText(Said(t, map))
BY ReidentifyIsText, KeyIs DEF Said

LEMMA SaidFree ==
  ASSUME NEW t, IsText(t), Tokenless(t), NEW map, IsMap(map), DOMAIN map \subseteq TokenWords
  PROVE  Said(t, map) = KeyOf(t)
<1>1. \A i \in DOMAIN t : t[i] \notin DOMAIN map
  BY DEF Tokenless
<1>2. Reidentify(t, map) = t
  BY <1>1, ReidentifyNothing
<1> QED
  BY <1>2 DEF Said

LEMMA SaidProlonged ==
  ASSUME NEW t, NEW map, NEW more, Closed(t, map), Prolongs(more, map),
         DOMAIN more \subseteq TokenWords
  PROVE  Said(t, more) = Said(t, map) /\ Closed(t, more)
<1>1. \A i \in DOMAIN t : Piece(t[i], map) = Piece(t[i], more)
  BY DEF Closed, Prolongs, Piece
<1>2. Reidentify(t, map) = Reidentify(t, more)
  BY <1>1, ReidentifySame
<1> QED
  BY <1>2 DEF Said, Closed, Prolongs

(* A token says the value it stands for.                                      *)
LEMMA SaidToken ==
  ASSUME NEW map, IsMap(map), NEW w \in DOMAIN map
  PROVE  Said(<<w>>, map) = KeyOf(map[w])
<1>1. IsText(<< >>) /\ << >> \o <<w>> = <<w>>
  BY EmptyText, OneIsText, EmptyConcatenated
<1>2. Reidentify(<< >> \o <<w>>, map) = Reidentify(<< >>, map) \o Piece(w, map)
  BY <1>1, ReidentifyExtended
<1>3. Piece(w, map) = map[w] /\ IsText(map[w])
  BY DEF Piece, IsMap
<1>4. Reidentify(<< >>, map) \o Piece(w, map) = map[w]
  BY <1>3, ReidentifyEmpty, EmptyConcatenated
<1> QED
  BY <1>1, <1>2, <1>4 DEF Said

(* A text is cut anywhere.                                                    *)
LEMMA Cut ==
  ASSUME NEW t, IsText(t), NEW i \in 1..(Len(t) + 1), NEW k \in (i - 1)..Len(t), NEW j \in k..Len(t)
  PROVE  /\ IsText(SubSeq(t, i, k)) /\ IsText(SubSeq(t, k + 1, j))
         /\ SubSeq(t, i, j) = SubSeq(t, i, k) \o SubSeq(t, k + 1, j)
<1> DEFINE a == SubSeq(t, i, k)
           b == SubSeq(t, k + 1, j)
           c == SubSeq(t, i, j)
<1>0. Len(t) \in Nat /\ i \in Nat /\ k \in Nat /\ j \in Nat
  <2>1. Len(t) \in Nat
    BY TextDomain
  <2> QED
    BY <2>1
<1>1. IsText(a) /\ Len(a) = k - i + 1 /\ \A n \in 1..(k - i + 1) : a[n] = t[i + n - 1]
  BY SubText
<1>2. IsText(b) /\ Len(b) = j - k /\ \A n \in 1..(j - k) : b[n] = t[k + n]
  <2>1. PICK m \in 1..(Len(t) + 1) : m = k + 1
    BY <1>0
  <2>2. j \in (m - 1)..Len(t)
    BY <1>0, <2>1
  <2>3. /\ IsText(SubSeq(t, m, j)) /\ Len(SubSeq(t, m, j)) = j - m + 1
        /\ \A n \in 1..(j - m + 1) : SubSeq(t, m, j)[n] = t[m + n - 1]
    BY <2>2, SubText
  <2>4. j - m + 1 = j - k /\ \A n \in Int : m + n - 1 = k + n
    BY <1>0, <2>1
  <2> QED
    BY <2>1, <2>3, <2>4
<1>3. IsText(c) /\ Len(c) = j - i + 1 /\ \A n \in 1..(j - i + 1) : c[n] = t[i + n - 1]
  <2>1. j \in (i - 1)..Len(t)
    BY <1>0
  <2> QED
    BY <2>1, SubText
<1> HIDE DEF a, b, c
<1>4. /\ IsText(a \o b) /\ Len(a \o b) = Len(a) + Len(b)
      /\ \A n \in 1..Len(a) : (a \o b)[n] = a[n]
      /\ \A n \in 1..Len(b) : (a \o b)[Len(a) + n] = b[n]
  <2>1. IsText(a) /\ IsText(b)
    BY <1>1, <1>2
  <2> QED
    BY ONLY <2>1, Concatenated
<1>5. PICK d : d = a \o b
  OBVIOUS
<1>6. ASSUME NEW n \in 1..(j - i + 1)
      PROVE  c[n] = d[n]
  <2>1. CASE n <= k - i + 1
    <3>1. n \in 1..(k - i + 1)
      BY <1>0, <2>1
    <3> QED
      BY <1>1, <1>3, <1>4, <1>5, <3>1
  <2>2. CASE n > k - i + 1
    <3>1. PICK m \in 1..(j - k) : n = (k - i + 1) + m
      <4>1. n - (k - i + 1) \in 1..(j - k) /\ n = (k - i + 1) + (n - (k - i + 1))
        BY <1>0, <2>2
      <4> QED
        BY <4>1
    <3>2. d[n] = t[k + m]
      BY <1>1, <1>2, <1>4, <1>5, <3>1
    <3>3. i + n - 1 = k + m
      BY <1>0, <3>1
    <3> QED
      BY <1>3, <3>2, <3>3
  <2> QED
    BY <1>0, <2>1, <2>2
<1>7. Len(d) = j - i + 1
  <2>1. Len(d) = Len(a) + Len(b)
    BY <1>4, <1>5
  <2>2. Len(a) = k - i + 1 /\ Len(b) = j - k
    BY <1>1, <1>2
  <2> QED
    BY ONLY <1>0, <2>1, <2>2
<1>8. c = d
  BY <1>3, <1>4, <1>5, <1>6, <1>7, SameText
<1> QED
  BY <1>1, <1>2, <1>5, <1>8 DEF a, b, c

--------------------------------------------------------------------------------
(* The table: it only grows, and the token it gives for a value stands for    *)
(* that value, in a spelling or another.                                      *)

LEMMA NewTokenIs ==
  ASSUME NEW table, IsTable(table), NEW kind \in TokenKinds, NEW value, IsText(value),
         NEW got, got = NewToken(table, kind, value)
  PROVE  /\ IsTable(got.table) /\ Prolongs(got.table.map, table.map)
         /\ got.token \in DOMAIN got.table.map
         /\ KeyOf(got.table.map[got.token]) = KeyOf(value)
<1> DEFINE n == table.last[kind] + 1
           new == <<"token", kind, n>>
           map == got.table.map
           last == got.table.last
<1>1. table.last[kind] \in Nat /\ n \in Nat
  BY DEF IsTable
<1>2. new \in TokenWords /\ new[2] = kind /\ new[3] = n
  BY <1>1, TokenIs
<1>3. new \notin DOMAIN table.map
  <2>1. ~(n <= table.last[kind])
    BY <1>1
  <2> QED
    BY <1>2, <2>1 DEF IsTable
<1>4. /\ got.token = new /\ DOMAIN map = DOMAIN table.map \cup {new}
      /\ map[new] = value /\ \A w \in DOMAIN table.map : w # new => map[w] = table.map[w]
      /\ last = [table.last EXCEPT ![kind] = n]
  BY DEF NewToken
<1> HIDE DEF map, last, new
<1>5. DOMAIN map \subseteq TokenWords /\ IsMap(map)
  BY <1>2, <1>3, <1>4 DEF IsTable, IsMap
<1>6. last \in [TokenKinds -> Nat]
  BY <1>1, <1>4 DEF IsTable
<1>7. ASSUME NEW w \in DOMAIN map
      PROVE  w[3] <= last[w[2]]
  <2>1. CASE w = new
    <3>1. last[kind] = n
      BY <1>4 DEF IsTable
    <3> QED
      BY <1>1, <1>2, <2>1, <3>1
  <2>2. CASE w # new
    <3>1. w \in DOMAIN table.map /\ w \in TokenWords
      BY <1>4, <2>2 DEF IsTable
    <3>2. w[2] \in TokenKinds /\ w[3] \in Nat
      BY <3>1, TokenType
    <3>4. w[3] <= table.last[w[2]] /\ table.last[w[2]] \in Nat
      BY <3>1, <3>2 DEF IsTable
    <3>3. last[w[2]] = table.last[w[2]] \/ (w[2] = kind /\ last[w[2]] = n)
      BY <1>4, <3>2 DEF IsTable
    <3> QED
      BY <1>1, <3>2, <3>3, <3>4
  <2> QED
    BY <2>1, <2>2
<1>8. IsTable(got.table)
  BY <1>5, <1>6, <1>7 DEF IsTable, map, last
<1>9. Prolongs(map, table.map)
  BY <1>3, <1>4 DEF Prolongs
<1> QED
  BY <1>4, <1>8, <1>9 DEF map

LEMMA TokenForIs ==
  ASSUME NEW table, IsTable(table), NEW kind \in TokenKinds, NEW value, IsText(value),
         NEW got, got = TokenFor(table, kind, value)
  PROVE  /\ IsTable(got.table) /\ Prolongs(got.table.map, table.map)
         /\ got.token \in DOMAIN got.table.map
         /\ KeyOf(got.table.map[got.token]) = KeyOf(value)
<1> DEFINE lookup == KindsOf(kind)
           known == {k \in DOMAIN lookup : TokensOf(table.map, lookup[k], value) # {}}
<1>1. CASE known = {}
  <2>1. got = NewToken(table, kind, value)
    BY <1>1 DEF TokenFor
  <2> QED
    BY <2>1, NewTokenIs
<1>2. CASE known # {}
  <2>1. known \in SUBSET Nat
    BY DEF KindsOf
  <2>2. got = [token |-> CHOOSE t \in TokensOf(table.map, lookup[Min(known)], value) : TRUE,
               table |-> table]
    BY <1>2 DEF TokenFor
  <2>3. Min(known) \in known
    <3> HIDE DEF known
    <3> QED
      BY <1>2, <2>1, MinIs
  <2>4. TokensOf(table.map, lookup[Min(known)], value) # {}
    BY <2>3
  <2>5. got.token \in TokensOf(table.map, lookup[Min(known)], value) /\ got.table = table
    <3> HIDE DEF known, lookup
    <3> QED
      BY <2>2, <2>4
  <2> HIDE DEF known, lookup
  <2>6. got.token \in DOMAIN table.map /\ KeyOf(table.map[got.token]) = KeyOf(value)
    BY <2>5 DEF TokensOf
  <2> QED
    BY <2>5, <2>6 DEF Prolongs
<1> QED
  BY <1>1, <1>2

LEMMA PassKind ==
  ASSUME NEW p \in Range(Passes)
  PROVE  p.kind \in TokenKinds
<1>1. PICK k \in DOMAIN Passes : p = Passes[k]
  BY DEF Range
<1>2. \/ k \in 1..6 \/ k = 7 + Len(KnownNames) \/ \E j \in DOMAIN KnownNames : k = 6 + j
  <2>1. DOMAIN KnownNames = 1..Len(KnownNames) /\ Len(KnownNames) \in Nat
    BY NamesAssumption, TextDomain DEF IsText
  <2>2. k \in 1..(7 + Len(KnownNames))
    BY <1>1, PassList
  <2>3. k \in 1..6 \/ k = 7 + Len(KnownNames) \/ k - 6 \in 1..Len(KnownNames)
    BY <2>1, <2>2
  <2>4. k = 6 + (k - 6)
    BY <2>2
  <2> QED
    BY <2>1, <2>3, <2>4
<1>3. CASE k \in 1..6
  <2>1. p = FirstPasses[k]
    BY <1>1, <1>3, PassList
  <2> QED
    BY <1>3, <2>1 DEF FirstPasses, TokenKinds
<1>4. CASE k = 7 + Len(KnownNames)
  BY <1>1, <1>4, PassList DEF LastPass, TokenKinds
<1>5. CASE \E j \in DOMAIN KnownNames : k = 6 + j
  <2>1. PICK j \in DOMAIN KnownNames : p = NamePass(KnownNames[j])
    BY <1>1, <1>5, PassList
  <2>2. KnownNames[j].kind \in {"CLIENT", "PERSONNE"}
    BY NamesAssumption DEF Range
  <2> QED
    BY <2>1, <2>2 DEF NamePass, TokenKinds
<1> QED
  BY <1>2, <1>3, <1>4, <1>5

(* A hit is a piece of the text, it has a word, and none of its words is a    *)
(* token: a pass works on what is free.                                       *)
NoToken(t, i, j) == \A k \in i..j : Class(t, k) # "token"

IsHit(t, i, from, end) ==
  /\ from \in i..end /\ end \in 1..Len(t)
  /\ \A k \in i..end : t[k] \notin TokenWords

LEMMA HitOf ==
  ASSUME NEW t, IsText(t), NEW i \in 1..Len(t), NEW end, end \in i..Len(t), NoToken(t, i, end),
         NEW from, from \in i..end
  PROVE  IsHit(t, i, from, end)
<1>1. Len(t) \in Nat /\ DOMAIN t = 1..Len(t)
  BY TextDomain
<1>2. end \in 1..Len(t)
  BY <1>1
<1>3. ASSUME NEW k \in i..end
      PROVE  t[k] \notin TokenWords
  <2>1. k \in DOMAIN t
    BY <1>1, <1>2
  <2>2. t[k][1] # "token"
    BY <2>1 DEF NoToken, Class
  <2> QED
    BY <2>2, TokenType
<1> QED
  BY <1>2, <1>3 DEF IsHit

LEMMA AmountHit ==
  ASSUME NEW t, IsText(t), NEW i \in 1..Len(t), Amount(t, i) # 0
  PROVE  Amount(t, i) \in i..Len(t) /\ NoToken(t, i, Amount(t, i))
<1> DEFINE classes == IF Class(t, i) = "five" THEN {} ELSE {"nine"}
           last == Beyond(t, i, classes)
<1>1. /\ last \in (i + 1)..(Len(t) + 1)
      /\ \A k \in (i + 1)..(last - 1) : Class(t, k) \in classes
  <2>1. "end" \notin classes
    OBVIOUS
  <2> HIDE DEF classes
  <2> QED
    BY <2>1, FirstBeyond
<1>2. Amount(t, i) = last /\ Class(t, i) \in Digits /\ Class(t, last) = "euro"
  BY DEF Amount
<1>3. last \in DOMAIN t /\ DOMAIN t = 1..Len(t) /\ Len(t) \in Nat
  BY <1>2, ClassInside, TextDomain
<1>4. \A k \in (i + 1)..(last - 1) : Class(t, k) # "token"
  BY <1>1
<1> HIDE DEF last, classes
<1>5. last \in i..Len(t)
  BY <1>1, <1>3
<1>6. ASSUME NEW k \in i..last
      PROVE  Class(t, k) # "token"
  <2>1. k = i \/ k = last \/ k \in (i + 1)..(last - 1)
    BY <1>1
  <2> QED
    BY <1>2, <1>4, <2>1 DEF Digits
<1> QED
  BY <1>2, <1>5, <1>6 DEF NoToken

LEMMA CivilityHit ==
  ASSUME NEW t, IsText(t), NEW i \in 1..Len(t), Civility(t, i) # 0
  PROVE  Civility(t, i) \in (i + 1)..Len(t) /\ NoToken(t, i, Civility(t, i))
<1> DEFINE beyond == Beyond(t, i, {"cap"})
           last == Min({beyond - 1, i + 3})
<1>1. /\ beyond \in (i + 1)..(Len(t) + 1)
      /\ \A k \in (i + 1)..(beyond - 1) : Class(t, k) \in {"cap"}
  BY FirstBeyond
<1>2. Civility(t, i) = last /\ Class(t, i) = "civ" /\ last > i
  BY DEF Civility
<1>3. Len(t) \in Nat
  BY TextDomain
<1> HIDE DEF beyond
<1>4. last \in Nat /\ last <= beyond - 1
  <2>1. {beyond - 1, i + 3} \in SUBSET Nat /\ {beyond - 1, i + 3} # {}
    BY <1>1, <1>3
  <2> QED
    BY <2>1, MinIs
<1> HIDE DEF last
<1>5. ASSUME NEW k \in i..last
      PROVE  Class(t, k) # "token"
  <2>1. k = i \/ k \in (i + 1)..(beyond - 1)
    BY <1>1, <1>3, <1>4
  <2> QED
    BY <1>1, <1>2, <2>1
<1>6. last \in (i + 1)..Len(t)
  BY <1>1, <1>2, <1>3, <1>4
<1> QED
  BY <1>2, <1>5, <1>6 DEF NoToken

LEMMA TailHit ==
  ASSUME NEW t, IsText(t), NEW end \in 1..Len(t)
  PROVE  NoToken(t, end + 1, CityTail(t, end))
<1> DEFINE comma == end + 1 \in DOMAIN t /\ t[end + 1] = <<"sep", ",">>
           code == IF comma THEN end + 2 ELSE end + 1
<1>0. Len(t) \in Nat /\ end \in Nat
  <2>1. Len(t) \in Nat
    BY TextDomain
  <2> QED
    BY <2>1
<1>1. CASE Class(t, code) = "five" /\ Class(t, code + 1) = "cap"
  <2>1. code \in 1..Len(t)
    BY <1>1, ClassInside, TextDomain
  <2>2. /\ Beyond(t, code, {"cap"}) \in (code + 1)..(Len(t) + 1)
        /\ \A k \in (code + 1)..(Beyond(t, code, {"cap"}) - 1) : Class(t, k) \in {"cap"}
    BY <2>1, FirstBeyond
  <2>3. CityTail(t, end) = Beyond(t, code, {"cap"}) - 1
    BY <1>1 DEF CityTail
  <2>4. code = end + 1 \/ (code = end + 2 /\ Class(t, end + 1) = "sep")
    <3>1. CASE comma
      <4>1. <<"sep", ",">>[1] = "sep"
        OBVIOUS
      <4>2. Class(t, end + 1) = t[end + 1][1] /\ t[end + 1] = <<"sep", ",">>
        BY <3>1 DEF Class
      <4> QED
        BY <3>1, <4>1, <4>2
    <3>2. CASE ~comma
      BY <3>2
    <3> QED
      BY <3>1, <3>2
  <2> HIDE DEF code, comma
  <2>5. ASSUME NEW k \in (end + 1)..CityTail(t, end)
        PROVE  Class(t, k) # "token"
    <3>1. k \in (code + 1)..(Beyond(t, code, {"cap"}) - 1) \/ k = code
            \/ (k = end + 1 /\ Class(t, end + 1) = "sep")
      BY <1>0, <2>1, <2>2, <2>3, <2>4
    <3> QED
      BY <1>1, <2>2, <3>1
  <2> QED
    BY <2>5 DEF NoToken
<1>2. CASE ~(Class(t, code) = "five" /\ Class(t, code + 1) = "cap")
  <2>1. CityTail(t, end) = end
    BY <1>2 DEF CityTail
  <2>2. (end + 1)..end = {}
    BY <1>0
  <2> QED
    BY <2>1, <2>2 DEF NoToken
<1> QED
  BY <1>1, <1>2

LEMMA StreetHit ==
  ASSUME NEW t, IsText(t), NEW i \in 1..Len(t), Street(t, i) # 0
  PROVE  Street(t, i) \in i..Len(t) /\ NoToken(t, i, Street(t, i))
<1> DEFINE stop == StreetStop(t, i)
<1>1. /\ Class(t, i) = "few" /\ Class(t, i + 1) = "street"
      /\ Street(t, i) = CityTail(t, stop - 1)
  BY DEF Street, StreetStop
<1>2. /\ stop \in (i + 2)..(Len(t) + 1)
      /\ \A k \in (i + 2)..(stop - 1) : Class(t, k) \notin {"sep", "five", "token", "end"}
  BY <1>1, StreetStops
<1>3. Len(t) \in Nat
  BY TextDomain
<1> HIDE DEF stop
<1>4. PICK m \in 1..Len(t) : m = stop - 1
  BY <1>2, <1>3
<1>5. CityTail(t, m) \in m..Len(t) /\ NoToken(t, m + 1, CityTail(t, m))
  BY TailNotEmpty, TailHit
<1>6. ASSUME NEW k \in i..CityTail(t, m)
      PROVE  Class(t, k) # "token"
  <2>1. k = i \/ k = i + 1 \/ k \in (i + 2)..(stop - 1) \/ k \in (m + 1)..CityTail(t, m)
    BY <1>2, <1>3, <1>4, <1>5
  <2> QED
    BY <1>1, <1>2, <1>5, <2>1 DEF NoToken
<1>7. CityTail(t, m) \in i..Len(t)
  BY <1>2, <1>3, <1>4, <1>5
<1> QED
  BY <1>1, <1>4, <1>6, <1>7 DEF NoToken

LEMMA NameHit ==
  ASSUME NEW t, IsText(t), NEW i \in 1..Len(t), NEW k \in DOMAIN KnownNames,
         NEW name, name = KnownNames[k].folded, Name(t, i, name) # 0,
         NEW last, last = Name(t, i, name)
  PROVE  IsHit(t, i, i, last)
<1>1. /\ last = i + Len(name) - 1 /\ last <= Len(t) /\ KeyOf(SubSeq(t, i, last)) = name
  BY DEF Name
<1>2. IsText(name) /\ name # << >> /\ \A w \in Range(name) : w[1] # "token"
  <2>1. KnownNames[k] \in Range(KnownNames)
    BY DEF Range
  <2>2. /\ KnownNames[k].folded \in Seq(Range(KnownNames[k].folded)) \ {<< >>}
        /\ \A w \in Range(KnownNames[k].folded) : w[1] # "token"
    BY <2>1, NamesAssumption
  <2> QED
    BY <2>2 DEF IsText
<1>3. Len(name) \in Nat \ {0} /\ DOMAIN name = 1..Len(name) /\ Len(t) \in Nat
  BY <1>2, TextDomain
<1>4. last \in i..Len(t) /\ i \in 1..(Len(t) + 1) /\ last \in (i - 1)..Len(t)
  <2>1. Len(name) >= 1 /\ i >= 1 /\ last = i + Len(name) - 1 /\ last <= Len(t)
    BY <1>1, <1>3
  <2>2. i \in Nat /\ Len(name) \in Nat /\ Len(t) \in Nat
    BY <1>3
  <2> QED
    BY ONLY <2>1, <2>2
<1> DEFINE s == SubSeq(t, i, last)
<1>5. IsText(s) /\ Len(s) = last - i + 1 /\ \A n \in 1..(last - i + 1) : s[n] = t[i + n - 1]
  BY <1>4, SubText
<1>6. \A n \in 1..Len(s) : KeyOf(s)[n] = FoldOf(s[n])
  BY <1>5, KeyIs
<1>7. name = KeyOf(s)
  BY <1>1
<1> HIDE DEF s
<1>8. ASSUME NEW j \in i..last
      PROVE  t[j] \notin TokenWords
  <2>1. PICK n \in 1..Len(s) : i + n - 1 = j
    <3>1. j - i + 1 \in 1..Len(s) /\ i + (j - i + 1) - 1 = j
      BY <1>4, <1>5
    <3> QED
      BY <3>1
  <2>2. s[n] = t[j]
    BY <1>5, <2>1
  <2>3. n \in DOMAIN name
    BY <1>1, <1>3, <1>4, <1>5
  <2>4. name[n] = FoldOf(t[j])
    BY <1>6, <1>7, <2>2
  <2>5. FoldOf(t[j])[1] # "token"
    BY <1>2, <2>3, <2>4 DEF Range
  <2> QED
    BY <2>5, TokenType
<1>9. i \in i..last /\ last \in 1..Len(t)
  BY <1>3, <1>4
<1> QED
  BY <1>8, <1>9 DEF IsHit

LEMMA Hit ==
  ASSUME NEW t, IsText(t), NEW i \in DOMAIN t, NEW p \in Range(Passes),
         NEW end, end = Found(p, t, i), end # 0,
         NEW from, from = IF p.by = "civility" THEN i + 1 ELSE i
  PROVE  IsHit(t, i, from, end)
<1>1. i \in 1..Len(t) /\ DOMAIN t = 1..Len(t) /\ Len(t) \in Nat
  BY TextDomain
<1>2. CASE p.by = "mail"
  <2>1. end = i + 1 /\ Class(t, i) \in Local /\ Class(t, i + 1) = "at" /\ from = i
    BY <1>2 DEF Found, Mail
  <2>2. i + 1 \in DOMAIN t
    BY <2>1, ClassInside
  <2>3. ASSUME NEW k \in i..end
        PROVE  Class(t, k) # "token"
    <3>1. k = i \/ k = i + 1
      BY <1>1, <2>1
    <3> QED
      BY <2>1, <3>1 DEF Local
  <2>4. end \in i..Len(t) /\ from \in i..end /\ NoToken(t, i, end)
    BY <1>1, <2>1, <2>2, <2>3 DEF NoToken
  <2> QED
    BY <1>1, <2>4, HitOf
<1>3. CASE p.by = "amount"
  <2>1. end = Amount(t, i) /\ from = i
    BY <1>3 DEF Found
  <2>2. end \in i..Len(t) /\ NoToken(t, i, end)
    BY <1>1, <2>1, AmountHit
  <2>3. from \in i..end
    BY <1>1, <2>1, <2>2
  <2> QED
    BY <1>1, <2>2, <2>3, HitOf
<1>4. CASE p.by \in {"id", "siren"}
  <2>1. end = i /\ from = i /\ Class(t, i) = "nine"
    BY <1>4 DEF Found, KnownId, Siren
  <2>2. end \in i..Len(t) /\ from \in i..end /\ NoToken(t, i, end)
    BY <1>1, <2>1 DEF NoToken
  <2> QED
    BY <1>1, <2>2, HitOf
<1>5. CASE p.by = "siret"
  <2>1. end = i + 1 /\ Class(t, i) = "nine" /\ Class(t, i + 1) = "five" /\ from = i
    BY <1>5 DEF Found, Siret
  <2>2. i + 1 \in DOMAIN t
    BY <2>1, ClassInside
  <2>3. ASSUME NEW k \in i..end
        PROVE  Class(t, k) # "token"
    <3>1. k = i \/ k = i + 1
      BY <1>1, <2>1
    <3> QED
      BY <2>1, <3>1
  <2>4. end \in i..Len(t) /\ from \in i..end /\ NoToken(t, i, end)
    BY <1>1, <2>1, <2>2, <2>3 DEF NoToken
  <2> QED
    BY <1>1, <2>4, HitOf
<1>6. CASE p.by = "street"
  <2>1. end = Street(t, i) /\ from = i
    BY <1>6 DEF Found
  <2>2. end \in i..Len(t) /\ NoToken(t, i, end)
    BY <1>1, <2>1, StreetHit
  <2>3. from \in i..end
    BY <1>1, <2>1, <2>2
  <2> QED
    BY <1>1, <2>2, <2>3, HitOf
<1>7. CASE p.by = "civility"
  <2>1. end = Civility(t, i) /\ from = i + 1
    BY <1>7 DEF Found
  <2>2. end \in (i + 1)..Len(t) /\ NoToken(t, i, end)
    BY <1>1, <2>1, CivilityHit
  <2>3. end \in i..Len(t) /\ from \in i..end
    BY <1>1, <2>1, <2>2
  <2> QED
    BY <1>1, <2>2, <2>3, HitOf
<1>8. CASE p.by = "name" /\ \E k \in DOMAIN KnownNames : p.folded = KnownNames[k].folded
  <2>1. end = Name(t, i, p.folded) /\ from = i
    BY <1>8 DEF Found
  <2> QED
    BY <1>1, <1>8, <2>1, NameHit
<1> QED
  BY <1>2, <1>3, <1>4, <1>5, <1>6, <1>7, <1>8, PassIs

--------------------------------------------------------------------------------
(* A pass. What it has written so far says what it has read so far.           *)
IsDone(done) ==
  IsText(done.text) /\ IsTable(done.table) /\ Closed(done.text, done.table.map)

Faithful(done, acc, k) ==
  /\ acc.next \in (k + 1)..(Len(done.text) + 1)
  /\ IsText(acc.text) /\ IsTable(acc.table) /\ Closed(acc.text, acc.table.map)
  /\ Prolongs(acc.table.map, done.table.map)
  /\ Said(acc.text, acc.table.map) = Said(SubSeq(done.text, 1, acc.next - 1), done.table.map)

LEMMA PieceFree ==
  ASSUME NEW t, IsText(t), NEW i \in 1..(Len(t) + 1), NEW j \in (i - 1)..Len(t),
         \A k \in i..j : t[k] \notin TokenWords
  PROVE  Tokenless(SubSeq(t, i, j))
<1> DEFINE s == SubSeq(t, i, j)
<1>1. IsText(s) /\ Len(s) = j - i + 1 /\ \A n \in 1..(j - i + 1) : s[n] = t[i + n - 1]
  BY SubText
<1>2. DOMAIN s = 1..(j - i + 1) /\ Len(t) \in Nat
  BY <1>1, TextDomain
<1> HIDE DEF s
<1>3. ASSUME NEW n \in DOMAIN s
      PROVE  s[n] \notin TokenWords
  <2>1. i + n - 1 \in i..j /\ s[n] = t[i + n - 1]
    BY <1>1, <1>2
  <2> QED
    BY <2>1
<1> QED
  BY <1>3 DEF Tokenless, s

LEMMA JoinedClosed ==
  ASSUME NEW t, IsText(t), NEW u, IsText(u), NEW map, Closed(t, map), Closed(u, map)
  PROVE  Closed(t \o u, map)
<1>1. /\ IsText(t \o u) /\ Len(t \o u) = Len(t) + Len(u)
      /\ \A i \in 1..Len(t) : (t \o u)[i] = t[i]
      /\ \A i \in 1..Len(u) : (t \o u)[Len(t) + i] = u[i]
  BY Concatenated
<1>2. /\ Len(t) \in Nat /\ DOMAIN t = 1..Len(t) /\ Len(u) \in Nat /\ DOMAIN u = 1..Len(u)
      /\ DOMAIN (t \o u) = 1..(Len(t) + Len(u))
  BY <1>1, TextDomain
<1>3. PICK c : c = t \o u
  OBVIOUS
<1>4. ASSUME NEW i \in 1..(Len(t) + Len(u)), c[i] \in TokenWords
      PROVE  c[i] \in DOMAIN map
  <2>1. CASE i \in 1..Len(t)
    BY <1>1, <1>2, <1>3, <1>4, <2>1 DEF Closed
  <2>2. CASE i \notin 1..Len(t)
    <3>1. PICK j \in 1..Len(u) : i = Len(t) + j
      <4>1. i - Len(t) \in 1..Len(u) /\ i = Len(t) + (i - Len(t))
        BY <1>2, <2>2
      <4> QED
        BY <4>1
    <3>2. c[i] = u[j] /\ j \in DOMAIN u
      BY <1>1, <1>2, <1>3, <3>1
    <3> QED
      BY <1>4, <3>2 DEF Closed
  <2> QED
    BY <2>1, <2>2
<1> QED
  BY <1>2, <1>3, <1>4 DEF Closed

LEMMA FreeClosed ==
  ASSUME NEW t, Tokenless(t), NEW map
  PROVE  Closed(t, map)
BY DEF Tokenless, Closed

(* A word that is none of a hit goes through.                                 *)
LEMMA WordKept ==
  ASSUME NEW done, IsDone(done), NEW k \in 1..Len(done.text), NEW acc, Faithful(done, acc, k - 1),
         acc.next = k,
         NEW new, new.text = acc.text \o <<done.text[k]>>, new.table = acc.table, new.next = k + 1
  PROVE  Faithful(done, new, k)
<1> DEFINE X == done.text
           w == X[k]
           m0 == done.table.map
           m == acc.table.map
<1>1. /\ IsText(X) /\ Len(X) \in Nat /\ DOMAIN X = 1..Len(X) /\ IsMap(m0) /\ IsMap(m)
      /\ DOMAIN m \subseteq TokenWords /\ IsText(acc.text)
  BY TextDomain DEF IsDone, IsTable, Faithful
<1>2. Closed(<<w>>, m0)
  <2>1. DOMAIN <<w>> = {1} /\ <<w>>[1] = w
    OBVIOUS
  <2>2. w \in TokenWords => w \in DOMAIN m0
    BY <1>1 DEF IsDone, Closed
  <2> HIDE DEF w, m0
  <2> QED
    BY <2>1, <2>2 DEF Closed
<1>3. Said(<<w>>, m) = Said(<<w>>, m0) /\ Closed(<<w>>, m)
  <2>1. Prolongs(m, m0)
    BY DEF Faithful
  <2> HIDE DEF w, m, m0
  <2> QED
    BY <1>1, <1>2, <2>1, SaidProlonged
<1>4. IsText(SubSeq(X, 1, k - 1)) /\ SubSeq(X, 1, k) = SubSeq(X, 1, k - 1) \o <<w>>
  BY <1>1, TextPrefixes
<1>5. Said(acc.text, m) = Said(SubSeq(X, 1, k - 1), m0)
  BY DEF Faithful
<1>6. IsText(<<w>>)
  BY OneIsText
<1>7. /\ Said(acc.text \o <<w>>, m) = Said(acc.text, m) \o Said(<<w>>, m)
      /\ Said(SubSeq(X, 1, k - 1) \o <<w>>, m0) = Said(SubSeq(X, 1, k - 1), m0) \o Said(<<w>>, m0)
  <2> HIDE DEF w, m, m0, X
  <2>1. PICK a, b, one : /\ a = acc.text /\ b = SubSeq(X, 1, k - 1) /\ one = <<w>>
                         /\ IsText(a) /\ IsText(b) /\ IsText(one)
    BY <1>1, <1>4, <1>6
  <2>2. IsMap(m) /\ IsMap(m0) /\ IsText(a) /\ IsText(b) /\ IsText(one)
    BY <1>1, <2>1
  <2>3. Said(a \o one, m) = Said(a, m) \o Said(one, m)
    BY ONLY <2>2, SaidConcatenated
  <2>4. Said(b \o one, m0) = Said(b, m0) \o Said(one, m0)
    BY ONLY <2>2, SaidConcatenated
  <2> QED
    BY <2>1, <2>3, <2>4
<1>8. Said(new.text, m) = Said(SubSeq(X, 1, k), m0)
  <2>1. new.text = acc.text \o <<w>>
    OBVIOUS
  <2> HIDE DEF w, m, m0, X
  <2> QED
    BY <2>1, <1>3, <1>4, <1>5, <1>7
<1>9. Closed(new.text, m) /\ IsText(new.text)
  <2>1. new.text = acc.text \o <<w>> /\ Closed(acc.text, m)
    BY DEF Faithful
  <2> HIDE DEF w, m, m0, X
  <2>2. PICK a, one : a = acc.text /\ one = <<w>> /\ IsText(a) /\ IsText(one)
    BY <1>1, <1>6
  <2>3. Closed(a, m) /\ Closed(one, m)
    BY <1>3, <2>1, <2>2
  <2>4. Closed(a \o one, m) /\ IsText(a \o one)
    BY ONLY <2>2, <2>3, JoinedClosed, Concatenated
  <2> QED
    BY <2>1, <2>2, <2>4
<1>10. new.next \in (k + 1)..(Len(X) + 1) /\ new.next - 1 = k
  BY <1>1
<1> QED
  BY <1>8, <1>9, <1>10 DEF Faithful

(* A hit becomes a token that says it.                                        *)
LEMMA HitRecoded ==
  ASSUME NEW done, IsDone(done), NEW k \in 1..Len(done.text), NEW acc, Faithful(done, acc, k - 1),
         acc.next = k,
         NEW from, NEW end, IsHit(done.text, k, from, end), NEW kind \in TokenKinds,
         NEW got, got = TokenFor(acc.table, kind, SubSeq(done.text, from, end)),
         NEW new, new.text = (acc.text \o SubSeq(done.text, k, from - 1)) \o <<got.token>>,
         new.table = got.table, new.next = end + 1
  PROVE  Faithful(done, new, k)
<1> DEFINE X == done.text
           m0 == done.table.map
           m == acc.table.map
           more == got.table.map
           before == SubSeq(X, 1, k - 1)
           kept == SubSeq(X, k, from - 1)
           value == SubSeq(X, from, end)
           token == got.token
<1>1. /\ IsText(X) /\ Len(X) \in Nat /\ DOMAIN X = 1..Len(X) /\ IsMap(m0) /\ IsMap(m)
      /\ DOMAIN m \subseteq TokenWords /\ IsText(acc.text) /\ Closed(acc.text, m)
      /\ Prolongs(m, m0) /\ Said(acc.text, m) = Said(before, m0) /\ DOMAIN m0 \subseteq TokenWords
  BY TextDomain DEF IsDone, IsTable, Faithful
<1>2. /\ from \in k..end /\ end \in 1..Len(X) /\ \A j \in k..end : X[j] \notin TokenWords
  BY DEF IsHit
<1>3. /\ IsText(before) /\ IsText(kept) /\ IsText(value) /\ IsText(SubSeq(X, k, end))
      /\ SubSeq(X, 1, end) = before \o SubSeq(X, k, end)
      /\ SubSeq(X, k, end) = kept \o value
      /\ Tokenless(kept) /\ Tokenless(value)
  <2> HIDE DEF X
  <2>1. PICK b \in (1 - 1)..Len(X) : b = k - 1
    BY <1>1, <1>2
  <2>2. 1 \in 1..(Len(X) + 1) /\ end \in b..Len(X) /\ b + 1 = k
    BY <1>1, <1>2, <2>1
  <2>3. /\ IsText(SubSeq(X, 1, b)) /\ IsText(SubSeq(X, b + 1, end))
        /\ SubSeq(X, 1, end) = SubSeq(X, 1, b) \o SubSeq(X, b + 1, end)
    BY <1>1, <2>2, Cut
  <2>4. PICK c \in (k - 1)..Len(X) : c = from - 1
    BY <1>1, <1>2
  <2>5. k \in 1..(Len(X) + 1) /\ end \in c..Len(X) /\ c + 1 = from
    BY <1>1, <1>2, <2>4
  <2>6. /\ IsText(SubSeq(X, k, c)) /\ IsText(SubSeq(X, c + 1, end))
        /\ SubSeq(X, k, end) = SubSeq(X, k, c) \o SubSeq(X, c + 1, end)
    BY <1>1, <2>5, Cut
  <2>7. \A j \in k..c : j \in k..end
    BY <1>2, <2>4
  <2>8. Tokenless(SubSeq(X, k, c))
    BY <1>1, <1>2, <2>5, <2>7, PieceFree
  <2>9. from \in 1..(Len(X) + 1) /\ end \in (from - 1)..Len(X) /\ \A j \in from..end : j \in k..end
    BY <1>1, <1>2
  <2>10. Tokenless(SubSeq(X, from, end))
    BY <1>1, <1>2, <2>9, PieceFree
  <2> QED
    BY <2>1, <2>2, <2>3, <2>4, <2>5, <2>6, <2>8, <2>10
<1>4. /\ IsTable(got.table) /\ Prolongs(more, m) /\ token \in DOMAIN more
      /\ KeyOf(more[token]) = KeyOf(value)
  <2>1. IsTable(acc.table)
    BY DEF Faithful
  <2> QED
    BY <1>3, <2>1, TokenForIs, SMTT(20)
<1>5. IsMap(more) /\ DOMAIN more \subseteq TokenWords
  BY <1>4 DEF IsTable
<1>6. new.text = (acc.text \o kept) \o <<token>>
  OBVIOUS
<1>7. new.table = got.table /\ new.next = end + 1
  OBVIOUS
<1> HIDE DEF X, m0, m, more, before, kept, value, token
<1>8. Said(acc.text, more) = Said(acc.text, m) /\ Closed(acc.text, more)
  BY <1>1, <1>4, <1>5, SaidProlonged
<1>9. Said(kept, more) = KeyOf(kept) /\ Closed(kept, more)
  BY <1>3, <1>5, SaidFree, FreeClosed
<1>10. Said(<<token>>, more) = KeyOf(value) /\ IsText(<<token>>) /\ Closed(<<token>>, more)
  <2>1. Closed(<<token>>, more)
    BY <1>4 DEF Closed
  <2> QED
    BY <1>4, <1>5, <2>1, SaidToken, OneIsText
<1>11. PICK a : a = acc.text \o kept /\ IsText(a) /\ Closed(a, more)
                /\ Said(a, more) = Said(acc.text, more) \o Said(kept, more)
  <2>1. PICK b : b = acc.text /\ IsText(b) /\ Closed(b, more)
    BY <1>1, <1>8
  <2>2. IsText(kept) /\ Closed(kept, more) /\ IsMap(more)
    BY <1>3, <1>5, <1>9
  <2>3. IsText(b \o kept) /\ Closed(b \o kept, more)
    BY ONLY <2>1, <2>2, JoinedClosed, Concatenated
  <2>4. Said(b \o kept, more) = Said(b, more) \o Said(kept, more)
    BY ONLY <2>1, <2>2, SaidConcatenated
  <2> QED
    BY <2>1, <2>3, <2>4
<1>12. /\ IsText(new.text) /\ Closed(new.text, more)
       /\ Said(new.text, more) = Said(a, more) \o Said(<<token>>, more)
  <2>1. new.text = a \o <<token>>
    BY <1>6, <1>11
  <2>2. PICK one : one = <<token>> /\ IsText(one) /\ Closed(one, more)
    BY <1>10
  <2>3. /\ IsText(a) /\ Closed(a, more) /\ IsMap(more)
        /\ IsText(one) /\ Closed(one, more)
    BY <1>5, <1>11, <2>2
  <2>4. IsText(a \o one) /\ Closed(a \o one, more)
    BY ONLY <2>3, JoinedClosed, Concatenated
  <2>5. Said(a \o one, more) = Said(a, more) \o Said(one, more)
    BY ONLY <2>3, SaidConcatenated
  <2> QED
    BY <2>1, <2>2, <2>4, <2>5
<1>13. Said(SubSeq(X, 1, end), m0) = Said(before, m0) \o (KeyOf(kept) \o KeyOf(value))
  <2>0. PICK c : c = SubSeq(X, k, end) /\ IsText(c)
    BY <1>3
  <2>5. IsText(before) /\ IsText(kept) /\ IsText(value) /\ IsMap(m0)
    BY <1>1, <1>3
  <2>6. Said(before \o c, m0) = Said(before, m0) \o Said(c, m0)
    BY ONLY <2>0, <2>5, SaidConcatenated
  <2>1. Said(before \o SubSeq(X, k, end), m0) = Said(before, m0) \o Said(SubSeq(X, k, end), m0)
    BY <2>0, <2>6
  <2>2. Said(kept \o value, m0) = Said(kept, m0) \o Said(value, m0)
    BY ONLY <2>5, SaidConcatenated
  <2>3. Said(kept, m0) = KeyOf(kept) /\ Said(value, m0) = KeyOf(value)
    BY <1>1, <1>3, SaidFree
  <2> QED
    BY <1>3, <2>1, <2>2, <2>3
<1>14. (Said(before, m0) \o KeyOf(kept)) \o KeyOf(value) =
         Said(before, m0) \o (KeyOf(kept) \o KeyOf(value))
  <2>1. PICK b, c, d : /\ b = Said(before, m0) /\ c = KeyOf(kept) /\ d = KeyOf(value)
                       /\ IsText(b) /\ IsText(c) /\ IsText(d)
    BY <1>1, <1>3, SaidIsText, KeyIs
  <2>2. (b \o c) \o d = b \o (c \o d)
    BY ONLY <2>1, Associative
  <2> QED
    BY <2>1, <2>2
<1>15. Said(new.text, more) = Said(SubSeq(X, 1, end), m0)
  BY <1>1, <1>8, <1>9, <1>10, <1>11, <1>12, <1>13, <1>14
<1>16. Prolongs(more, m0)
  BY <1>1, <1>4 DEF Prolongs
<1>17. end + 1 \in (k + 1)..(Len(X) + 1) /\ end + 1 - 1 = end
  BY <1>1, <1>2
<1>18. /\ new.next \in (k + 1)..(Len(X) + 1)
       /\ IsText(new.text) /\ IsTable(new.table) /\ Closed(new.text, new.table.map)
       /\ Prolongs(new.table.map, m0)
  BY <1>4, <1>7, <1>12, <1>16, <1>17 DEF more
<1>19. Said(new.text, new.table.map) = Said(SubSeq(X, 1, new.next - 1), m0)
  <2>1. new.next - 1 = end
    <3>1. end \in Nat
      BY <1>1, <1>2
    <3>2. new.next = end + 1
      BY <1>7
    <3> QED
      BY ONLY <3>1, <3>2
  <2>2. new.table.map = more
    BY <1>7 DEF more
  <2> QED
    BY ONLY <1>15, <2>1, <2>2
<1> QED
  BY ONLY <1>18, <1>19 DEF Faithful, X, m0

LEMMA ScanFaithful ==
  ASSUME NEW done, IsDone(done), NEW p \in Range(Passes), NEW k \in 1..Len(done.text),
         NEW acc, IsScan(acc), Faithful(done, acc, k - 1),
         NEW new, new = Scan(done.text, p, acc, k)
  PROVE  Faithful(done, new, k)
<1> DEFINE X == done.text
           end == Found(p, X, k)
           from == IF p.by = "civility" THEN k + 1 ELSE k
           got == TokenFor(acc.table, p.kind, SubSeq(X, from, end))
<1>1. IsText(X) /\ Len(X) \in Nat /\ DOMAIN X = 1..Len(X)
  BY TextDomain DEF IsDone
<1>2. new = IF k < acc.next THEN acc
            ELSE IF end = 0 THEN [acc EXCEPT !.text = Append(@, X[k]), !.next = k + 1]
            ELSE [text |-> acc.text \o SubSeq(X, k, from - 1) \o <<got.token>>,
                  table |-> got.table, next |-> end + 1]
  BY DEF Scan
<1>3. acc.next \in k..(Len(X) + 1)
  <2>1. acc.next \in (k - 1 + 1)..(Len(X) + 1)
    BY DEF Faithful
  <2> QED
    BY <1>1, <2>1
<1> HIDE DEF X, end, from, got
<1>4. CASE k < acc.next
  <2>1. new = acc
    BY <1>2, <1>4
  <2>2. acc.next \in (k + 1)..(Len(X) + 1)
    BY <1>1, <1>3, <1>4
  <2> QED
    BY <2>1, <2>2 DEF Faithful, X
<1>5. CASE ~(k < acc.next) /\ end = 0
  <2>1. acc.next = k
    BY <1>1, <1>3, <1>5
  <2>2. new = [acc EXCEPT !.text = Append(@, X[k]), !.next = k + 1]
    BY <1>2, <1>5
  <2>3. new.text = Append(acc.text, X[k]) /\ new.table = acc.table /\ new.next = k + 1
    BY <2>2 DEF IsScan
  <2>4. Append(acc.text, X[k]) = acc.text \o <<X[k]>>
    BY Extended DEF IsScan
  <2> QED
    BY <2>1, <2>3, <2>4, WordKept DEF X
<1>6. CASE ~(k < acc.next) /\ end # 0
  <2>1. acc.next = k
    BY <1>1, <1>3, <1>6
  <2>2. new = [text |-> (acc.text \o SubSeq(X, k, from - 1)) \o <<got.token>>,
               table |-> got.table, next |-> end + 1]
    BY <1>2, <1>6
  <2>3. /\ new.text = (acc.text \o SubSeq(X, k, from - 1)) \o <<got.token>>
        /\ new.table = got.table /\ new.next = end + 1
    <3>1. PICK a : a = (acc.text \o SubSeq(X, k, from - 1)) \o <<got.token>>
      OBVIOUS
    <3>2. new = [text |-> a, table |-> got.table, next |-> end + 1]
      BY <2>2, <3>1
    <3>3. new.text = a /\ new.table = got.table /\ new.next = end + 1
      BY ONLY <3>2
    <3> QED
      BY <3>1, <3>3
  <2>4. IsHit(X, k, from, end)
    <3>1. end = Found(p, X, k) /\ end # 0 /\ k \in DOMAIN X
      <4>1. end = Found(p, X, k)
        BY DEF end
      <4>2. k \in DOMAIN X
        BY <1>1 DEF X
      <4> QED
        BY <1>6, <4>1, <4>2
    <3>2. from = IF p.by = "civility" THEN k + 1 ELSE k
      BY DEF from
    <3> QED
      BY <1>1, <3>1, <3>2, Hit
  <2>5. p.kind \in TokenKinds
    BY PassKind
  <2> QED
    BY <2>1, <2>3, <2>4, <2>5, HitRecoded DEF got, X
<1> QED
  BY <1>4, <1>5, <1>6

(* A pass changes how a text is written, and not what it says.                *)
SaysSame(new, done) ==
  /\ IsDone(new) /\ Prolongs(new.table.map, done.table.map)
  /\ Said(new.text, new.table.map) = Said(done.text, done.table.map)

LEMMA RunPassFaithful ==
  ASSUME NEW done, IsDone(done), NEW p \in Range(Passes)
  PROVE  SaysSame(RunPass(done, p), done)
<1> DEFINE n == Len(done.text)
<1>1. n \in Nat /\ DOMAIN done.text = 1..n /\ IsText(done.text)
  BY TextDomain DEF IsDone
<1> HIDE DEF n
<1>2. PICK it : /\ it[0] = Begun(done)
                /\ \A k \in 1..n : it[k] = Scan(done.text, p, it[k - 1], k)
                /\ RunPass(done, p) = [text |-> it[n].text, table |-> it[n].table]
  BY <1>1, ScanSteps
<1> DEFINE T == {k \in 0..n : IsScan(it[k]) /\ Faithful(done, it[k], k)}
<1>3. 0 \in T
  <2> DEFINE acc == Begun(done)
  <2>1. acc.text = << >> /\ acc.table = done.table /\ acc.next = 1
    BY DEF Begun
  <2>2. IsText(<< >>) /\ Closed(<< >>, done.table.map)
    BY EmptyText DEF Closed
  <2>3. IsScan(acc)
    BY <2>2 DEF IsScan, Begun
  <2>4. SubSeq(done.text, 1, 0) = << >>
    BY <1>1, TextPrefixes
  <2>5. Prolongs(done.table.map, done.table.map)
    BY DEF Prolongs
  <2>6. acc.next \in (0 + 1)..(Len(done.text) + 1) /\ acc.next - 1 = 0
    BY <1>1, <2>1 DEF n
  <2> HIDE DEF acc
  <2>7. Faithful(done, acc, 0)
    BY <2>1, <2>2, <2>4, <2>5, <2>6 DEF Faithful, IsDone
  <2> QED
    BY <1>1, <1>2, <2>3, <2>7 DEF acc
<1>4. ASSUME NEW k \in 1..n, k - 1 \in T
      PROVE  k \in T
  <2>1. IsScan(it[k - 1]) /\ Faithful(done, it[k - 1], k - 1) /\ k \in DOMAIN done.text /\ k \in 0..n
    BY <1>1, <1>4
  <2>2. it[k] = Scan(done.text, p, it[k - 1], k)
    BY <1>2
  <2>3. IsScan(it[k])
    BY <1>1, <2>1, <2>2, ScanIsText
  <2>4. k \in 1..Len(done.text)
    BY DEF n
  <2>5. Faithful(done, it[k], k)
    BY <2>1, <2>2, <2>4, ScanFaithful
  <2> QED
    BY <2>1, <2>3, <2>5
<1> HIDE DEF T
<1>5. n \in T
  BY <1>1, <1>3, <1>4, UpTo
<1>6. Faithful(done, it[n], n)
  BY <1>5 DEF T
<1> DEFINE new == RunPass(done, p)
<1>7. new.text = it[n].text /\ new.table = it[n].table
  BY <1>2
<1>8. it[n].next - 1 = n
  <2>1. it[n].next \in (n + 1)..(n + 1)
    BY <1>6 DEF Faithful, n
  <2> QED
    BY <1>1, <2>1
<1>9. SubSeq(done.text, 1, n) = done.text
  BY <1>1, TextPrefixes DEF n
<1> HIDE DEF new
<1>10. /\ IsText(it[n].text) /\ IsTable(it[n].table) /\ Closed(it[n].text, it[n].table.map)
       /\ Prolongs(it[n].table.map, done.table.map)
       /\ Said(it[n].text, it[n].table.map) = Said(SubSeq(done.text, 1, it[n].next - 1), done.table.map)
  BY <1>6 DEF Faithful
<1>11. SaysSame(new, done)
  BY <1>7, <1>8, <1>9, <1>10 DEF SaysSame, IsDone
<1> QED
  BY <1>11 DEF new

LEMMA MaxOf ==
  ASSUME NEW S \in SUBSET Nat, 0 \in S, NEW b \in Nat, \A k \in S : k <= b
  PROVE  Max(S) \in Nat /\ \A k \in S : k <= Max(S)
<1> DEFINE U == {u \in Nat : \A k \in S : k <= u}
<1>1. PICK m \in U : \A u \in U : m <= u
  <2>1. b \in U /\ U \in SUBSET Nat
    OBVIOUS
  <2> HIDE DEF U
  <2> QED
    BY <2>1, LeastNatural
<1>2. m \in S
  <2> SUFFICES ASSUME m \notin S
               PROVE  FALSE
    OBVIOUS
  <2>1. m \in Nat \ {0} /\ \A k \in S : k <= m /\ k # m
    BY DEF U
  <2>2. m - 1 \in U
    BY <2>1
  <2> QED
    BY <1>1, <2>1, <2>2
<1>3. Max(S) = m
  BY <1>2, MaxIs
<1> QED
  BY <1>2, <1>3

(* The counters of a table that goes on are not behind its tokens.            *)
Restorable(map) == \E last : IsTable([map |-> map, last |-> last])

LEMMA TableGoesOn ==
  ASSUME NEW map, Restorable(map)
  PROVE  IsTable(TokenTable(map)) /\ TokenTable(map).map = map
<1>1. PICK last : IsTable([map |-> map, last |-> last])
  BY DEF Restorable
<1>2. /\ DOMAIN map \subseteq TokenWords /\ IsMap(map) /\ last \in [TokenKinds -> Nat]
      /\ \A w \in DOMAIN map : w[3] <= last[w[2]]
  BY <1>1 DEF IsTable
<1> DEFINE S(k) == {0} \cup NumbersOf(map, k)
<1>3. ASSUME NEW k \in TokenKinds
      PROVE  Max(S(k)) \in Nat /\ \A w \in DOMAIN map : w[2] = k => w[3] <= Max(S(k))
  <2>1. ASSUME NEW n \in NumbersOf(map, k)
        PROVE  n \in Nat /\ n <= last[k]
    <3>1. PICK w \in DOMAIN map : w[2] = k /\ n = w[3]
      BY DEF NumbersOf
    <3>2. w[3] \in Nat
      BY <1>2, TokenType
    <3>3. w[3] <= last[w[2]]
      BY <1>2
    <3> QED
      BY <3>1, <3>2, <3>3
  <2>2. last[k] \in Nat
    BY <1>2
  <2>3. S(k) \in SUBSET Nat /\ 0 \in S(k) /\ \A n \in S(k) : n <= last[k]
    BY <2>1, <2>2
  <2>4. \A w \in DOMAIN map : w[2] = k => w[3] \in S(k)
    BY DEF NumbersOf
  <2> HIDE DEF S
  <2>5. Max(S(k)) \in Nat /\ \A n \in S(k) : n <= Max(S(k))
    BY <2>2, <2>3, MaxOf
  <2> QED
    BY <2>4, <2>5
<1> DEFINE table == TokenTable(map)
<1>4. table.map = map /\ table.last = [k \in TokenKinds |-> Max(S(k))]
  BY DEF TokenTable
<1> HIDE DEF S, table
<1>5. table.last \in [TokenKinds -> Nat]
  BY <1>3, <1>4
<1>6. ASSUME NEW w \in DOMAIN map
      PROVE  w[3] <= table.last[w[2]]
  <2>1. w[2] \in TokenKinds
    BY <1>2, TokenType
  <2> QED
    BY <1>3, <1>4, <2>1
<1>7. IsTable(table)
  BY <1>2, <1>4, <1>5, <1>6 DEF IsTable
<1> QED
  BY <1>4, <1>7 DEF table

(* A field that holds no token as it is typed is recoded without loss, and    *)
(* the fields before it still say what they said.                             *)
LEMMA PseudonymizeFaithful ==
  ASSUME NEW text, IsText(text), Tokenless(text), NEW map, Restorable(map),
         NEW done, done = Pseudonymize(text, map)
  PROVE  /\ Restorable(done.map) /\ Prolongs(done.map, map) /\ DOMAIN done.map \subseteq TokenWords
         /\ Closed(done.text, done.map) /\ Said(done.text, done.map) = KeyOf(text)
<1> DEFINE n == 7 + Len(KnownNames)
<1>1. n \in Nat /\ DOMAIN Passes = 1..n
  BY PassList
<1> HIDE DEF n
<1>2. PICK it : /\ it[0] = Read(text, map)
                /\ \A k \in 1..n : it[k] = RunPass(it[k - 1], Passes[k])
                /\ Pseudonymize(text, map) = [text |-> it[n].text, map |-> it[n].table.map]
  BY <1>1, PassSteps
<1>3. IsDone(it[0]) /\ it[0].text = text /\ it[0].table.map = map
  <2>1. it[0].text = text /\ it[0].table = TokenTable(map)
    BY <1>2 DEF Read
  <2> QED
    BY <2>1, TableGoesOn, FreeClosed DEF IsDone
<1>4. Said(text, map) = KeyOf(text)
  <2>1. IsMap(map) /\ DOMAIN map \subseteq TokenWords
    BY <1>3 DEF IsDone, IsTable
  <2> QED
    BY <2>1, SaidFree
<1> DEFINE T == {k \in 0..n : SaysSame(it[k], it[0])}
<1>5. 0 \in T
  BY <1>1, <1>3 DEF SaysSame, Prolongs
<1>6. ASSUME NEW k \in 1..n, k - 1 \in T
      PROVE  k \in T
  <2>1. SaysSame(it[k - 1], it[0]) /\ k \in 0..n
    BY <1>1, <1>6
  <2>2. Passes[k] \in Range(Passes)
    BY <1>1 DEF Range
  <2>3. IsDone(it[k - 1])
    BY <2>1 DEF SaysSame
  <2>4. SaysSame(it[k], it[k - 1])
    BY <1>2, <2>2, <2>3, RunPassFaithful
  <2>5. SaysSame(it[k], it[0])
    BY <2>1, <2>4 DEF SaysSame, Prolongs
  <2> QED
    BY <2>1, <2>5
<1> HIDE DEF T
<1>7. n \in T
  BY <1>1, <1>5, <1>6, UpTo
<1>8. SaysSame(it[n], it[0])
  BY <1>7 DEF T
<1>9. done.text = it[n].text /\ done.map = it[n].table.map
  BY <1>2
<1>10. /\ IsTable(it[n].table) /\ Closed(done.text, done.map) /\ Prolongs(done.map, map)
       /\ Said(done.text, done.map) = KeyOf(text)
  BY <1>3, <1>4, <1>8, <1>9 DEF SaysSame, IsDone
<1>11. IsTable([map |-> done.map, last |-> it[n].table.last])
  BY <1>9, <1>10 DEF IsTable
<1> QED
  BY <1>10, <1>11 DEF Restorable, IsTable

--------------------------------------------------------------------------------
(* A request whose fields hold no token as they are typed.                    *)
(*                                                                            *)
(* That the answer says what was asked is not inductive: each field that is   *)
(* recoded must say what was typed, now and after every field to come, so its *)
(* tokens must all be in the table, and the counters of the table must not be *)
(* behind them.                                                               *)
Echoed(fields, order) == FlattenSeq([k \in DOMAIN order |-> fields[order[k]]])

Orders == {<<1>>, <<2>>, <<2, 1>>}

TypedPlain == \A f \in Range(prompt) : \A w \in Range(f) : w[1] # "token"

FieldsHeld ==
  /\ Restorable(tokens)
  /\ \A k \in DOMAIN recoded : Closed(recoded[k], tokens)
                               /\ Said(recoded[k], tokens) = KeyOf(prompt[k])

AnswerHeld == stage = "back" => KeyOf(restored) = KeyOf(Echoed(prompt, echo))

RestoreInv == TypedPlain => FieldsHeld /\ AnswerHeld

LEMMA OneEchoed ==
  ASSUME NEW fields, NEW i, IsText(fields[i])
  PROVE  Echoed(fields, <<i>>) = fields[i]
<1>1. [k \in DOMAIN <<i>> |-> fields[<<i>>[k]]] = <<fields[i]>>
  OBVIOUS
<1>2. PICK e : e = fields[i] /\ IsText(e)
  OBVIOUS
<1>3. IsText(<< >>) /\ << >> \o <<e>> = <<e>> /\ << >> \o e = e
  BY <1>2, EmptyText, OneIsText, EmptyConcatenated
<1>4. FlattenSeq(<< >> \o <<e>>) = FlattenSeq(<< >>) \o e
  BY <1>2, <1>3, FlatExtended
<1>5. FlattenSeq(<< >>) = << >>
  BY DEF FlattenSeq
<1> QED
  BY <1>1, <1>2, <1>3, <1>4, <1>5 DEF Echoed

LEMMA TwoEchoed ==
  ASSUME NEW fields, IsText(fields[1]), IsText(fields[2])
  PROVE  Echoed(fields, <<2, 1>>) = fields[2] \o fields[1]
<1>1. PICK pair : pair = <<fields[2], fields[1]>>
  OBVIOUS
<1>2. [k \in DOMAIN <<2, 1>> |-> fields[<<2, 1>>[k]]] = pair
  BY <1>1
<1>3. IsText(pair) /\ Len(pair) = 2 /\ pair[1] = fields[2] /\ pair[2] = fields[1]
  <2>1. pair \in Seq({fields[1], fields[2]})
    BY <1>1
  <2> QED
    BY <1>1, <2>1, SeqText
<1>4. FlattenSeq(pair) = pair[1] \o pair[2]
  BY <1>3, TwoJoined DEF Joined
<1> QED
  BY <1>2, <1>3, <1>4 DEF Echoed

(* The answer, in each of its orders.                                         *)
LEMMA AnswerRestores ==
  ASSUME NEW map, Restorable(map), NEW fields, NEW typed,
         \A k \in {1, 2} : /\ IsText(fields[k]) /\ IsText(typed[k])
                           /\ Said(fields[k], map) = KeyOf(typed[k]),
         NEW order \in Orders
  PROVE  KeyOf(Reidentify(Echoed(fields, order), map)) = KeyOf(Echoed(typed, order))
<1>1. IsMap(map)
  BY DEF Restorable, IsTable
<1>2. CASE order = <<1>>
  <2>1. Echoed(fields, order) = fields[1] /\ Echoed(typed, order) = typed[1]
    BY <1>2, OneEchoed
  <2> QED
    BY <2>1 DEF Said
<1>3. CASE order = <<2>>
  <2>1. Echoed(fields, order) = fields[2] /\ Echoed(typed, order) = typed[2]
    BY <1>3, OneEchoed
  <2> QED
    BY <2>1 DEF Said
<1>4. CASE order = <<2, 1>>
  <2>1. Echoed(fields, order) = fields[2] \o fields[1] /\ Echoed(typed, order) = typed[2] \o typed[1]
    BY <1>4, TwoEchoed
  <2>2. Said(fields[2] \o fields[1], map) = Said(fields[2], map) \o Said(fields[1], map)
    <3>1. PICK a, b : a = fields[2] /\ b = fields[1] /\ IsText(a) /\ IsText(b)
      OBVIOUS
    <3>2. Said(a \o b, map) = Said(a, map) \o Said(b, map)
      BY ONLY <1>1, <3>1, SaidConcatenated
    <3> QED
      BY <3>1, <3>2
  <2>3. KeyOf(typed[2] \o typed[1]) = KeyOf(typed[2]) \o KeyOf(typed[1])
    BY KeyConcatenated
  <2> QED
    BY <2>1, <2>2, <2>3 DEF Said
<1> QED
  BY <1>2, <1>3, <1>4 DEF Orders

LEMMA FieldRecoded ==
  ASSUME AiInv, TypedPlain, FieldsHeld, Recode
  PROVE  FieldsHeld'
<1> DEFINE k == Len(recoded) + 1
           done == Pseudonymize(prompt[k], tokens)
<1>1. /\ recoded' = Append(recoded, done.text) /\ tokens' = done.map /\ prompt' = prompt
      /\ Len(recoded) < 2 /\ IsText(recoded) /\ Len(prompt) = 2
  BY DEF Recode, AiInv, PromptShaped
<1>2. Len(recoded) \in Nat /\ DOMAIN recoded = 1..Len(recoded)
  BY <1>1, TextDomain
<1>3. k \in {1, 2} /\ k \in Nat
  BY <1>1, <1>2
<1> HIDE DEF done
<1>4. IsText(prompt[k]) /\ Tokenless(prompt[k])
  <2>1. IsText(prompt[k]) /\ k \in DOMAIN prompt
    BY <1>3 DEF AiInv, PromptShaped
  <2>2. prompt[k] \in Range(prompt)
    BY <2>1 DEF Range
  <2> HIDE DEF k
  <2>3. ASSUME NEW i \in DOMAIN prompt[k]
        PROVE  prompt[k][i] \notin TokenWords
    <3>1. prompt[k][i] \in Range(prompt[k])
      BY DEF Range
    <3>2. prompt[k][i][1] # "token"
      BY <2>2, <3>1 DEF TypedPlain
    <3> QED
      BY <3>2, TokenType
  <2> QED
    BY <2>1, <2>3 DEF Tokenless
<1>5. /\ Restorable(done.map) /\ Prolongs(done.map, tokens) /\ DOMAIN done.map \subseteq TokenWords
      /\ Closed(done.text, done.map) /\ Said(done.text, done.map) = KeyOf(prompt[k])
  <2>1. done = Pseudonymize(prompt[k], tokens)
    BY DEF done
  <2> HIDE DEF k
  <2> QED
    BY <1>4, <2>1, PseudonymizeFaithful DEF FieldsHeld
<1>6. /\ DOMAIN recoded' = 1..k /\ recoded'[k] = done.text
      /\ \A j \in 1..Len(recoded) : recoded'[j] = recoded[j]
  <2>1. Append(recoded, done.text) = recoded \o <<done.text>>
    BY <1>1, Extended
  <2>2. PICK e, one : e = done.text /\ one = <<e>> /\ IsText(one) /\ Len(one) = 1 /\ one[1] = e
    BY OneIsText
  <2>3. /\ IsText(recoded \o one) /\ Len(recoded \o one) = Len(recoded) + Len(one)
        /\ \A i \in 1..Len(recoded) : (recoded \o one)[i] = recoded[i]
        /\ \A i \in 1..Len(one) : (recoded \o one)[Len(recoded) + i] = one[i]
    <3>1. IsText(recoded) /\ IsText(one)
      BY <1>1, <2>2
    <3> QED
      BY ONLY <3>1, Concatenated
  <2>4. recoded' = recoded \o one
    BY <1>1, <2>1, <2>2
  <2>5. DOMAIN (recoded \o one) = 1..Len(recoded \o one) /\ 1 \in 1..Len(one)
    BY <2>2, <2>3, TextDomain
  <2> QED
    BY <2>2, <2>3, <2>4, <2>5
<1> HIDE DEF k
<1>7. ASSUME NEW j \in 1..k
      PROVE  /\ Closed(recoded'[j], done.map)
             /\ Said(recoded'[j], done.map) = KeyOf(prompt[j])
  <2>1. CASE j = k
    BY <1>5, <1>6, <2>1
  <2>2. CASE j # k
    <3>1. j \in 1..Len(recoded)
      BY <1>2, <2>2 DEF k
    <3>2. Closed(recoded[j], tokens) /\ Said(recoded[j], tokens) = KeyOf(prompt[j])
      BY <1>2, <3>1 DEF FieldsHeld
    <3>3. Said(recoded[j], done.map) = Said(recoded[j], tokens) /\ Closed(recoded[j], done.map)
      BY <1>5, <3>2, SaidProlonged
    <3> QED
      BY <1>6, <3>1, <3>2, <3>3
  <2> QED
    BY <2>1, <2>2
<1>8. Restorable(tokens')
  BY <1>1, <1>5
<1> QED
  BY <1>1, <1>6, <1>7, <1>8 DEF FieldsHeld

LEMMA RestoreStep == AiInv /\ RestoreInv /\ [AiNext]_aiVars => RestoreInv'
<1> SUFFICES ASSUME AiInv, RestoreInv, [AiNext]_aiVars, TypedPlain'
             PROVE  FieldsHeld' /\ AnswerHeld'
  BY DEF RestoreInv
<1>1. prompt' = prompt
  BY DEF AiNext, Recode, Send, Answer, aiVars
<1>2. TypedPlain /\ FieldsHeld /\ AnswerHeld
  BY <1>1 DEF RestoreInv, TypedPlain
<1>3. CASE Recode
  <2>1. FieldsHeld'
    BY <1>2, <1>3, FieldRecoded
  <2>2. stage' = "recoding"
    BY <1>3 DEF Recode
  <2> QED
    BY <2>1, <2>2 DEF AnswerHeld
<1>4. CASE Send
  <2>1. UNCHANGED <<prompt, recoded, tokens, echo, restored>> /\ stage' # "back"
    BY <1>4 DEF Send
  <2> QED
    BY <1>2, <2>1 DEF FieldsHeld, AnswerHeld
<1>5. CASE \E order \in Orders : Answer(order)
  <2>1. PICK order \in Orders : Answer(order)
    BY <1>5
  <2>2. /\ UNCHANGED <<prompt, recoded, tokens>> /\ stage = "out" /\ echo' = order
        /\ restored' = Reidentify(Echoed(recoded, order), tokens)
    BY <2>1 DEF Answer, Echoed
  <2>3. \A k \in {1, 2} : k \in DOMAIN recoded
    BY <2>2, TextDomain DEF AiInv, PromptShaped, GuardHeld
  <2>4. \A k \in {1, 2} : /\ IsText(recoded[k]) /\ IsText(prompt[k])
                          /\ Said(recoded[k], tokens) = KeyOf(prompt[k])
    BY <1>2, <2>3 DEF AiInv, PromptShaped, FieldsHeld
  <2>5. KeyOf(Reidentify(Echoed(recoded, order), tokens)) = KeyOf(Echoed(prompt, order))
    BY <1>2, <2>4, AnswerRestores DEF FieldsHeld
  <2> QED
    BY <1>2, <2>2, <2>5 DEF FieldsHeld, AnswerHeld
<1>6. CASE UNCHANGED aiVars
  BY <1>2, <1>6 DEF aiVars, FieldsHeld, AnswerHeld
<1> QED
  BY <1>3, <1>4, <1>5, <1>6 DEF AiNext, Orders

(* The answer comes back with what the fields said, up to the spelling of a   *)
(* name, for any texts, names and identifiers: every pass replaces only what  *)
(* no earlier pass replaced, a token stands for one value in all the fields,  *)
(* and a field that is recoded later gives no token another value.            *)
THEOREM AnswersAreRestored == AiSpec => []AnswerRestored
<1>1. AiInit => RestoreInv
  <2> SUFFICES ASSUME AiInit
               PROVE  FieldsHeld /\ AnswerHeld
    BY DEF RestoreInv
  <2>1. /\ recoded = << >> /\ stage = "recoding" /\ tokens = [t \in {} |-> << >>]
    BY DEF AiInit
  <2>2. DOMAIN recoded = {} /\ DOMAIN tokens = {}
    BY <2>1
  <2>3. IsTable([map |-> tokens, last |-> [k \in TokenKinds |-> 0]])
    BY <2>2 DEF IsTable, IsMap
  <2> QED
    BY <2>1, <2>2, <2>3 DEF FieldsHeld, AnswerHeld, Restorable
<1>2. AiSpec => []AiInv
  BY AiInitHolds, AiStepHolds, PTL DEF AiSpec
<1>3. AiSpec => []RestoreInv
  BY <1>1, <1>2, RestoreStep, PTL DEF AiSpec
<1>4. RestoreInv => AnswerRestored
  BY DEF RestoreInv, TypedPlain, AnswerHeld, AnswerRestored, Echoed
<1> QED
  BY <1>3, <1>4, PTL

================================================================================
