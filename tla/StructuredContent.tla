--------------------------- MODULE StructuredContent ---------------------------
(* The text of one contract as clauses and variables: StructureService, the   *)
(* clauses drafted by AI and their human review, the free editor, and the     *)
(* submission that all of it conditions.                                      *)
(*                                                                            *)
(* A clause has a key that stays from version to version and a text; Blank    *)
(* texts use a variable without a default value. The decision on a clause is  *)
(* never copied: the count of the clauses to review is made again from the    *)
(* history, at each version and at each decision.                             *)
(*                                                                            *)
(* As in ContractReview a handler is a transaction in two steps, what it      *)
(* reads and what it writes; with one editor they do not overlap.             *)
EXTENDS ContractMachine, Sequences, FiniteSets

CONSTANTS
  Editors,        \* transactions that may be in flight at the same time
  Keys,           \* keys of clauses
  Bodies,         \* texts of clauses
  Open,           \* texts with a variable that has to be filled in
  NoBody,         \* no free text
  MaxDrafts       \* bound of the model: versions

ASSUME ContentAssumption ==
  /\ Open \subseteq Bodies
  /\ NoBody \notin Bodies
  /\ IsFiniteSet(Keys)
  /\ MaxDrafts \in Nat \ {0}

VARIABLES
  contract,       \* the contracts row, with the counts the submission reads
  draft,          \* its current version: [clauses, body, filled]
  used,           \* the keys some version has had
  decided,        \* contract_clause_reviews: the last one on a text under a key
  edit            \* the transaction of each editor

contentVars == <<contract, draft, used, decided, edit>>

Clause == [text : Bodies, ai : BOOLEAN]
ClauseLists == UNION {[K -> Clause] : K \in SUBSET Keys}
Verdicts == {"APPROVED", "REJECTED"}
Unread == "NONE"

NoEdit == [op |-> "none"]

--------------------------------------------------------------------------------
(* The two counts.                                                            *)

(* Mutant: a decision is about the clause, whatever its text becomes.         *)
ValidatedOnce(key, text, history) == \E t \in Bodies : history[<<key, t>>] = "APPROVED"

(* The last decision about this text under this key is an approval.           *)
Validated(key, text, history) == history[<<key, text>>] = "APPROVED"

Unreviewed(clauses, history) ==
  Cardinality({k \in DOMAIN clauses :
                 clauses[k].ai /\ ~Validated(k, clauses[k].text, history)})

Missing(version) ==
  Cardinality(({version.clauses[k].text : k \in DOMAIN version.clauses} \cup {version.body})
                \cap (Open \ version.filled))

--------------------------------------------------------------------------------
(* Version 1 has the clauses of a template, or none.                          *)

FirstDrafts ==
  [clauses : {list \in ClauseLists : \A k \in DOMAIN list : ~list[k].ai},
   body : {NoBody}, filled : {{}}]

ContentInit ==
  /\ draft \in FirstDrafts
  /\ contract = [status |-> "DRAFT", origin |-> "NATIVE", currentVersionId |-> 1,
                 approvedVersionId |-> NoVersion, unreviewed |-> 0,
                 missing |-> Missing(draft)]
  /\ used = DOMAIN draft.clauses
  /\ decided = [about \in Keys \X Bodies |-> Unread]
  /\ edit = [e \in Editors |-> NoEdit]

--------------------------------------------------------------------------------
(* What a handler reads: the row with its guard, the current version, the     *)
(* history of the decisions.                                                  *)

Fetch(e, op) ==
  /\ edit[e] = NoEdit
  /\ edit' = [edit EXCEPT ![e] =
       [op |-> op, snap |-> contract, draft |-> draft, decided |-> decided]]
  /\ UNCHANGED <<contract, draft, used, decided>>

FetchVersion(e, op) ==
  /\ CanEdit(contract)
  /\ contract.currentVersionId < MaxDrafts
  /\ Fetch(e, op)

(* The free editor is closed to a contract of AI origin.                      *)
FetchFreeText(e) == contract.origin # "AI" /\ FetchVersion(e, "free")

(* A clause of the current version is approved or rejected, in any status.    *)
FetchReview(e) == draft.clauses # << >> /\ Fetch(e, "review")

FetchSubmit(e) ==
  /\ CanSubmit(contract, Parties, contract.unreviewed = 0 /\ contract.missing = 0)
  /\ Fetch(e, "submit")

--------------------------------------------------------------------------------
(* What it writes.                                                            *)

Finished(e) == edit' = [edit EXCEPT ![e] = NoEdit]

(* A version number is taken once: of two transactions that read the same     *)
(* last version, the second fails. The counts are those of the version        *)
(* written, against the history that was read.                                *)
WriteVersion(e, version, origin) ==
  LET t == edit[e] IN
  /\ t.snap.currentVersionId = contract.currentVersionId
  /\ draft' = version
  /\ used' = used \cup DOMAIN version.clauses
  /\ contract' = [contract EXCEPT
       !.status = Edited(t.snap).status,
       !.approvedVersionId = Edited(t.snap).approvedVersionId,
       !.currentVersionId = @ + 1,
       !.missing = Missing(version),
       !.unreviewed = Unreviewed(version.clauses, t.decided),
       !.origin = origin]
  /\ Finished(e)
  /\ UNCHANGED decided

(* The clause editor sends the whole list and the values it changes; those    *)
(* already entered are kept.                                                  *)
SaveClauses(e) ==
  \E clauses \in ClauseLists, values \in SUBSET Open :
    /\ edit[e].op = "clauses"
    /\ clauses # << >>
    /\ WriteVersion(e, [clauses |-> clauses, body |-> NoBody,
                        filled |-> edit[e].draft.filled \cup values], contract.origin)

(* A clause comes into a list.                                                *)
With(clauses, key, clause) ==
  [k \in DOMAIN clauses \cup {key} |-> IF k = key THEN clause ELSE clauses[k]]

(* A clause drafted by AI, whose key is drawn at random, comes after the      *)
(* others or instead of them; in the second case the contract is of AI        *)
(* origin from then on.                                                       *)
DraftClause(e) ==
  \E key \in Keys \ used, text \in Bodies, replace \in BOOLEAN :
    /\ edit[e].op = "draft"
    /\ WriteVersion(e,
         [clauses |-> With(IF replace THEN << >> ELSE edit[e].draft.clauses,
                           key, [text |-> text, ai |-> TRUE]),
          body |-> NoBody, filled |-> edit[e].draft.filled],
         IF replace THEN "AI" ELSE contract.origin)

(* What the free editor writes has no clause left, and no value.              *)
SaveFreeText(e) ==
  \E text \in Bodies :
    /\ edit[e].op = "free"
    /\ WriteVersion(e, [clauses |-> << >>, body |-> text, filled |-> {}], contract.origin)

ReviewClause(e) ==
  LET t == edit[e] IN
  /\ t.op = "review"
  /\ \E key \in DOMAIN t.draft.clauses, verdict \in Verdicts :
       LET text == t.draft.clauses[key].text
           seen == [t.decided EXCEPT ![<<key, text>>] = verdict]
       IN  /\ decided' = [decided EXCEPT ![<<key, text>>] = verdict]
           /\ contract' = [contract EXCEPT !.unreviewed = Unreviewed(t.draft.clauses, seen)]
  /\ Finished(e)
  /\ UNCHANGED <<draft, used>>

SubmitText(e) ==
  /\ edit[e].op = "submit"
  /\ contract' = [contract EXCEPT
       !.status = Submitted(edit[e].snap).status,
       !.approvedVersionId = edit[e].snap.approvedVersionId]
  /\ Finished(e)
  /\ UNCHANGED <<draft, used, decided>>

GiveUp(e) ==
  /\ edit[e] # NoEdit
  /\ Finished(e)
  /\ UNCHANGED <<contract, draft, used, decided>>

(* The internal review, by someone else than the author: ContractReview has   *)
(* its transactions.                                                          *)
ConcludeReview ==
  /\ contract.status = "IN_REVIEW"
  /\ contract' \in {Approved(contract), ChangesRequested(contract)}
  /\ UNCHANGED <<draft, used, decided, edit>>

EditorStep(e) ==
  \/ FetchVersion(e, "clauses") \/ SaveClauses(e)
  \/ FetchVersion(e, "draft") \/ DraftClause(e)
  \/ FetchFreeText(e) \/ SaveFreeText(e)
  \/ FetchReview(e) \/ ReviewClause(e)
  \/ FetchSubmit(e) \/ SubmitText(e)
  \/ GiveUp(e)

ContentNext == ConcludeReview \/ \E e \in Editors : EditorStep(e)

ContentSpec == ContentInit /\ [][ContentNext]_contentVars

--------------------------------------------------------------------------------
(* The text of a contract is fit to be submitted: for each of its AI clauses, *)
(* the last word on that very text under that key is an approval, and each    *)
(* variable has its value.                                                    *)
FitForReview ==
  /\ draft.body \notin Open
  /\ \A k \in DOMAIN draft.clauses :
       LET clause == draft.clauses[k] IN
       /\ clause.text \in Open => clause.text \in draft.filled
       /\ clause.ai => decided[<<k, clause.text>>] = "APPROVED"

(* Only a fit text is submitted, whatever was reworded, drafted anew, written *)
(* freely, approved and then rejected before: the two counts of the row,      *)
(* which are all the guard of the submission sees, have to follow. It holds   *)
(* when the handlers do not overlap; when they do, a count made from an older *)
(* history is written over a newer one.                                       *)
SubmittedIsReviewed ==
  [][contract.status # "IN_REVIEW" /\ contract'.status = "IN_REVIEW" => FitForReview]_contentVars
================================================================================
