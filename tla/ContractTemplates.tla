--------------------------- MODULE ContractTemplates ---------------------------
(* The clause library, one contract template and the contracts made from it:  *)
(* ClauseLibraryService, TemplatesService and the creation of a contract.     *)
(*                                                                            *)
(* A clause keeps its code and gets new texts; a version of the template pins *)
(* texts, or is one free text; publishing fixes the version, and a contract   *)
(* copies it. A text stands for a body with its variables: Special texts use  *)
(* a variable that is not in the registry, which a template has to declare.   *)
(* A composition is a function from clause keys to texts; the free text is    *)
(* the composition with the only key Corps. The title of a clause belongs to  *)
(* the library and not to its versions. Each handler is one step.             *)
EXTENDS Naturals, Sequences, FiniteSets, Functions

CONSTANTS
  Items,          \* codes of the library
  Corps,          \* the key of the only clause made from a free text
  Texts,
  Titles,         \* titles of the clauses of the library
  Special,        \* texts with a variable outside the registry
  MaxEditions,    \* bound of the model: versions of the template
  MaxIssued       \* bound of the model: contracts

ASSUME TemplatesAssumption ==
  /\ Corps \notin Items
  /\ Special \subseteq Texts
  /\ MaxEditions \in Nat \ {0}
  /\ MaxIssued \in Nat

VARIABLES
  library,        \* per code: the texts of its versions, none before it exists
  title,          \* per code: its title of today
  archived,       \* codes put aside
  status,         \* of the template
  editions,       \* versions of the template: [body, pinned, declared, fixed]
  issued          \* contracts: [edition, clauses]

templateVars == <<library, title, archived, status, editions, issued>>

Compositions == UNION {[K -> Texts] : K \in SUBSET Items}

Empty == << >>
Free(text) == [k \in {Corps} |-> text]

Current == Len(editions)

Blank == [body |-> Empty, pinned |-> Empty, declared |-> {}, fixed |-> FALSE]

TemplatesInit ==
  /\ library = [k \in Items |-> {}]
  /\ title = [k \in Items |-> CHOOSE t \in Titles : TRUE]
  /\ archived = {}
  /\ status = "DRAFT"
  /\ editions = <<Blank>>
  /\ issued = {}

--------------------------------------------------------------------------------
(* The library. A version is never rewritten, and an archived clause gets no  *)
(* new one. A new version may come with a new title.                          *)

AddClauseText(k, text, named) ==
  /\ k \notin archived
  /\ text \notin library[k]
  /\ library' = [library EXCEPT ![k] = @ \cup {text}]
  /\ title' = [title EXCEPT ![k] = named]
  /\ UNCHANGED <<archived, status, editions, issued>>

ArchiveClause(k) ==
  /\ library[k] # {}
  /\ k \notin archived
  /\ archived' = archived \cup {k}
  /\ UNCHANGED <<library, title, status, editions, issued>>

--------------------------------------------------------------------------------
(* The template.                                                              *)

(* Mutant: a fixed version is written again.                                  *)
WrittenInPlace(edition) == TRUE

InPlace(edition) == ~edition.fixed

(* Free text: the version under way is rewritten and keeps its clauses; after *)
(* a published one a new version starts, without any.                         *)
SaveTemplate(text) ==
  LET written(edition) ==
        [edition EXCEPT !.body = Free(text), !.declared = {text} \cap Special]
  IN  /\ IF InPlace(editions[Current])
           THEN editions' = [editions EXCEPT ![Current] = written(@)]
           ELSE /\ Current < MaxEditions
                /\ editions' = Append(editions, written(Blank))
      /\ status' = IF status = "PUBLISHED" THEN "DRAFT" ELSE status
      /\ UNCHANGED <<library, title, archived, issued>>

(* Clauses are pinned by version, archived or not; the body is composed from  *)
(* them, and the declared variables stay what they were.                      *)
ComposeTemplate(pins) ==
  /\ ~editions[Current].fixed
  /\ pins # Empty
  /\ \A k \in DOMAIN pins : pins[k] \in library[k]
  /\ editions' = [editions EXCEPT ![Current].pinned = pins, ![Current].body = pins]
  /\ UNCHANGED <<library, title, archived, status, issued>>

PublishTemplate ==
  /\ status # "DEPRECATED"
  /\ editions[Current].body # Empty
  /\ editions' = [editions EXCEPT ![Current].fixed = TRUE]
  /\ status' = "PUBLISHED"
  /\ UNCHANGED <<library, title, archived, issued>>

DeprecateTemplate ==
  /\ status' = "DEPRECATED"
  /\ UNCHANGED <<library, title, archived, editions, issued>>

--------------------------------------------------------------------------------
(* A contract.                                                                *)

(* The pinned clauses, or the free text as a clause when there is none.       *)
Copied(edition) == IF edition.pinned # Empty THEN edition.pinned ELSE edition.body

(* The clauses are copied with the titles of the day.                         *)
TitlesOf(edition) == [k \in DOMAIN edition.pinned |-> title[k]]

(* A variable that is neither in the registry nor declared is refused.        *)
Admissible(edition) == Range(Copied(edition)) \cap Special \subseteq edition.declared

(* Any published version will do, the latest or not, deprecated or not.       *)
IssueContract(e) ==
  /\ editions[e].fixed
  /\ Admissible(editions[e])
  /\ Cardinality(issued) < MaxIssued
  /\ issued' = issued \cup {[edition |-> e, clauses |-> Copied(editions[e]),
                            titles |-> TitlesOf(editions[e])]}
  /\ UNCHANGED <<library, title, archived, status, editions>>

TemplatesNext ==
  \/ \E k \in Items, text \in Texts, named \in Titles : AddClauseText(k, text, named)
  \/ \E k \in Items : ArchiveClause(k)
  \/ \E text \in Texts : SaveTemplate(text)
  \/ \E pins \in Compositions : ComposeTemplate(pins)
  \/ PublishTemplate
  \/ DeprecateTemplate
  \/ \E e \in DOMAIN editions : IssueContract(e)

TemplatesSpec == TemplatesInit /\ [][TemplatesNext]_templateVars

--------------------------------------------------------------------------------
(* What separates a contract from the version it comes from, as the internal  *)
(* review sees it: the clauses added, removed, reworded and renamed. A free   *)
(* text is no reference to compare with.                                      *)

Reworded(edition, clauses) ==
  IF edition.pinned = Empty THEN {}
  ELSE {k \in DOMAIN edition.pinned \cup DOMAIN clauses :
          \/ k \notin DOMAIN edition.pinned \cap DOMAIN clauses
          \/ clauses[k] # edition.pinned[k]}

Renamed(edition, titles) ==
  {k \in DOMAIN edition.pinned \cap DOMAIN titles : titles[k] # title[k]}

(* Whatever happens to the library and to the template afterwards, the        *)
(* version a contract points to still has the texts it was copied from, and a *)
(* free text is the same text. The version must have been out of reach of     *)
(* both editors when it was copied.                                           *)
IssuedAsPublished ==
  \A c \in issued :
    /\ c.clauses = Copied(editions[c.edition])
    /\ Reworded(editions[c.edition], c.clauses) = {}

(* A contract nobody touched shows no deviation from its template. It fails:  *)
(* the comparison takes the titles of the library, which a new version of a   *)
(* clause may change; the texts are compared with the pinned ones.            *)
UntouchedShowsNoDeviation ==
  \A c \in issued : Renamed(editions[c.edition], c.titles) = {}

(* The body of a published version, which is what the preview and the exports *)
(* show and what was read before publishing, is made of the clauses that a    *)
(* contract copies. It fails: a free text saved over a composition that is    *)
(* not yet published replaces the body and leaves the clauses.                *)
PreviewIsIssued ==
  \A e \in DOMAIN editions : editions[e].fixed => Copied(editions[e]) = editions[e].body

(* A contract can be made from a published version. It fails: the composition *)
(* does not declare the variables of its clauses.                             *)
PublishedIsUsable == \A e \in DOMAIN editions : editions[e].fixed => Admissible(editions[e])
================================================================================
