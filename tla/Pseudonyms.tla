------------------------------- MODULE Pseudonyms -------------------------------
(* One request to a provider of text generation: its fields, a title and a    *)
(* text, are recoded one after the other with one table of tokens, joined,    *)
(* checked by the guard, answered outside, and the answer is given back with  *)
(* the values of the table.                                                   *)
(*                                                                            *)
(* A text is a sequence of words.  A word is <<class, spelling>>; the classes *)
(* are what the patterns of the code tell apart: a capitalised word, a        *)
(* civility, a group of nine digits, of five, of fewer, a kind of street, the *)
(* sign of the euro, the domain of an e-mail, a separator, a plain word.  A   *)
(* token is <<"token", kind, number>>, in a field as it is typed or as it is  *)
(* recoded.  The patterns of phones, IBAN and VAT numbers go through the same *)
(* engine and are left out, and so is the limit of 60 characters of a street. *)
EXTENDS Naturals, Sequences, FiniteSetsExt, SequencesExt

CONSTANTS
  Prompts,        \* the requests: <<title, text>>
  Fold,           \* spelling -> what it is without case and accents
  KnownNames,     \* the known names, the longest first: [kind, folded]
  KnownIds        \* the known SIREN

(* A request has two fields. A known name is that of a client or of a person, *)
(* it has a word, and no word is a token.                                     *)
ASSUME PromptsAssumption ==
  \A q \in Prompts : q = <<q[1], q[2]>> /\ \A k \in {1, 2} : q[k] \in Seq(Range(q[k]))

ASSUME NamesAssumption ==
  /\ KnownNames \in Seq(Range(KnownNames))
  /\ \A name \in Range(KnownNames) :
       /\ name.kind \in {"CLIENT", "PERSONNE"}
       /\ name.folded \in Seq(Range(name.folded)) \ {<< >>}
       /\ \A word \in Range(name.folded) : word[1] # "token"

VARIABLES
  prompt,         \* the fields as they are stored
  recoded,        \* those that are recoded so far
  tokens,         \* the table: token -> value
  stage,          \* "recoding", "blocked", "out" or "back"
  echo,           \* the fields that the answer copies, in its order
  restored        \* the answer, after reidentify

aiVars == <<prompt, recoded, tokens, stage, echo, restored>>

Class(t, i) == IF i \in DOMAIN t THEN t[i][1] ELSE "end"
Digits == {"nine", "five", "few"}
Apart(t, i, j) == Class(t, i - 1) \notin Digits /\ Class(t, j + 1) \notin Digits

FoldOf(word) ==
  IF word[2] \in DOMAIN Fold THEN [word EXCEPT ![2] = Fold[@]] ELSE word

(* Two spellings of one value have one key.                                   *)
KeyOf(value) == [i \in DOMAIN value |-> FoldOf(value[i])]

--------------------------------------------------------------------------------
(* The finders: where a pattern that begins at a word ends, 0 when it does    *)
(* not begin there.  They see the words as far as the next token.             *)

(* The first word after i that is not of these classes.                       *)
Beyond(t, i, classes) ==
  Min({k \in (i + 1)..(Len(t) + 1) : Class(t, k) \notin classes})

Local == {"plain", "cap", "civ", "street", "few", "five"}
Mail(t, i) == IF Class(t, i) \in Local /\ Class(t, i + 1) = "at" THEN i + 1 ELSE 0

(* 12 €, 732 829 320 €, 12 732 829 320 €: the groups of three digits go on.   *)
Amount(t, i) ==
  LET last == Beyond(t, i, IF Class(t, i) = "five" THEN {} ELSE {"nine"})
  IN IF Class(t, i) \in Digits /\ Class(t, last) = "euro" THEN last ELSE 0

KnownId(t, i) == IF Class(t, i) = "nine" /\ t[i][2] \in KnownIds THEN i ELSE 0

Siret(t, i) == IF Class(t, i) = "nine" /\ Class(t, i + 1) = "five" /\ Apart(t, i, i + 1)
                 THEN i + 1 ELSE 0

Siren(t, i) == IF Class(t, i) = "nine" /\ Apart(t, i, i) THEN i ELSE 0

(* The postal code and the town that follow a street.                         *)
CityTail(t, end) ==
  LET code == IF end + 1 \in DOMAIN t /\ t[end + 1] = <<"sep", ",">> THEN end + 2 ELSE end + 1
  IN IF Class(t, code) = "five" /\ Class(t, code + 1) = "cap"
       THEN Beyond(t, code, {"cap"}) - 1 ELSE end

(* Number, kind of street, then anything as far as a separator, a postal code *)
(* or the end of what is free.  The blank after the kind is enough of a name  *)
(* when a code or a token follows.                                            *)
Street(t, i) ==
  LET stop == Min({k \in (i + 2)..(Len(t) + 1) :
                     Class(t, k) \in {"sep", "five", "token", "end"}})
  IN IF /\ Class(t, i) = "few" /\ Class(t, i + 1) = "street"
        /\ stop > i + 2 \/ Class(t, stop) \in {"five", "token"}
       THEN CityTail(t, stop - 1) ELSE 0

Name(t, i, name) ==
  LET last == i + Len(name) - 1
  IN IF last <= Len(t) /\ KeyOf(SubSeq(t, i, last)) = name THEN last ELSE 0

(* A civility and one to three capitalised words, of which the civility is    *)
(* not replaced.                                                              *)
Civility(t, i) ==
  LET last == Min({Beyond(t, i, {"cap"}) - 1, i + 3})
  IN IF Class(t, i) = "civ" /\ last > i THEN last ELSE 0

(* The passes, in their order.                                                *)
Passes ==
  <<[kind |-> "EMAIL", by |-> "mail"], [kind |-> "MONTANT", by |-> "amount"],
    [kind |-> "SIREN", by |-> "id"], [kind |-> "SIRET", by |-> "siret"],
    [kind |-> "SIREN", by |-> "siren"], [kind |-> "ADRESSE", by |-> "street"]>>
  \o [k \in DOMAIN KnownNames |->
        [kind |-> KnownNames[k].kind, by |-> "name", folded |-> KnownNames[k].folded]]
  \o <<[kind |-> "PERSONNE", by |-> "civility"]>>

Found(p, t, i) ==
  CASE p.by = "mail" -> Mail(t, i)
    [] p.by = "amount" -> Amount(t, i)
    [] p.by = "id" -> KnownId(t, i)
    [] p.by = "siret" -> Siret(t, i)
    [] p.by = "siren" -> Siren(t, i)
    [] p.by = "street" -> Street(t, i)
    [] p.by = "name" -> Name(t, i, p.folded)
    [] p.by = "civility" -> Civility(t, i)

--------------------------------------------------------------------------------
(* The table and the passes.                                                  *)

TokenKinds == {"CLIENT", "PERSONNE", "SIREN", "SIRET", "ADRESSE", "EMAIL", "MONTANT"}

NumbersOf(map, kind) == {t[3] : t \in {u \in DOMAIN map : u[2] = kind}}

(* Mutant: a table that is prolonged counts from one again.                   *)
TableAfresh(map) == [map |-> map, last |-> [k \in TokenKinds |-> 0]]

(* TokenTable: the counters go on from those of the map.                      *)
TokenTable(map) ==
  [map |-> map, last |-> [k \in TokenKinds |-> Max({0} \cup NumbersOf(map, k))]]

(* tokenFor: the token of the value if it has one, else the next of its kind. *)
(* A name known both as a client and as a person keeps the first one.         *)
KindsOf(kind) == IF kind \in {"CLIENT", "PERSONNE"} THEN <<"CLIENT", "PERSONNE">> ELSE <<kind>>

TokensOf(map, kind, value) == {t \in DOMAIN map : t[2] = kind /\ KeyOf(map[t]) = KeyOf(value)}

NewToken(table, kind, value) ==
  LET new == <<"token", kind, table.last[kind] + 1>>
  IN [token |-> new,
      table |-> [map |-> [t \in DOMAIN table.map \cup {new} |->
                            IF t = new THEN value ELSE table.map[t]],
                 last |-> [table.last EXCEPT ![kind] = @ + 1]]]

TokenFor(table, kind, value) ==
  LET kinds == KindsOf(kind)
      known == {k \in DOMAIN kinds : TokensOf(table.map, kinds[k], value) # {}}
  IN IF known = {} THEN NewToken(table, kind, value)
     ELSE [token |-> CHOOSE t \in TokensOf(table.map, kinds[Min(known)], value) : TRUE,
           table |-> table]

(* One word of a pass from left to right: a hit does not begin inside the one *)
(* before.                                                                    *)
Scan(text, p, acc, i) ==
  LET end == Found(p, text, i)
      from == IF p.by = "civility" THEN i + 1 ELSE i
      got == TokenFor(acc.table, p.kind, SubSeq(text, from, end))
  IN IF i < acc.next THEN acc
     ELSE IF end = 0 THEN [acc EXCEPT !.text = Append(@, text[i]), !.next = i + 1]
     ELSE [text |-> acc.text \o SubSeq(text, i, from - 1) \o <<got.token>>,
           table |-> got.table, next |-> end + 1]

RunPass(done, p) ==
  LET end == FoldLeftDomain(LAMBDA acc, i : Scan(done.text, p, acc, i),
                            [text |-> << >>, table |-> done.table, next |-> 1], done.text)
  IN [text |-> end.text, table |-> end.table]

Pseudonymize(text, map) ==
  LET done == FoldLeft(RunPass, [text |-> text, table |-> TokenTable(map)], Passes)
  IN [text |-> done.text, map |-> done.table.map]

(* A token that the table does not have is left as it is.                     *)
Reidentify(text, map) ==
  FlattenSeq([i \in DOMAIN text |->
                IF text[i] \in DOMAIN map THEN map[text[i]] ELSE <<text[i]>>])

(* Mutant: the guard looks for the known entities only.                       *)
KnownLeaks(text) ==
  {i \in DOMAIN text : \E p \in Range(Passes) : p.by \in {"id", "name"} /\ Found(p, text, i) # 0}

(* findLeaks: every pattern, on what is sent.                                 *)
FindLeaks(text) == {i \in DOMAIN text : \E p \in Range(Passes) : Found(p, text, i) # 0}

--------------------------------------------------------------------------------

AiInit ==
  /\ prompt \in Prompts
  /\ recoded = << >>
  /\ tokens = [t \in {} |-> << >>]
  /\ stage = "recoding"
  /\ echo = << >>
  /\ restored = << >>

(* A field is recoded with the table of those before it.                      *)
Recode ==
  /\ stage = "recoding" /\ Len(recoded) < Len(prompt)
  /\ LET done == Pseudonymize(prompt[Len(recoded) + 1], tokens)
     IN recoded' = Append(recoded, done.text) /\ tokens' = done.map
  /\ UNCHANGED <<prompt, stage, echo, restored>>

(* The title is on the line above the text: a blank, for the patterns.        *)
Joined(fields) == FlattenSeq(fields)

(* assertNoLeak on the exact text that would leave; nothing leaves otherwise. *)
Send ==
  /\ stage = "recoding" /\ Len(recoded) = Len(prompt)
  /\ stage' = IF FindLeaks(Joined(recoded)) = {} THEN "out" ELSE "blocked"
  /\ UNCHANGED <<prompt, recoded, tokens, echo, restored>>

(* The provider answers with what it was sent, in an order of its own; the    *)
(* values of the table come back in.                                          *)
Answer(order) ==
  /\ stage = "out"
  /\ stage' = "back"
  /\ echo' = order
  /\ restored' = Reidentify(FlattenSeq([k \in DOMAIN order |-> recoded[order[k]]]), tokens)
  /\ UNCHANGED <<prompt, recoded, tokens>>

AiNext ==
  \/ Recode
  \/ Send
  \/ \E order \in {<<1>>, <<2>>, <<2, 1>>} : Answer(order)

AiSpec == AiInit /\ [][AiNext]_aiVars

--------------------------------------------------------------------------------

(* What a reader outside would recognise in a text, wherever the tokens are:  *)
(* a known name, an e-mail, nine digits on their own, a price, a name after a *)
(* civility, a numbered street.                                               *)
Recognisable(t, i) ==
  \/ \E k \in DOMAIN KnownNames : Name(t, i, KnownNames[k].folded) # 0
  \/ Class(t, i) = "at" /\ Class(t, i - 1) \in Local
  \/ Class(t, i) = "nine" /\ (Apart(t, i, i) \/ t[i][2] \in KnownIds)
  \/ Class(t, i) = "euro" /\ Class(t, i - 1) \in Digits
  \/ Class(t, i) = "cap" /\ Class(t, i - 1) = "civ"
  \/ Class(t, i) = "few" /\ Class(t, i + 1) = "street" /\ Class(t, i + 2) = "plain"

(* Nothing that identifies somebody leaves, in a text whose passes split it   *)
(* as they go: a pass that comes later may isolate what an earlier one took   *)
(* for a part of something else, and only the guard sees it.                  *)
NothingKnownLeaves ==
  stage \in {"out", "back"} =>
    \A i \in DOMAIN Joined(recoded) : ~Recognisable(Joined(recoded), i)

(* Whatever fields the answer copies and in whatever order, it comes back     *)
(* with what those fields said, up to the spelling of a name: a token stands  *)
(* for one entity over all the fields of a request.  A request whose fields   *)
(* hold a token as they are typed is excepted.                                *)
AnswerRestored ==
  (stage = "back" /\ \A f \in Range(prompt) : \A w \in Range(f) : w[1] # "token") =>
    KeyOf(restored) = KeyOf(FlattenSeq([k \in DOMAIN echo |-> prompt[echo[k]]]))

(* What pseudonymize gives passes the guard.                                  *)
GuardIsSilent == stage # "blocked"

(* The same without the exception.                                            *)
AnswerRestoredAsTyped ==
  stage = "back" =>
    KeyOf(restored) = KeyOf(FlattenSeq([k \in DOMAIN echo |-> prompt[echo[k]]]))
================================================================================
