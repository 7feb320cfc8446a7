------------------------------ MODULE MCPseudonyms ------------------------------
(* Pseudonyms on short fields: a client known by a long name and a short one, *)
(* a known contact, one known SIREN.                                          *)
EXTENDS Pseudonyms

Letters == {<<"cap", "Acme">>, <<"cap", "ACME">>, <<"cap", "Durand">>, <<"cap", "Petit">>,
            <<"civ", "Mme">>, <<"plain", "mot">>, <<"at", "@x.fr">>}
Figures == {<<"nine", "111222333">>, <<"nine", "732829320">>, <<"five", "75002">>,
            <<"few", "12">>, <<"euro", "EUR">>}
Lines == {<<"street", "rue">>, <<"sep", ",">>, <<"token", "CLIENT", 1>>}

(* A domain follows the rest of its address in the same field.                *)
Typed(f) == \A i \in DOMAIN f : f[i][1] = "at" => i > 1 /\ f[i - 1][1] \in Local
Fields(words, from, to) ==
  {f \in UNION {[1..k -> words] : k \in from..to} : Typed(f)}

(* A title of one word and a text of two, a text of three, and a longer one   *)
(* of figures and streets.                                                    *)
SomePrompts ==
  LET all == Letters \cup Figures \cup Lines
      numbered == {<<"nine", "732829320">>, <<"five", "75002">>, <<"few", "12">>,
                   <<"euro", "EUR">>, <<"street", "rue">>, <<"plain", "mot">>, <<"cap", "Acme">>}
  IN (Fields(all, 0, 1) \X Fields(all, 0, 2))
     \cup ({<< >>} \X (Fields(all, 3, 3) \cup Fields(numbered, 4, 4)))

Lower == [s \in {"Acme", "ACME"} |-> "acme"]
Names == <<[kind |-> "CLIENT", folded |-> <<<<"cap", "acme">>, <<"cap", "Petit">>>>],
           [kind |-> "CLIENT", folded |-> <<<<"cap", "acme">>>>],
           [kind |-> "PERSONNE", folded |-> <<<<"cap", "Durand">>>>]>>
================================================================================
