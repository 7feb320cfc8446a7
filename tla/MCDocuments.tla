------------------------------ MODULE MCDocuments ------------------------------
(* The desk's side of a contract on small instances: its review by handlers   *)
(* that do not overlap (ContractReview), its text (StructuredContent), the    *)
(* template it comes from (ContractTemplates), the types and codes            *)
(* (ContractKinds), the prices of a grid (PriceGrid), the trail that its        *)
(* status leaves (TransitionLog), and the help of a provider of text: what is  *)
(* sent to it (Pseudonyms) and under which budget (AiGateway).                 *)
(*                                                                            *)
(* The modules share no variable: a behaviour is one of one of them, the      *)
(* Part, and the state of the others stays where it starts. The run explores  *)
(* the sum of their state spaces and not the product.                         *)
EXTENDS MCReview, StructuredContent, ContractTemplates, ContractKinds, PriceGrid,
        MCTransitionLog, MCPseudonyms, AiGateway

VARIABLE part

Parts == {"review", "text", "template", "kinds", "grid", "log", "ai", "gateway"}

documentVars == <<part, reviewVars, contentVars, templateVars, kindVars, gridVars, logVars,
                  aiVars, gatewayVars>>

(* What is free in the initial state of a module is free in its own part.     *)
DocumentsInit ==
  /\ part \in Parts
  /\ Init /\ (part # "review" => versions = 0 /\ row.complete)
  /\ ContentInit /\ (part # "text" => draft.clauses = << >>)
  /\ TemplatesInit
  /\ KindsInit /\ (part # "kinds" => \A k \in System : kinds[k].prefix = CHOOSE p \in KindPrefixes : TRUE)
  /\ GridInit
  /\ LogInit /\ \A c \in Contracts : (part # "log" \/ c # "c1") => stored[c] = Unborn
  /\ AiInit /\ (part # "ai" => prompt = <<<<<<"plain", "mot">>>>, << >>>>)
  /\ GatewayInit

Beside(p) ==
  /\ part = p
  /\ part' = part
  /\ p # "review" => UNCHANGED reviewVars
  /\ p # "text" => UNCHANGED contentVars
  /\ p # "template" => UNCHANGED templateVars
  /\ p # "kinds" => UNCHANGED kindVars
  /\ p # "grid" => UNCHANGED gridVars
  /\ p # "log" => UNCHANGED logVars
  /\ p # "ai" => UNCHANGED aiVars
  /\ p # "gateway" => UNCHANGED gatewayVars

DocumentsNext ==
  \/ Beside("review") /\ Next
  \/ Beside("text") /\ ContentNext
  \/ Beside("template") /\ TemplatesNext
  \/ Beside("kinds") /\ KindsNext
  \/ Beside("grid") /\ GridNext
  \/ Beside("log") /\ LogNext
  \/ Beside("ai") /\ AiNext
  \/ Beside("gateway") /\ GatewayNext

DocumentsSpec == DocumentsInit /\ [][DocumentsNext]_documentVars
================================================================================
