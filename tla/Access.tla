------------------------------- MODULE Access --------------------------------
(***************************************************************************)
(* Who may reach what: the client tokens (auth/tokens.ts) with the         *)
(* template each is assigned to, and the templates, as the admin routes    *)
(* change them.  A token is written as its row: its secret and the hash of *)
(* it are left out.                                                        *)
(***************************************************************************)
EXTENDS Naturals, FiniteSets

CONSTANTS
  Tokens,      \* rows of client_tokens, before and after they exist
  Templates,   \* rows of templates
  None         \* no template

ASSUME AccessAssumption == None \notin Templates

VARIABLES
  tokens,      \* client_tokens: not there, active, or revoked; and the target
  templates    \* the templates there are

accessVars == <<tokens, templates>>

Absent == [state |-> "absent", target |-> None]

AccessTypeOK ==
  /\ tokens \in [Tokens -> [state : {"absent", "active", "revoked"},
                            target : Templates \cup {None}]]
  /\ templates \subseteq Templates

AccessInit ==
  /\ tokens = [k \in Tokens |-> Absent]
  /\ templates = {}

(* verify: a token that is unknown or revoked is nobody's. *)
Verified(k) == tokens[k].state = "active"

-----------------------------------------------------------------------------
(* pods.template: an unknown template is refused, none is not one. *)
Known(target) == target = None \/ target \in templates

IssueToken(k, target) ==
  /\ tokens[k].state = "absent"
  /\ Known(target)
  /\ tokens' = [tokens EXCEPT ![k] = [state |-> "active", target |-> target]]
  /\ UNCHANGED templates

(* PATCH: revoked ones are in the list as well. *)
AssignToken(k, target) ==
  /\ tokens[k].state # "absent"
  /\ Known(target)
  /\ tokens' = [tokens EXCEPT ![k].target = target]
  /\ UNCHANGED templates

RevokeToken(k) ==
  /\ tokens[k].state # "absent"
  /\ tokens' = [tokens EXCEPT ![k].state = "revoked"]
  /\ UNCHANGED templates

(* Mutant: an access need not be blocked before it is removed. *)
DeleteAnyToken(k) ==
  /\ tokens[k].state # "absent"
  /\ tokens' = [tokens EXCEPT ![k] = Absent]
  /\ UNCHANGED templates

DeleteToken(k) ==
  /\ tokens[k].state = "revoked"
  /\ tokens' = [tokens EXCEPT ![k] = Absent]
  /\ UNCHANGED templates

CreateTemplate(t) ==
  /\ t \notin templates
  /\ templates' = templates \cup {t}
  /\ UNCHANGED tokens

(* Mutant: the database does not mind what refers to the row. *)
DeleteTemplateUnchecked(t, inUse) ==
  /\ t \in templates /\ ~inUse
  /\ templates' = templates \ {t}
  /\ UNCHANGED tokens

(* Refused while a pod of it is up, and by the foreign key while a token,  *)
(* a revoked one too, is assigned to it: the route then answers an error.  *)
DeleteTemplate(t, inUse) ==
  /\ t \in templates /\ ~inUse
  /\ \A k \in Tokens : tokens[k].target # t
  /\ templates' = templates \ {t}
  /\ UNCHANGED tokens

TokenSteps ==
  \/ \E k \in Tokens, target \in Templates \cup {None} :
       IssueToken(k, target) \/ AssignToken(k, target)
  \/ \E k \in Tokens : RevokeToken(k) \/ DeleteToken(k)

-----------------------------------------------------------------------------
(* A token never points at a template that is gone: the request that finds *)
(* nothing would come at the worst moment. *)
TargetsExist == \A k \in Tokens : tokens[k].target = None \/ tokens[k].target \in templates

Works(k) == Verified(k) /\ tokens[k].target # None

(* An application that is served is cut off only by hand: by revoking its  *)
(* access or taking its assignment away, never by tidying up. *)
CutOffOnlyByHand ==
  [][\A k \in Tokens : Works(k) /\ ~Works(k)' =>
       \/ tokens'[k] = [tokens[k] EXCEPT !.state = "revoked"]
       \/ tokens'[k] = [tokens[k] EXCEPT !.target = None]]_accessVars
=============================================================================
