------------------------------- MODULE Editor -------------------------------
(***************************************************************************)
(* Making and changing a template in the desktop (screens/Templates.tsx,   *)
(* components/ModelPicker.tsx), against the service that looks models up   *)
(* and stores the template (admin/routes.ts), and that repairs what it     *)
(* finds when it starts (store/migrate-templates.ts).                      *)
(*                                                                         *)
(* There is one template, of which one form is open at a time.  Each of    *)
(* the form's two model pickers asks the service again whenever something  *)
(* its verdict depends on has changed; the call before is cancelled, which *)
(* means that its answer is not used when it comes.  What the components   *)
(* work out after a change, before the next event, belongs to the change.  *)
(***************************************************************************)
EXTENDS Plan

CONSTANTS
  Gpus,       \* the cards on offer
  Hubs,       \* what the hub holds, one after the other: functions from names
              \* to repositories
  Stored,     \* templates that may be there from before
  Queries,    \* what may be typed in each picker: names, and "typing", which is none
  Lengths,    \* context lengths that may be typed
  Counts,     \* numbers of requests at once that may be typed
  Slots,      \* the pickers that are used
  MaxEdits,   \* bound: changes made to one form
  MaxForms    \* bound: forms opened in one behaviour

ASSUME EditorAssumption ==
  /\ Slots \subseteq {"chat", "embedding"}
  /\ Lengths \subseteq Nat /\ Counts \subseteq Nat
  /\ MaxEdits \in Nat /\ MaxForms \in Nat
  /\ Hubs # <<>> /\ Hubs \in Seq(Range(Hubs))
  /\ \A h, k \in Range(Hubs) : DOMAIN h = DOMAIN k
  /\ \A h \in Range(Hubs) : \A repo \in Range(h) : IsRepository(repo)
  /\ IsFiniteSet(Gpus)
  /\ \A g \in Gpus : g.memory \in Nat /\ g.price \in Nat
  /\ \A g, h \in Gpus : g.id = h.id => g = h
  /\ \A t \in Stored : Admitted(t) /\ IsTemplate(t)

VARIABLES
  hub,      \* what the hub holds
  up,       \* whether the service is up, the store repaired
  saved,    \* the template in the store
  form,     \* the open form
  forms,    \* forms opened so far
  calls     \* the calls of each picker: the one that counts, a cancelled one

vars == <<hub, up, saved, form, forms, calls>>

NoTemplate == [engine |-> None]
NoVerdict == [known |-> FALSE, details |-> NoDetails, compatible |-> FALSE]
NoCall == <<>>
NoGpu == [id |-> None, memory |-> 0, price |-> 0, nvidia |-> TRUE, fp8 |-> FALSE]
Closed == [open |-> FALSE]

Empty == [repo |-> None, verdict |-> NoVerdict, quant |-> <<>>]

-----------------------------------------------------------------------------
(* What the components derive from the form.                               *)

Gpu(f) ==
  IF f.listed /\ \E g \in Gpus : g.id = f.gpu THEN CHOOSE g \in Gpus : g.id = f.gpu ELSE NoGpu

Known(slot) == slot.verdict.known

Bytes(f, s) ==
  IF s = "embedding" /\ ~f.useEmbedding THEN 0 ELSE f.slot[s].verdict.details.bytes

Format(f) ==
  IF Known(f.slot["chat"]) THEN f.slot["chat"].verdict.details.format
  ELSE f.slot["embedding"].verdict.details.format

Chosen(f) == PresetForFormat(Format(f))

Sequences(f) == IF f.seqsTouched THEN f.seqs ELSE Chosen(f).concurrency

(* The cards of a set, the cheapest first. *)
ByPrice(cards) ==
  CHOOSE list \in SetToSeqs(cards) :
    \A i, j \in DOMAIN list : i < j => list[i].price <= list[j].price

Fallbacks(f) ==
  LET gpu == Gpu(f)
      suitable == SuitableGpus({g \in Gpus \ {gpu} : g.memory >= gpu.memory}, Format(f),
                               Bytes(f, "chat") + Bytes(f, "embedding"), gpu.price)
      cheapest == ByPrice(suitable)
  IN  IF gpu = NoGpu THEN <<>> ELSE [i \in DOMAIN cheapest |-> cheapest[i].id]

ChosenFallbacks(f) ==
  IF f.ownFallbacks THEN f.fallbacks ELSE SubSeq(Fallbacks(f), 1, Min({3, Len(Fallbacks(f))}))

(* contextBudget: what the card holds and what the model can do; nothing is *)
(* known before the weights are.                                            *)
HasBudget(f) == Gpu(f) # NoGpu /\ Bytes(f, "chat") # 0

Budget(f) ==
  LET held   == MaxContext(Headroom(Gpu(f).memory, Bytes(f, "chat") + Bytes(f, "embedding"), 0))
      native == f.slot["chat"].verdict.details.context
  IN  IF native = 0 THEN held ELSE Min({held, native})

Asked(f) == IF Chosen(f).engine = "llamacpp" THEN f.maxLen * Sequences(f) ELSE f.maxLen

Blocked(f) ==
  LET chat == f.slot["chat"] embedding == f.slot["embedding"] IN
  \/ Gpu(f) = NoGpu
  \/ chat.repo = None /\ ~f.useEmbedding
  \/ chat.repo # None /\ Known(chat) /\ ~chat.verdict.compatible
  \/ f.useEmbedding /\ Known(embedding) /\ ~embedding.verdict.compatible
  \/ chat.repo # None /\ f.maxLen = 0
  \/ HasBudget(f) /\ Asked(f) > Budget(f)

(* The context follows what fits, until somebody sets it. *)
Fitted(f) ==
  LET each == IF Chosen(f).engine = "llamacpp" THEN Budget(f) \div Max({1, Sequences(f)})
              ELSE Budget(f)
  IN  IF f.maxLenTouched \/ ~HasBudget(f) THEN f ELSE [f EXCEPT !.maxLen = Max({4, each})]

(* The parsers follow the model's own, until somebody sets them. *)
Detected(f) ==
  LET details == f.slot["chat"].verdict.details IN
  IF f.parsersTouched \/ ~Known(f.slot["chat"]) THEN f
  ELSE [f EXCEPT !.tools = details.tools, !.thinks = details.thinks]

-----------------------------------------------------------------------------
(* The pickers.                                                            *)

Shown(f, s) == s = "chat" \/ f.useEmbedding

Other(s) == IF s = "chat" THEN "embedding" ELSE "chat"

(* What a verdict depends on; NoCall when there is nothing to ask. *)
Dependencies(f, s) ==
  IF /\ f.open /\ Shown(f, s) /\ Gpu(f) # NoGpu
     /\ f.picker[s].query \in DOMAIN hub
    THEN <<f.picker[s].query, f.picker[s].variant, Chosen(f).engine, Gpu(f).id, Bytes(f, Other(s))>>
    ELSE NoCall

(* Mutant: the card is not among what a verdict depends on. *)
ReaskWithoutGpu(f, g, s) ==
  LET old == Dependencies(f, s) new == Dependencies(g, s) IN
  new # NoCall /\ (old = NoCall \/ [old EXCEPT ![4] = None] # [new EXCEPT ![4] = None])

Reask(f, g, s) == Dependencies(g, s) # NoCall /\ Dependencies(f, s) # Dependencies(g, s)

(* The effects of a change from f to g: a picker that can no longer ask    *)
(* forgets its verdict; a call that is out of date is cancelled, another   *)
(* one made.                                                               *)
Changed(f, g) ==
  LET h == Detected(Fitted(g)) IN
  /\ form' = [h EXCEPT !.picker = [s \in DOMAIN @ |->
                 IF Dependencies(h, s) = NoCall THEN [@[s] EXCEPT !.verdict = NoVerdict] ELSE @[s]]]
  /\ calls' = [s \in DOMAIN calls |->
       LET call == [calls[s] EXCEPT !.late = IF calls[s].now # NoCall THEN calls[s].now ELSE @]
       IN  IF Dependencies(h, s) = NoCall THEN [call EXCEPT !.now = NoCall]
           ELSE IF Reask(f, h, s) THEN [call EXCEPT !.now = Dependencies(h, s)]
           ELSE calls[s]]

NoCalls == [s \in {"chat", "embedding"} |-> [now |-> NoCall, late |-> NoCall]]

-----------------------------------------------------------------------------
Init ==
  /\ hub = Hubs[1]
  /\ up = FALSE
  /\ saved \in Stored \cup {NoTemplate}
  /\ form = Closed
  /\ forms = 0
  /\ calls = NoCalls

(* Mutant: the picker starts with no build chosen. *)
PickerUnseeded(slot) == [query |-> slot.repo, variant |-> <<>>, verdict |-> NoVerdict]

PickerOf(slot) == [query |-> slot.repo, variant |-> slot.quant, verdict |-> NoVerdict]

SlotOf(slot) == [repo |-> slot.repo, verdict |-> NoVerdict, quant |-> slot.quant]

NewForm ==
  [open |-> TRUE, new |-> TRUE, listed |-> FALSE, gpu |-> None, ownFallbacks |-> FALSE,
   fallbacks |-> <<>>, slot |-> [s \in {"chat", "embedding"} |-> Empty],
   picker |-> [s \in {"chat", "embedding"} |-> PickerOf(NoSlot)], useEmbedding |-> FALSE,
   sleep |-> "stopResume", tools |-> None, thinks |-> None, parsersTouched |-> FALSE,
   maxLen |-> 0, maxLenTouched |-> FALSE, seqs |-> 64, seqsTouched |-> FALSE, edits |-> 0]

(* What the template has is taken for somebody's decision. *)
FormOf(t) ==
  [NewForm EXCEPT
     !.new = FALSE, !.gpu = t.gpu, !.ownFallbacks = TRUE, !.fallbacks = t.fallbacks,
     !.slot = [s \in DOMAIN @ |-> SlotOf(t[s])],
     !.picker = [s \in DOMAIN @ |-> PickerOf(t[s])],
     !.useEmbedding = t.embedding # NoSlot,
     !.sleep = t.sleep, !.tools = t.tools, !.thinks = t.thinks,
     !.parsersTouched = t.tools # None \/ t.thinks # None,
     !.maxLen = t.maxLen, !.maxLenTouched = t.maxLen # 0,
     !.seqs = IF t.seqs = 0 THEN 64 ELSE t.seqs, !.seqsTouched = TRUE]

OpenNew ==
  /\ up /\ ~form.open /\ saved = NoTemplate
  /\ forms < MaxForms
  /\ forms' = forms + 1
  /\ form' = NewForm
  /\ UNCHANGED <<hub, up, saved, calls>>

Edit ==
  /\ up /\ ~form.open /\ saved # NoTemplate
  /\ forms < MaxForms
  /\ forms' = forms + 1
  /\ form' = FormOf(saved)
  /\ UNCHANGED <<hub, up, saved, calls>>

Cancel ==
  /\ form.open
  /\ form' = Closed
  /\ calls' = NoCalls
  /\ UNCHANGED <<hub, up, saved, forms>>

GpusArrive ==
  /\ up /\ form.open /\ ~form.listed
  /\ Changed(form, [form EXCEPT !.listed = TRUE])
  /\ UNCHANGED <<hub, up, saved, forms>>

Edits(g) ==
  /\ form.edits < MaxEdits
  /\ Changed(form, [g EXCEPT !.edits = @ + 1])
  /\ UNCHANGED <<hub, up, saved, forms>>

ChooseGpu ==
  /\ form.open /\ form.listed
  /\ \E g \in Gpus : g.id # form.gpu /\ Edits([form EXCEPT !.gpu = g.id])

(* Only cards that may stand in are offered; what has been chosen stays. *)
ToggleFallback ==
  /\ form.open
  /\ \E id \in Range(SubSeq(Fallbacks(form), 1, Min({6, Len(Fallbacks(form))}))) :
       LET on == ChosenFallbacks(form) IN
       Edits([form EXCEPT !.ownFallbacks = TRUE,
                !.fallbacks = IF id \in Range(on) THEN Remove(on, id) ELSE Append(on, id)])

Type(s) ==
  /\ form.open /\ Shown(form, s)
  /\ \E q \in Queries[s] \ {form.picker[s].query} : Edits([form EXCEPT !.picker[s].query = q])

(* The list of builds comes with the verdict. *)
PickVariant(s) ==
  /\ form.open /\ Shown(form, s)
  /\ LET offered == form.picker[s].verdict.details.variants IN
     /\ Cardinality(offered) > 1
     /\ \E v \in offered : /\ v.tag # form.picker[s].variant
                           /\ Edits([form EXCEPT !.picker[s].variant = v.tag])

(* The second picker goes and comes, and starts from the template anew. *)
ToggleEmbedding ==
  /\ form.open /\ "embedding" \in Slots
  /\ LET quant == IF form.new THEN <<>> ELSE saved.embedding.quant
         slot  == [form.slot["embedding"] EXCEPT !.quant = quant]
     IN  Edits([form EXCEPT !.useEmbedding = ~@, !.picker["embedding"] = PickerOf(slot)])

ChooseSleep ==
  /\ form.open
  /\ Edits([form EXCEPT !.sleep = IF @ = "recreate" THEN "stopResume" ELSE "recreate"])

TypeLength ==
  /\ form.open
  /\ \E n \in Lengths \ {form.maxLen} : Edits([form EXCEPT !.maxLen = n, !.maxLenTouched = TRUE])

TypeCount ==
  /\ form.open
  /\ \E n \in Counts \ {Sequences(form)} : Edits([form EXCEPT !.seqs = n, !.seqsTouched = TRUE])

TypeParser ==
  /\ form.open /\ Chosen(form).engine = "vllm"
  /\ \E p \in {"hermes", None} \ {form.tools} : Edits([form EXCEPT !.tools = p, !.parsersTouched = TRUE])

-----------------------------------------------------------------------------
(* A verdict arrives: the picker shows it, the build it settles on, and    *)
(* tells the form.                                                         *)
VerdictOn(call) ==
  Evaluate(hub[call[1]], call[2], call[3], CHOOSE g \in Gpus : g.id = call[4], call[5])

Used(s, call) ==
  LET verdict == VerdictOn(call)
      chosen  == ChooseVariant(call[2], verdict.details, DefaultVariantOf(verdict.details))
  IN  [form EXCEPT !.picker[s].verdict = verdict, !.picker[s].variant = chosen,
                   !.slot[s] = [repo |-> call[1], verdict |-> verdict, quant |-> chosen]]

Answered(s) ==
  /\ up /\ form.open /\ calls[s].now # NoCall
  /\ LET g == Detected(Fitted(Used(s, calls[s].now))) IN
     /\ form' = g
     /\ calls' = [o \in DOMAIN calls |->
                    IF Dependencies(g, o) # NoCall /\ Reask(form, g, o)
                      THEN [now |-> Dependencies(g, o),
                            late |-> IF o = s \/ calls[o].now = NoCall THEN calls[o].late
                                     ELSE calls[o].now]
                    ELSE IF o = s THEN [calls[o] EXCEPT !.now = NoCall] ELSE calls[o]]
  /\ UNCHANGED <<hub, up, saved, forms>>

(* Mutant: the answer to a cancelled call is used. *)
LateUsed(s) == Used(s, calls[s].late)

LateDropped(s) == form

AnsweredLate(s) ==
  /\ up /\ form.open /\ calls[s].late # NoCall
  /\ form' = LateDropped(s)
  /\ calls' = [calls EXCEPT ![s].late = NoCall]
  /\ UNCHANGED <<hub, up, saved, forms>>

(* The service is down or the hub is: the picker has no verdict, the form  *)
(* keeps the one it had.                                                   *)
Fails(s) ==
  /\ form.open /\ calls[s].now # NoCall
  /\ form' = [form EXCEPT !.picker[s].verdict = NoVerdict]
  /\ calls' = [calls EXCEPT ![s].now = NoCall]
  /\ UNCHANGED <<hub, up, saved, forms>>

-----------------------------------------------------------------------------
(* save(): whatever the form does not know of is left to its default.      *)
Body(f) ==
  LET Slot(s) == IF f.slot[s].repo = None THEN NoSlot
                 ELSE [repo |-> f.slot[s].repo, quant |-> f.slot[s].quant, fraction |-> 0]
      vllm    == Chosen(f).engine = "vllm"
  IN  [engine |-> Chosen(f).engine, image |-> Chosen(f).engine, chat |-> Slot("chat"),
       embedding |-> IF f.useEmbedding THEN Slot("embedding") ELSE NoSlot,
       gpu |-> f.gpu, fallbacks |-> ChosenFallbacks(f), maxLen |-> f.maxLen,
       seqs |-> Sequences(f), sleep |-> f.sleep, volume |-> FALSE,
       tools |-> IF vllm THEN f.tools ELSE None, thinks |-> IF vllm THEN f.thinks ELSE None,
       args |-> IF f.slot["chat"].repo = None THEN Chosen(f).embeddingArgs ELSE Chosen(f).chatArgs,
       env |-> <<>>]

(* The service stores what the schema admits, as it comes; a number that   *)
(* is given must be positive.  A refusal leaves the form as it is.         *)
Save ==
  /\ up /\ form.open /\ ~Blocked(form)
  /\ Admitted(Body(form)) /\ form.maxLen > 0 /\ Sequences(form) > 0
  /\ saved' = Body(form)
  /\ form' = Closed
  /\ calls' = NoCalls
  /\ UNCHANGED <<hub, up, forms>>

Delete ==
  /\ up /\ ~form.open /\ saved # NoTemplate
  /\ saved' = NoTemplate
  /\ UNCHANGED <<hub, up, form, forms, calls>>

HubChanges ==
  /\ \E i \in 1..Len(Hubs) - 1 : hub = Hubs[i] /\ hub' = Hubs[i + 1]
  /\ UNCHANGED <<up, saved, form, forms, calls>>

ServiceStarts ==
  /\ ~up
  /\ up' = TRUE
  /\ saved' = IF saved = NoTemplate THEN saved ELSE Repaired(saved)
  /\ UNCHANGED <<hub, form, forms, calls>>

(* To an open form a service that is down is a call that fails. *)
ServiceStops ==
  /\ up /\ ~form.open
  /\ up' = FALSE
  /\ UNCHANGED <<hub, saved, form, forms, calls>>

Next ==
  \/ OpenNew \/ Edit \/ Cancel \/ GpusArrive
  \/ ChooseGpu \/ ToggleFallback \/ ToggleEmbedding \/ ChooseSleep
  \/ TypeLength \/ TypeCount \/ TypeParser
  \/ \E s \in Slots : Type(s) \/ PickVariant(s) \/ Answered(s) \/ AnsweredLate(s) \/ Fails(s)
  \/ Save \/ Delete \/ HubChanges \/ ServiceStarts \/ ServiceStops

Spec == Init /\ [][Next]_vars
=============================================================================
