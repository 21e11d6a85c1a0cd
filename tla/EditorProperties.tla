-------------------------- MODULE EditorProperties --------------------------
(* What the form promises about the template it saves, and the service     *)
(* about the pod it starts from that.                                      *)
EXTENDS Editor

Stays == saved # NoTemplate
Models(t) == {s \in {"chat", "embedding"} : t[s] # NoSlot}
Saves == form.open /\ ~form'.open /\ saved' # saved

(* The picker shows a verdict and nothing is out that could change it.     *)
Settled(s) == form.picker[s].verdict.known /\ calls[s].now = NoCall

Offers(repo, quant) == \E v \in Inspect(repo).variants : v.tag = quant

(* The template in the store is one the schema admits, and a call whose    *)
(* answer counts is about what the form holds now.                         *)
TypeOK ==
  /\ hub \in Range(Hubs)
  /\ up \in BOOLEAN
  /\ Stays => Admitted(saved)
  /\ form.open => form.maxLen \in Nat /\ form.seqs \in Nat /\ form.edits \in 0..MaxEdits
  /\ \A s \in {"chat", "embedding"} :
       calls[s].now # NoCall => calls[s].now = Dependencies(form, s)

(* A repository of many builds is judged by the size of the one that would *)
(* be saved, not of another (huggingface.ts:303-305).                      *)
SizedAsChosen ==
  form.open =>
    \A s \in Slots :
      LET slot == form.slot[s] details == slot.verdict.details IN
      details.variants # {} =>
        \E v \in details.variants : v.tag = slot.quant /\ v.bytes = details.bytes

Swallows(words) ==
  \E i \in DOMAIN words :
    /\ words[i].is = "flag" /\ words[i].of # "--enable-auto-tool-choice"
    /\ i = Len(words) \/ words[i + 1].is = "flag"

After(words, flag) ==
  words[1 + CHOOSE i \in DOMAIN words : words[i].is = "flag" /\ words[i].of = flag].of

(* A pod started from a template that names its window and its number of   *)
(* requests gives each request that window, whichever engine it starts and *)
(* however old the template is; its tool calls are parsed, and no flag     *)
(* takes the next one for its value.                                       *)
RendersWhole ==
  (up /\ Stays /\ saved.args # <<>> /\ saved.chat # NoSlot /\ saved.maxLen # 0 /\ saved.seqs # 0) =>
    LET words == PodRequest(saved, "key").args IN
    /\ ~Swallows(words)
    /\ After(words, IF saved.engine = "vllm" THEN "--max-model-len" ELSE "--ctx-size")
         = saved.maxLen * (IF saved.engine = "vllm" THEN 1 ELSE After(words, "--parallel"))
    /\ saved.tools # None => After(words, "--tool-call-parser") = saved.tools

(* Two servers on one card leave it some room, however it is the template  *)
(* that sets the share of the small one; the launcher's own image starts   *)
(* a server for each model, with the share that was worked out for it.     *)
SharesFit ==
  (Stays /\ saved.chat.fraction = 0) =>
    LET split   == VramSplit(saved)
        servers == Servers(PodRequest(saved, "key").env)
    IN  /\ split.chat + split.embedding <= 94
        /\ {<<x.model, x.share>> : x \in servers} =
             {<<saved[s].repo, split[s]>> : s \in Models(saved)}
        /\ Cardinality(servers) = Cardinality(Models(saved))

(* What is saved with every verdict in hand runs on the card it names, and *)
(* on each of the substitutes the form came up with: with both models      *)
(* there is room for a context, and the engine loads the weights; of a     *)
(* substitute only the format that the form goes by is asked.              *)
AdmittedRuns ==
  [][(Saves /\ \A s \in Models(saved') : Settled(s)) =>
       LET weights == Bytes(form, "chat") + Bytes(form, "embedding")
           ids     == {saved'.gpu} \cup (IF form.ownFallbacks THEN {} ELSE Range(saved'.fallbacks))
       IN  \A g \in {h \in Gpus : h.id \in ids}, s \in Models(saved') :
             LET format == form.picker[s].verdict.details.format IN
             /\ g.id = saved'.gpu \/ format = Format(form) => Compatible(saved'.engine, format, g)
             /\ Headroom(g.memory, weights, 0) >= MinUsableKv]_vars

(* What is saved is what the picker shows: answers that come late do not   *)
(* bring back a model that was left for another one.                       *)
ShownIsSaved ==
  [][Saves =>
       \A s \in Models(saved') :
         Settled(s) => /\ saved'[s].repo = form.picker[s].query
                       /\ saved'[s].quant = form.picker[s].variant]_vars

(* Opening a template and saving it changes neither model, build, context, *)
(* number of requests nor parsers (Templates.tsx:222-225, variants.ts:1-9),*)
(* if the engine is still the same and the build is still offered.  What a *)
(* template leaves unset the form fills in, so nothing is said of a context*)
(* or a number of requests that is unset, nor of parsers when both are.    *)
ReopenKeeps ==
  [][(Saves /\ ~form.new /\ form.edits = 0 /\ saved'.engine = saved.engine) =>
       /\ \A s \in Models(saved) :
            /\ saved'[s].repo = saved[s].repo
            /\ (\A h \in Range(Hubs) : Inspect(h[saved[s].repo]).grouped
                                  => Offers(h[saved[s].repo], saved[s].quant))
                 => saved'[s].quant = saved[s].quant
       /\ saved.maxLen # 0 => saved'.maxLen = saved.maxLen
       /\ saved.seqs # 0 => saved'.seqs = saved.seqs
       /\ (saved.engine = "vllm" /\ (saved.tools # None \/ saved.thinks # None))
            => saved'.tools = saved.tools /\ saved'.thinks = saved.thinks]_vars

(* The engine follows from the weights (presets.ts:6-9): a template names  *)
(* an engine that loads the model it names.                                *)
EngineFollows ==
  (Stays /\ saved.chat # NoSlot) =>
    LET details == Inspect(hub[saved.chat.repo]) IN
    details.accessible => details.format \in EngineFormats[saved.engine] \cup {"unknown"}

-----------------------------------------------------------------------------
(* What the theorems rest on: an invariant of the form that every step     *)
(* keeps by itself.                                                        *)

Pickers == {"chat", "embedding"}

IsForm(f) ==
  /\ DOMAIN f = DOMAIN NewForm
  /\ f.open = TRUE
  /\ DOMAIN f.slot = Pickers /\ DOMAIN f.picker = Pickers
  /\ \A s \in Pickers :
       /\ DOMAIN f.slot[s] = DOMAIN Empty
       /\ DOMAIN f.picker[s] = {"query", "variant", "verdict"}
       /\ f.slot[s].verdict.details.bytes \in Nat
       /\ f.slot[s].verdict.details.context \in Nat
  /\ f.maxLen \in Nat /\ f.seqs \in Nat /\ f.edits \in 0..MaxEdits

(* A call whose answer counts is about what the form holds now. *)
CallsAreCurrent ==
  \A s \in Pickers : calls[s].now # NoCall => calls[s].now = Dependencies(form, s)

ShapeInv ==
  /\ hub \in Range(Hubs)
  /\ up \in BOOLEAN
  /\ Stays => Admitted(saved) /\ IsTemplate(saved)
  /\ form = Closed \/ (up /\ IsForm(form))
  /\ DOMAIN calls = Pickers
  /\ \A s \in Pickers : DOMAIN calls[s] = {"now", "late"}
  /\ CallsAreCurrent

(* A verdict in favour of a model is one for the engine, the card and the  *)
(* other model that the form holds.                                        *)
Holds(f, s) ==
  LET verdict == f.picker[s].verdict details == verdict.details IN
  verdict.compatible =>
    /\ Compatible(Chosen(f).engine, details.format, Gpu(f))
    /\ Headroom(Gpu(f).memory, details.bytes, Bytes(f, Other(s))) >= MinUsableKv

(* What a picker shows is what the form holds.                             *)
Agrees(f, s) ==
  /\ f.slot[s].repo = f.picker[s].query
  /\ f.slot[s].quant = f.picker[s].variant
  /\ f.slot[s].verdict = f.picker[s].verdict
  /\ Dependencies(f, s) # NoCall
  /\ Holds(f, s)

(* So it is where nothing is out that could change it.                     *)
ShownInv == form.open => \A s \in Pickers : Settled(s) => Agrees(form, s)

(* No state of the hub withdraws the build. *)
StillOffered(slot) ==
  \A h \in Range(Hubs) :
    Inspect(h[slot.repo]).grouped => Offers(h[slot.repo], slot.quant)

(* A form of a template nobody has changed yet holds what the template has, *)
(* and so do its pickers.                                                   *)
KeptInv ==
  (form.open /\ ~form.new /\ form.edits = 0) =>
    /\ Stays
    /\ form.useEmbedding = (saved.embedding # NoSlot)
    /\ \A s \in Pickers :
         /\ form.slot[s].repo = saved[s].repo
         /\ form.picker[s].query = saved[s].repo
         /\ (s \in Models(saved) /\ StillOffered(saved[s])) =>
              /\ form.slot[s].quant = saved[s].quant
              /\ form.picker[s].variant = saved[s].quant
    /\ saved.maxLen # 0 => form.maxLenTouched /\ form.maxLen = saved.maxLen
    /\ form.seqsTouched
    /\ saved.seqs # 0 => form.seqs = saved.seqs
    /\ (saved.tools # None \/ saved.thinks # None) =>
         /\ form.parsersTouched
         /\ form.tools = saved.tools /\ form.thinks = saved.thinks

FormInv == ShapeInv /\ ShownInv /\ KeptInv
=============================================================================
