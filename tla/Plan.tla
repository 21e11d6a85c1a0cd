-------------------------------- MODULE Plan --------------------------------
(***************************************************************************)
(* From a template to what a pod starts: the presets (shared/presets.ts),  *)
(* what the schema admits (shared/template.ts), the repairs made at        *)
(* start-up (store/migrate-templates.ts), the shares of the card, the      *)
(* arguments and the environment (pods/plan.ts), and what the launcher's   *)
(* own image makes of the environment (pod/start-vllm.sh).                 *)
(*                                                                         *)
(* A command line is a sequence of words: flags, values and, before it is  *)
(* rendered, holes.  Words that are the same for all templates are left    *)
(* out.  Shares are percentages; 0, <<>> and NoSlot are what is not set.   *)
(***************************************************************************)
EXTENDS Catalog

NoSlot == [repo |-> None, quant |-> <<>>, fraction |-> 0]

Flag(f) == [is |-> "flag", of |-> f]
Hole(h) == [is |-> "hole", of |-> h]
Value(v) == [is |-> "value", of |-> v]

-----------------------------------------------------------------------------
(* presets.ts *)

VllmChatArgs ==
  <<Hole("chatModel"), Flag("--api-key"), Hole("apiKey"),
    Flag("--max-model-len"), Hole("maxModelLen"),
    Flag("--gpu-memory-utilization"), Hole("chatGpuFraction"),
    Flag("--max-num-seqs"), Hole("maxConcurrentSequences"),
    Hole("toolFlags"), Hole("reasoningFlags")>>

(* Mutant: the window of one request is taken for that of all. *)
LlamacppArgsOfOne ==
  <<Flag("-hf"), Hole("chatModel"), Flag("--api-key"), Hole("apiKey"),
    Flag("--ctx-size"), Hole("maxModelLen"), Flag("--parallel"), Hole("maxConcurrentSequences")>>

LlamacppChatArgs ==
  <<Flag("-hf"), Hole("chatModel"), Flag("--api-key"), Hole("apiKey"),
    Flag("--ctx-size"), Hole("totalContext"), Flag("--parallel"), Hole("maxConcurrentSequences")>>

Preset ==
  [vllm |-> [engine |-> "vllm", concurrency |-> 64, chatArgs |-> VllmChatArgs,
             embeddingArgs |-> <<Hole("embeddingModel"), Flag("--api-key"), Hole("apiKey"),
                                 Flag("--gpu-memory-utilization"), Hole("embeddingGpuFraction")>>],
   llamacpp |-> [engine |-> "llamacpp", concurrency |-> 4, chatArgs |-> LlamacppChatArgs,
                 embeddingArgs |-> <<Flag("-hf"), Hole("embeddingModel"),
                                     Flag("--api-key"), Hole("apiKey")>>]]

(* presetForFormat, and what the editor takes where there is none. *)
PresetForFormat(format) == Preset[IF format = "gguf" THEN "llamacpp" ELSE "vllm"]

(* templateSchema, the fields and where it depends on what is modelled. *)
IsTemplate(t) ==
  /\ DOMAIN t = {"engine", "image", "chat", "embedding", "gpu", "fallbacks", "maxLen", "seqs",
                 "sleep", "volume", "tools", "thinks", "args", "env"}
  /\ DOMAIN t.chat = DOMAIN NoSlot /\ DOMAIN t.embedding = DOMAIN NoSlot

Admitted(t) ==
  /\ t.chat # NoSlot \/ t.embedding # NoSlot
  /\ \A s \in {"chat", "embedding"} : t[s] # NoSlot => t[s].repo # None
  /\ t.sleep = "recreate" => t.volume
  /\ t.maxLen \in Nat /\ t.seqs \in Nat
  /\ t.chat.fraction \in 0..100 /\ t.embedding.fraction \in 0..100

-----------------------------------------------------------------------------
(* migrate-templates.ts *)

Mentions(args, flag, hole) ==
  \E i \in 1..Len(args) - 1 : args[i] = Flag(flag) /\ args[i + 1] = Hole(hole)

RepairContext(t) ==
  IF t.engine = "llamacpp" /\ Mentions(t.args, "--ctx-size", "maxModelLen")
    THEN [t EXCEPT !.args = LlamacppChatArgs,
                   !.seqs = IF @ = 0 THEN 4 ELSE Min({@, Preset["llamacpp"].concurrency})]
    ELSE t

RepairTools(t) ==
  IF /\ t.engine = "vllm" /\ t.chat # NoSlot
     /\ t.args # <<>> /\ Hole("toolFlags") \notin Range(t.args)
    THEN [t EXCEPT !.args = VllmChatArgs]
    ELSE t

(* migrateTemplates, of one row. *)
Repaired(t) == IF Admitted(t) THEN RepairTools(RepairContext(t)) ELSE t

-----------------------------------------------------------------------------
(* plan.ts *)

(* Mutant: the chat model takes its share as if it were alone. *)
VramSplitOfOne(t) ==
  [chat |-> IF t.chat = NoSlot THEN 0 ELSE 94, embedding |-> IF t.embedding = NoSlot THEN 0 ELSE 6]

(* planVramSplit *)
VramSplit(t) ==
  LET embedding == IF t.embedding = NoSlot THEN 0
                   ELSE IF t.embedding.fraction # 0 THEN t.embedding.fraction ELSE 6
  IN  IF t.chat = NoSlot
        THEN [chat |-> 0, embedding |-> IF embedding = 0 THEN 0 ELSE 94]
        ELSE [chat |-> IF t.chat.fraction # 0 THEN t.chat.fraction ELSE 94 - embedding,
              embedding |-> embedding]

(* totalContextFor *)
TotalContext(t) == (IF t.maxLen = 0 THEN 8 ELSE t.maxLen) * (IF t.seqs = 0 THEN 1 ELSE t.seqs)

(* What a hole is filled with; what is not set leaves nothing. *)
Filling(hole, t, key) ==
  LET share     == VramSplit(t)
      Number(n) == IF n = 0 THEN <<>> ELSE <<Value(n)>>
      Share(slot, n) == IF slot = NoSlot THEN <<>> ELSE <<Value(n)>>
      Ref(slot) == IF slot = NoSlot THEN <<>> ELSE <<Value(<<slot.repo, slot.quant>>)>>
  IN  CASE hole = "chatModel"              -> Ref(t.chat)
        [] hole = "embeddingModel"         -> Ref(t.embedding)
        [] hole = "apiKey"                 -> <<Value(key)>>
        [] hole = "maxModelLen"            -> Number(t.maxLen)
        [] hole = "maxConcurrentSequences" -> Number(t.seqs)
        [] hole = "totalContext"           -> Number(TotalContext(t))
        [] hole = "chatGpuFraction"        -> Share(t.chat, share.chat)
        [] hole = "embeddingGpuFraction"   -> Share(t.embedding, share.embedding)
        [] hole = "toolFlags"              ->
             IF t.tools = None THEN <<>>
             ELSE <<Flag("--enable-auto-tool-choice"), Flag("--tool-call-parser"), Value(t.tools)>>
        [] hole = "reasoningFlags"         ->
             IF t.thinks = None THEN <<>> ELSE <<Flag("--reasoning-parser"), Value(t.thinks)>>

RenderArgs(t, key) ==
  FlattenSeq([i \in DOMAIN t.args |->
                IF t.args[i].is = "hole" THEN Filling(t.args[i].of, t, key) ELSE <<t.args[i]>>])

(* An environment is a function from names; what is on the left comes over *)
(* what is on the right.                                                   *)
Entry(name, value) == [n \in {name} |-> value]
f ++ g == [n \in DOMAIN f \cup DOMAIN g |-> IF n \in DOMAIN f THEN f[n] ELSE g[n]]

(* addSlot *)
SlotEnv(name, slot) == IF slot = NoSlot THEN <<>> ELSE Entry(name, slot.repo)

(* A model that is there has a share, be it nothing or less. *)
ShareEnv(name, slot, share) == IF slot = NoSlot THEN <<>> ELSE Entry(name, share)

Set(name, n) == IF n = 0 THEN <<>> ELSE Entry(name, n)

(* buildPodEnv: what the template adds comes over the key, and under the rest. *)
PodEnv(t, key) ==
  ShareEnv("CHAT_GPU_FRACTION", t.chat, VramSplit(t).chat)
    ++ ShareEnv("EMBED_GPU_FRACTION", t.embedding, VramSplit(t).embedding)
    ++ Set("CHAT_MAX_LEN", t.maxLen) ++ Set("CHAT_MAX_SEQS", t.seqs)
    ++ SlotEnv("CHAT_MODEL", t.chat) ++ SlotEnv("EMBED_MODEL", t.embedding)
    ++ t.env ++ Entry("API_KEY", key)

(* buildCreatePodRequest; no args, no entry. *)
PodRequest(t, key) ==
  [image |-> t.image, gpu |-> t.gpu, args |-> RenderArgs(t, key), env |-> PodEnv(t, key)]

-----------------------------------------------------------------------------
(* start-vllm.sh: the servers it starts, or none if it dies. *)

Read(env, name, default) == IF name \in DOMAIN env THEN env[name] ELSE default

Servers(env) ==
  LET both == {"CHAT_MODEL", "EMBED_MODEL"} \subseteq DOMAIN env
      Server(role, model, fraction, alone) ==
        IF model \notin DOMAIN env THEN {}
        ELSE {[role |-> role, model |-> env[model], share |-> Read(env, fraction, alone),
               maxLen |-> IF role = "chat" THEN Read(env, "CHAT_MAX_LEN", 0) ELSE 0,
               seqs |-> IF role = "chat" THEN Read(env, "CHAT_MAX_SEQS", 0) ELSE 0]}
  IN  Server("chat", "CHAT_MODEL", "CHAT_GPU_FRACTION", IF both THEN 86 ELSE 92)
        \cup Server("embed", "EMBED_MODEL", "EMBED_GPU_FRACTION", IF both THEN 6 ELSE 92)
=============================================================================
