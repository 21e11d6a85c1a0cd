------------------------------ MODULE Catalog -------------------------------
(***************************************************************************)
(* What a model repository offers and whether it runs on a card: the       *)
(* service's models/huggingface.ts with the rules it shares with the       *)
(* desktop (shared/engine.ts, vram.ts, variants.ts, parsers.ts).           *)
(*                                                                         *)
(* Sizes are whole GiB, contexts are in units of 1024 tokens, headroom in  *)
(* ten-thousandths of a GiB.  A file's name is what the code reads out of  *)
(* it: the model, a qualifier in front of the level, and the level.  A     *)
(* file of weights, of GGUF or not, is one that has a size here.           *)
(***************************************************************************)
EXTENDS Integers, Sequences, FiniteSets, FiniteSetsExt, SequencesExt

None == "none"

-----------------------------------------------------------------------------
(* engine.ts *)

EngineFormats ==
  [vllm |-> {"bf16", "fp16", "fp8", "awq", "gptq", "nvfp4"}, llamacpp |-> {"gguf"}]

EngineForFormat(format) ==
  CASE format = "mlx"     -> None
    [] format = "gguf"    -> "llamacpp"
    [] format = "unknown" -> "vllm"
    [] OTHER -> IF format \in EngineFormats["vllm"] THEN "vllm" ELSE None

(* checkCompatibility *)
Compatible(engine, format, gpu) ==
  /\ format = "unknown" \/ format \in EngineFormats[engine]
  /\ format = "fp8" => gpu.fp8

(* vram.ts: 94% of the card, 12% of that for what is not weights. *)
Headroom(memory, weights, other) == memory * 94 * 88 - 10000 * (weights + other)
MinUsableKv == 4 * 10000

(* maxContextTokens, at 83 KiB a token. *)
MaxContext(headroom) == IF headroom <= 0 THEN 0 ELSE (headroom * 1024) \div (83 * 10000)

(* suitableGpus: cards that can stand in, none dearer than was agreed to. *)
SuitableGpus(gpus, format, weights, maxPrice) ==
  LET engine == IF EngineForFormat(format) = None THEN "vllm" ELSE EngineForFormat(format)
  IN  {g \in gpus : /\ g.nvidia
                    /\ g.price <= maxPrice
                    /\ Headroom(g.memory, weights, 0) >= MinUsableKv
                    /\ Compatible(engine, format, g)}

-----------------------------------------------------------------------------
(* parsers.ts: what the chat template says of tool calls and thinking. *)

ToolCallParserFor(chatTemplate) ==
  CASE "tool_call" \notin chatTemplate              -> None
    [] {"function", "parameter"} \subseteq chatTemplate -> "qwen3_xml"
    [] OTHER                                        -> "hermes"

ReasoningParserFor(chatTemplate) == IF "think" \in chatTemplate THEN "qwen3" ELSE None

-----------------------------------------------------------------------------
(* huggingface.ts *)

(* What the hub says of a repository, as far as it is counted with. *)
IsRepository(repo) ==
  /\ repo.files \in Seq(Range(repo.files))
  /\ \A file \in Range(repo.files) : file.size \in Nat
  /\ repo.context \in Nat

(* detectFormat: files first, then the configuration, then the name. *)
DetectFormat(repo) ==
  LET named(words) == repo.name \cap words # {}
  IN  CASE \E i \in DOMAIN repo.files : repo.files[i].gguf -> "gguf"
        [] named({"mlx"})                         -> "mlx"
        [] repo.method \in {"awq", "gptq", "fp8"} -> repo.method
        [] repo.method = "compressed-tensors"     -> IF named({"int4"}) THEN "awq" ELSE "fp8"
        [] named({"gguf"})                        -> "gguf"
        [] named({"nvfp4"})                       -> "nvfp4"
        [] named({"awq", "int4"})                 -> "awq"
        [] named({"gptq"})                        -> "gptq"
        [] named({"fp8", "int8"})                 -> "fp8"
        [] OTHER                                  -> "unknown"

(* What some of the files weigh together. *)
SizeOf(files, S) == MapThenSumSet(LAMBDA i : files[i].size, S)

(* The name without directory and shard, which is what files are grouped by. *)
Base(file) == [model |-> file.model, qualifier |-> file.qualifier, level |-> file.level]

(* quantisationLabel, distinguishingSuffix *)
Label(base) == IF base.level = "" THEN <<base.model, base.qualifier>> ELSE <<base.level>>
Suffix(base) ==
  IF base.level = "" \/ base.qualifier = "" THEN Label(base) ELSE <<base.qualifier, base.level>>

(* groupGgufVariants: the projector of a multimodal model is no build; the *)
(* tag is the level, with its qualifier where two builds share the level.  *)
GgufVariants(files) ==
  LET builds    == {i \in DOMAIN files : files[i].gguf /\ ~files[i].projector}
      bases     == {Base(files[i]) : i \in builds}
      Of(b)     == {i \in builds : Base(files[i]) = b}
      Shared(b) == \E o \in bases \ {b} : Label(o) = Label(b)
  IN  {[tag   |-> IF Shared(b) THEN Suffix(b) ELSE Label(b),
        level |-> b.level,
        bytes |-> SizeOf(files, Of(b)),
        first |-> Min(Of(b))] : b \in bases}

(* The variants are sorted by size; the sort is stable. *)
Smaller(v, w) == v.bytes < w.bytes \/ (v.bytes = w.bytes /\ v.first < w.first)
FirstOf(variants) == CHOOSE v \in variants : \A w \in variants \ {v} : Smaller(v, w)
LastOf(variants) == CHOOSE v \in variants : \A w \in variants \ {v} : Smaller(w, v)

(* pickDefaultGgufVariant: the largest that is quantised at all. *)
DefaultVariants(variants) ==
  LET candidates == {v \in variants : "draft" \notin Range(v.tag)}
      quantised  == {v \in candidates : v.level \in {"Q4", "Q5", "Q6", "Q8"}}
  IN  IF quantised # {} THEN quantised ELSE candidates

NoDetails == [format |-> "unknown", bytes |-> 0, variants |-> {}, grouped |-> FALSE,
              tools |-> None, thinks |-> None, context |-> 0, accessible |-> FALSE]

(* inspect: a GGUF repository is sized by its default build; of any other, *)
(* all weights count, and the template and the context limit are read.     *)
Inspect(repo) ==
  IF ~repo.accessible THEN NoDetails
  ELSE IF DetectFormat(repo) = "gguf"
    THEN LET variants == GgufVariants(repo.files)
             pool     == DefaultVariants(variants)
         IN  [NoDetails EXCEPT !.format = "gguf", !.variants = variants, !.grouped = TRUE,
                !.accessible = TRUE, !.bytes = IF pool = {} THEN 0 ELSE LastOf(pool).bytes]
    ELSE [NoDetails EXCEPT !.format = DetectFormat(repo), !.accessible = TRUE,
            !.bytes = SizeOf(repo.files, DOMAIN repo.files),
            !.tools = ToolCallParserFor(repo.chatTemplate),
            !.thinks = ReasoningParserFor(repo.chatTemplate),
            !.context = repo.context]

(* Mutant: the default build is sized, whichever was asked for. *)
SizedDefault(details, variant) == details

(* The size is that of the build asked for, if there is one of that tag. *)
Sized(details, variant) ==
  LET asked == {v \in details.variants : v.tag = variant}
  IN  IF asked = {} THEN details ELSE [details EXCEPT !.bytes = FirstOf(asked).bytes]

(* evaluate; a picker with no answer knows of none. *)
Evaluate(repo, variant, engine, gpu, other) ==
  LET details == Sized(Inspect(repo), variant)
  IN  [known |-> TRUE,
       details |-> details,
       compatible |-> /\ details.accessible
                      /\ Compatible(engine, details.format, gpu)
                      /\ Headroom(gpu.memory, details.bytes, other) >= MinUsableKv]

(* chooseVariant (variants.ts): the saved build while it is offered. *)
ChooseVariant(saved, details, fallback) ==
  IF ~details.grouped \/ \E v \in details.variants : v.tag = saved THEN saved ELSE fallback

(* defaultVariantOf (ModelPicker.tsx): the build the service has sized. *)
DefaultVariantOf(details) ==
  LET sized == {v \in details.variants : v.bytes = details.bytes}
  IN  IF sized = {} THEN <<>> ELSE FirstOf(sized).tag
=============================================================================
