------------------------------ MODULE MCEditor ------------------------------
(* Instances of the form: three cards, three repositories. *)
EXTENDS EditorProperties

Card(id, memory, price, fp8) ==
  [id |-> id, memory |-> memory, price |-> price, nvidia |-> TRUE, fp8 |-> fp8]
Cards == {Card("A6000", 48, 1, FALSE), Card("L40S", 48, 2, TRUE), Card("PRO6000", 96, 2, TRUE)}

Gguf(qualifier, level, size) ==
  [gguf |-> TRUE, projector |-> FALSE, model |-> "m", qualifier |-> qualifier,
   level |-> level, size |-> size]
Projector == [Gguf("", "F16", 1) EXCEPT !.projector = TRUE]
Weights(size) == [Gguf("", "", size) EXCEPT !.gguf = FALSE]

Repository(name, files, context) ==
  [accessible |-> TRUE, name |-> name, method |-> "", files |-> files,
   chatTemplate |-> {"tool_call", "think"}, context |-> context]

Builds == <<Gguf("", "Q4", 16), Gguf("", "Q8", 15), Projector, Gguf("", "Q8", 14),
            Gguf("draft", "Q8", 2)>>
Q8Withdrawn == <<Builds[1], Builds[3], Builds[5]>>
Sharded == Repository({"fp8"}, <<Weights(14), Weights(14)>>, 32)
Small == Repository({}, <<Weights(2)>>, 0)
Locked == [Small EXCEPT !.accessible = FALSE]

Hub(builds, small) ==
  "gguf" :> Repository({"gguf"}, builds, 0) @@ "fp8" :> Sharded @@ "small" :> small
ChangingHubs == <<Hub(Builds, Small), Hub(Q8Withdrawn, Locked)>>

Typed == [chat |-> {"typing", "gguf", "fp8"}, embedding |-> {"small"}]

ModelOf(repo, quant) == [repo |-> repo, quant |-> quant, fraction |-> 0]

FromTheApp(engine, chat, tools, args) ==
  [engine |-> engine, image |-> engine, chat |-> chat, embedding |-> NoSlot, gpu |-> "L40S",
   fallbacks |-> <<"PRO6000">>, maxLen |-> 16, seqs |-> 64, sleep |-> "stopResume",
   volume |-> FALSE, tools |-> tools, thinks |-> None, args |-> args, env |-> <<>>]

(* Written by the versions before, and a template made by hand for the     *)
(* launcher's own image and a card that is no longer on the list.          *)
Superseded ==
  {FromTheApp("llamacpp", ModelOf("gguf", <<"Q4">>), None,
     <<Flag("-hf"), Hole("chatModel"), Flag("--ctx-size"), Hole("maxModelLen"),
       Flag("--parallel"), Hole("maxConcurrentSequences")>>),
   FromTheApp("vllm", ModelOf("fp8", <<>>), "hermes",
     <<Hole("chatModel"), Flag("--max-model-len"), Hole("maxModelLen")>>),
   [FromTheApp("vllm", ModelOf("fp8", <<>>), None, <<>>) EXCEPT
      !.image = "launcher", !.embedding = [ModelOf("small", <<>>) EXCEPT !.fraction = 10],
      !.gpu = "H200", !.sleep = "recreate", !.volume = TRUE, !.env = ("API_KEY" :> "own")]}
=============================================================================
