--------------------------- MODULE Editor_proofs ---------------------------
(* The proofs of what the form promises about the template it saves.       *)
EXTENDS EditorProperties, Sum_proofs

-----------------------------------------------------------------------------
(* Numbers and sums.                                                       *)

LEMMA LargerOfTwo ==
  ASSUME NEW a \in Int, NEW b \in Int
  PROVE  Max({a, b}) = IF a >= b THEN a ELSE b
<1> DEFINE m == IF a >= b THEN a ELSE b
<1>1. m \in {a, b} /\ \A y \in {a, b} : m >= y
  OBVIOUS
<1>2. \A x \in {a, b} : (\A y \in {a, b} : x >= y) => x = m
  OBVIOUS
<1> QED  BY <1>1, <1>2 DEF Max

LEMMA SmallerOfTwo ==
  ASSUME NEW a \in Int, NEW b \in Int
  PROVE  Min({a, b}) = IF a <= b THEN a ELSE b
<1> DEFINE m == IF a <= b THEN a ELSE b
<1>1. m \in {a, b} /\ \A y \in {a, b} : m =< y
  OBVIOUS
<1>2. \A x \in {a, b} : (\A y \in {a, b} : x =< y) => x = m
  OBVIOUS
<1> QED  BY <1>1, <1>2 DEF Min

LEMMA LeastOfSome ==
  ASSUME NEW S, S \subseteq Nat, S # {}
  PROVE  Min(S) \in S
<1>1. IsWellFoundedOn(OpToRel(<, Nat), Nat)
  BY NatLessThanWellFounded
<1>2. \E n \in S : \A m \in S : ~(<<m, n>> \in OpToRel(<, Nat))
  BY <1>1, WFMin
<1>3. \E n \in S : \A m \in S : n =< m
  <2>1. PICK n \in S : \A m \in S : ~(<<m, n>> \in OpToRel(<, Nat))
    BY <1>2
  <2>2. \A m \in S : ~(m < n)
    BY <2>1 DEF OpToRel
  <2> QED  BY <2>2
<1> QED  BY <1>3 DEF Min

(* The sizes of some of a repository's files add up. *)
LEMMA SizesAreNat ==
  ASSUME NEW files, NEW S, IsFiniteSet(S), \A i \in S : files[i].size \in Nat
  PROVE  SizeOf(files, S) \in Nat
<1> DEFINE w == [i \in S |-> files[i].size]
           Sizes(g) == [s \in SUBSET S |->
                          IF s = {} THEN 0 ELSE files[Pick(s)].size + g[s \ {Pick(s)}]]
           sums == CHOOSE g : g = Sizes(g)
<1>1. \A i \in S : w[i] \in Nat
  OBVIOUS
<1>2. ASSUME NEW g PROVE Sizes(g) = Step(w, S, g)
  <2>1. \A s \in SUBSET S : s # {} => w[Pick(s)] = files[Pick(s)].size
    BY DEF Pick
  <2> QED  BY <2>1 DEF Step
<1>3. \E g : g = Sizes(g)
  <2>1. PICK g : g = Step(w, S, g)
    BY <1>1, SumsExist
  <2> QED  BY <1>2, <2>1
<1>4. sums = Step(w, S, sums)
  BY <1>2, <1>3
<1>5. sums[S] \in Nat
  <2> HIDE DEF sums, w
  <2> QED  BY <1>1, <1>4, SumsAreNat
<1>6. SizeOf(files, S) = sums[S]
  BY DEF SizeOf, MapThenSumSet, MapThenFoldSet, Pick
<1> QED  BY <1>5, <1>6

-----------------------------------------------------------------------------
(* The builds of a repository are in an order.                             *)

Ordered(variants) ==
  /\ IsFiniteSet(variants)
  /\ \A v \in variants : v.bytes \in Nat /\ v.first \in Nat
  /\ \A v, w \in variants : v.first = w.first => v = w

LEMMA SomeAreOrdered ==
  ASSUME NEW V, Ordered(V), NEW U \in SUBSET V
  PROVE  Ordered(U)
BY FS_Subset DEF Ordered

LEMMA SmallerIsTotal ==
  ASSUME NEW V, Ordered(V), NEW u \in V, NEW v \in V, NEW w \in V
  PROVE  /\ u # v => Smaller(u, v) \/ Smaller(v, u)
         /\ Smaller(u, v) /\ Smaller(v, w) => Smaller(u, w)
         /\ ~(Smaller(u, v) /\ Smaller(v, u))
BY DEF Ordered, Smaller

LEMMA FirstAndLast ==
  ASSUME NEW V, Ordered(V), V # {}
  PROVE  FirstOf(V) \in V /\ LastOf(V) \in V
<1> DEFINE Foremost(U, v) == v \in U /\ \A w \in U \ {v} : Smaller(v, w)
           Hindmost(U, v) == v \in U /\ \A w \in U \ {v} : Smaller(w, v)
           Has(U) == (\E v : Foremost(U, v)) /\ (\E v : Hindmost(U, v))
           Bad == {n \in Nat : \E U \in SUBSET V : U # {} /\ Cardinality(U) = n /\ ~Has(U)}
<1>1. ASSUME NEW U \in SUBSET V, NEW x \in U, Has(U \ {x}) PROVE Has(U)
  <2>1. PICK f : Foremost(U \ {x}, f)
    BY <1>1
  <2>2. PICK l : Hindmost(U \ {x}, l)
    BY <1>1
  <2>3. x \in V /\ f \in V /\ l \in V /\ f # x /\ l # x /\ U \subseteq V
    BY <2>1, <2>2
  <2>4. Smaller(f, x) => Foremost(U, f)
    BY <2>1, <2>3
  <2>5. Smaller(x, f) => Foremost(U, x)
    BY <2>1, <2>3, SmallerIsTotal
  <2>6. Smaller(l, x) => Hindmost(U, x)
    BY <2>2, <2>3, SmallerIsTotal
  <2>7. Smaller(x, l) => Hindmost(U, l)
    BY <2>2, <2>3
  <2>8. (Smaller(f, x) \/ Smaller(x, f)) /\ (Smaller(l, x) \/ Smaller(x, l))
    BY <2>3, SmallerIsTotal
  <2> HIDE DEF Foremost, Hindmost
  <2> QED  BY <2>4, <2>5, <2>6, <2>7, <2>8
<1>2. ASSUME NEW U \in SUBSET V, NEW x \in U, U \ {x} = {} PROVE Has(U)
  <2>1. Foremost(U, x) /\ Hindmost(U, x)
    BY <1>2
  <2> QED  BY <2>1
<1>3. ASSUME NEW U \in SUBSET V
      PROVE  /\ Cardinality(U) \in Nat
             /\ \A x \in U : Cardinality(U \ {x}) \in Nat /\ Cardinality(U \ {x}) < Cardinality(U)
  <2>1. IsFiniteSet(U)
    BY FS_Subset DEF Ordered
  <2>2. Cardinality(U) \in Nat
    BY <2>1, FS_CardinalityType
  <2>3. ASSUME NEW x \in U
        PROVE  Cardinality(U \ {x}) \in Nat /\ Cardinality(U \ {x}) < Cardinality(U)
    <3>1. IsFiniteSet(U \ {x}) /\ Cardinality(U \ {x}) = Cardinality(U) - 1
      BY <2>1, FS_RemoveElement
    <3>2. Cardinality(U \ {x}) \in Nat
      BY <3>1, FS_CardinalityType
    <3> QED  BY <2>2, <3>1, <3>2
  <2> QED  BY <2>2, <2>3
<1>4. Bad = {}
  <2>1. SUFFICES ASSUME Bad # {} PROVE FALSE
    OBVIOUS
  <2>2. IsWellFoundedOn(OpToRel(<, Nat), Nat)
    BY NatLessThanWellFounded
  <2>3. Bad \subseteq Nat
    OBVIOUS
  <2> HIDE DEF Has, Bad
  <2>4. \E n \in Bad : \A m \in Bad : ~(<<m, n>> \in OpToRel(<, Nat))
    BY <2>1, <2>2, <2>3, WFMin
  <2>5. PICK n \in Bad : \A m \in Bad : ~(m < n)
    BY <2>3, <2>4 DEF OpToRel
  <2> USE DEF Bad
  <2>6. PICK U \in SUBSET V : U # {} /\ Cardinality(U) = n /\ ~Has(U)
    BY <2>5
  <2>7. PICK x \in U : TRUE
    BY <2>6
  <2>8. U \ {x} # {} /\ ~Has(U \ {x})
    BY <1>1, <1>2, <2>6, <2>7
  <2>9. Cardinality(U \ {x}) \in Nat /\ Cardinality(U \ {x}) < n
    BY <1>3, <2>6, <2>7
  <2>10. Cardinality(U \ {x}) \in Bad
    BY <2>8, <2>9
  <2> HIDE DEF Bad
  <2> QED  BY <2>5, <2>9, <2>10
<1>5. Has(V)
  <2> HIDE DEF Has
  <2> QED  BY <1>3, <1>4
<1>6. \E v \in V : \A w \in V \ {v} : Smaller(v, w)
  BY <1>5
<1>7. \E v \in V : \A w \in V \ {v} : Smaller(w, v)
  BY <1>5
<1> QED  BY <1>6, <1>7 DEF FirstOf, LastOf

LEMMA BuildsAreOrdered ==
  ASSUME NEW repo, IsRepository(repo)
  PROVE  Ordered(GgufVariants(repo.files))
<1> DEFINE files == repo.files
           builds == {i \in DOMAIN files : files[i].gguf /\ ~files[i].projector}
           bases == {Base(files[i]) : i \in builds}
           Of(b) == {i \in builds : Base(files[i]) = b}
           Shared(b) == \E o \in bases \ {b} : Label(o) = Label(b)
           Build(b) == [tag   |-> IF Shared(b) THEN Suffix(b) ELSE Label(b),
                        level |-> b.level,
                        bytes |-> SizeOf(files, Of(b)),
                        first |-> Min(Of(b))]
           V == {Build(b) : b \in bases}
<1>1. GgufVariants(repo.files) = V
  BY DEF GgufVariants
<1>2. IsFiniteSet(DOMAIN files) /\ DOMAIN files \subseteq Nat
      /\ \A i \in DOMAIN files : files[i].size \in Nat
  <2>1. files \in Seq(Range(files)) /\ \A file \in Range(files) : file.size \in Nat
    BY DEF IsRepository
  <2>2. DOMAIN files = 1..Len(files) /\ Len(files) \in Nat
    BY <2>1
  <2>3. IsFiniteSet(1..Len(files))
    BY <2>2, FS_Interval
  <2>4. \A i \in DOMAIN files : files[i] \in Range(files)
    BY DEF Range
  <2> QED  BY <2>1, <2>2, <2>3, <2>4
<1>3. IsFiniteSet(builds) /\ builds \subseteq DOMAIN files
  BY <1>2, FS_Subset
<1>4. IsFiniteSet(bases)
  <2> DEFINE f == [i \in builds |-> Base(files[i])]
  <2>1. bases = {f[i] : i \in DOMAIN f} /\ DOMAIN f = builds
    OBVIOUS
  <2> HIDE DEF f, bases, builds
  <2> QED  BY <1>3, <2>1, ImageIsFinite
<1>5. IsFiniteSet(V)
  <2> DEFINE f == [b \in bases |-> Build(b)]
  <2> HIDE DEF bases, Build
  <2>1. V = {f[b] : b \in DOMAIN f} /\ DOMAIN f = bases
    OBVIOUS
  <2> HIDE DEF f, V
  <2> QED  BY <1>4, <2>1, ImageIsFinite
<1>6. ASSUME NEW b \in bases
      PROVE  Build(b).bytes \in Nat /\ Build(b).first \in Of(b) /\ Of(b) \subseteq Nat
  <2>1. Of(b) \subseteq DOMAIN files /\ Of(b) # {} /\ IsFiniteSet(Of(b))
    BY <1>2, FS_Subset
  <2>2. \A i \in Of(b) : files[i].size \in Nat
    BY <1>2, <2>1
  <2> HIDE DEF Of
  <2>3. SizeOf(files, Of(b)) \in Nat
    BY <2>1, <2>2, SizesAreNat
  <2>4. Min(Of(b)) \in Of(b)
    BY <1>2, <2>1, LeastOfSome
  <2>5. Build(b).bytes = SizeOf(files, Of(b))
    OBVIOUS
  <2>6. Build(b).first = Min(Of(b))
    OBVIOUS
  <2> QED  BY <1>2, <2>1, <2>3, <2>4, <2>5, <2>6
<1>7. ASSUME NEW v \in V, NEW w \in V, v.first = w.first PROVE v = w
  <2>1. PICK b \in bases : v = Build(b)
    OBVIOUS
  <2>2. PICK c \in bases : w = Build(c)
    OBVIOUS
  <2>3. v.first \in Of(b) /\ w.first \in Of(c)
    <3> HIDE DEF Build, Of
    <3> QED  BY <1>6, <2>1, <2>2
  <2>4. b = c
    BY <1>7, <2>3
  <2> QED  BY <2>1, <2>2, <2>4
<1>8. ASSUME NEW v \in V PROVE v.bytes \in Nat /\ v.first \in Nat
  <2>1. PICK b \in bases : v = Build(b)
    OBVIOUS
  <2> HIDE DEF Build, Of
  <2> QED  BY <1>6, <2>1
<1> HIDE DEF V
<1> QED  BY <1>1, <1>5, <1>7, <1>8 DEF Ordered

-----------------------------------------------------------------------------
(* What a repository is said to be.                                        *)

DetailsOk(details) ==
  /\ DOMAIN details = DOMAIN NoDetails
  /\ details.bytes \in Nat /\ details.context \in Nat
  /\ Ordered(details.variants)

LEMMA NothingIsKnown ==
  DetailsOk(NoDetails) /\ NoDetails.variants = {} /\ ~NoDetails.grouped
BY FS_EmptySet DEF DetailsOk, NoDetails, Ordered

LEMMA InspectIsOk ==
  ASSUME NEW repo, IsRepository(repo)
  PROVE  DetailsOk(Inspect(repo))
<1> DEFINE gguf == DetectFormat(repo) = "gguf"
           variants == GgufVariants(repo.files)
           pool == DefaultVariants(variants)
           size == IF pool = {} THEN 0 ELSE LastOf(pool).bytes
<1>1. Ordered(variants)
  BY BuildsAreOrdered
<1>2. size \in Nat
  <2>1. pool \in SUBSET variants
    BY DEF DefaultVariants
  <2> HIDE DEF pool, variants
  <2>2. Ordered(pool)
    BY <1>1, <2>1, SomeAreOrdered
  <2>3. pool # {} => LastOf(pool) \in pool
    BY <2>2, FirstAndLast
  <2> QED  BY <2>2, <2>3 DEF Ordered
<1>3. CASE ~repo.accessible
  BY <1>3, NothingIsKnown DEF Inspect
<1>4. CASE repo.accessible /\ gguf
  <2> DEFINE d == [NoDetails EXCEPT !.format = "gguf", !.variants = variants, !.grouped = TRUE,
                     !.accessible = TRUE, !.bytes = size]
  <2>1. Inspect(repo) = d
    BY <1>4 DEF Inspect
  <2>2. DOMAIN d = DOMAIN NoDetails /\ d.bytes = size /\ d.context = 0 /\ d.variants = variants
    BY DEF NoDetails
  <2> HIDE DEF d, variants, size
  <2> QED  BY <1>1, <1>2, <2>1, <2>2 DEF DetailsOk
<1>5. CASE repo.accessible /\ ~gguf
  <2> DEFINE all == SizeOf(repo.files, DOMAIN repo.files)
             d == [NoDetails EXCEPT !.format = DetectFormat(repo), !.accessible = TRUE,
                     !.bytes = all,
                     !.tools = ToolCallParserFor(repo.chatTemplate),
                     !.thinks = ReasoningParserFor(repo.chatTemplate),
                     !.context = repo.context]
  <2>1. Inspect(repo) = d
    BY <1>5 DEF Inspect
  <2>2. DOMAIN d = DOMAIN NoDetails /\ d.bytes = all /\ d.context = repo.context
        /\ d.variants = {}
    BY DEF NoDetails
  <2>3. all \in Nat
    <3>1. DOMAIN repo.files = 1..Len(repo.files) /\ Len(repo.files) \in Nat
      BY DEF IsRepository
    <3>2. IsFiniteSet(DOMAIN repo.files)
      BY <3>1, FS_Interval
    <3>3. \A i \in DOMAIN repo.files : repo.files[i].size \in Nat
      BY DEF IsRepository, Range
    <3> QED  BY <3>2, <3>3, SizesAreNat
  <2>4. repo.context \in Nat /\ Ordered({})
    BY FS_EmptySet DEF IsRepository, Ordered
  <2> HIDE DEF d, all
  <2> QED  BY <2>1, <2>2, <2>3, <2>4 DEF DetailsOk
<1> QED  BY <1>3, <1>4, <1>5

(* Asking for a build changes the size and nothing else. *)
LEMMA SizedIsOk ==
  ASSUME NEW details, DetailsOk(details), NEW variant
  PROVE  /\ DetailsOk(Sized(details, variant))
         /\ Sized(details, variant).variants = details.variants
         /\ Sized(details, variant).grouped = details.grouped
<1> DEFINE asked == {v \in details.variants : v.tag = variant}
<1>1. CASE asked = {}
  BY <1>1 DEF Sized
<1>2. CASE asked # {}
  <2> DEFINE size == FirstOf(asked).bytes
             d == [details EXCEPT !.bytes = size]
  <2>1. Sized(details, variant) = d
    BY <1>2 DEF Sized
  <2>2. asked \in SUBSET details.variants
    OBVIOUS
  <2>3. size \in Nat
    <3> HIDE DEF asked
    <3>1. Ordered(asked)
      BY <2>2, SomeAreOrdered DEF DetailsOk
    <3>2. FirstOf(asked) \in asked
      BY <1>2, <3>1, FirstAndLast
    <3> QED  BY <3>1, <3>2 DEF Ordered
  <2>4. DOMAIN d = DOMAIN details /\ d.bytes = size /\ d.context = details.context
        /\ d.variants = details.variants /\ d.grouped = details.grouped
    BY DEF DetailsOk, NoDetails
  <2> HIDE DEF d, size
  <2> QED  BY <2>1, <2>3, <2>4 DEF DetailsOk
<1> QED  BY <1>1, <1>2

LEMMA RepositoriesAreOk ==
  ASSUME NEW h \in Range(Hubs), NEW name \in DOMAIN h
  PROVE  DetailsOk(Inspect(h[name]))
BY EditorAssumption, InspectIsOk DEF Range

(* The verdict that answers a call. *)
Told(call) == Sized(Inspect(hub[call[1]]), call[2])

LEMMA VerdictIsTold ==
  ASSUME NEW call, hub \in Range(Hubs), call[1] \in DOMAIN hub
  PROVE  /\ VerdictOn(call).known = TRUE
         /\ VerdictOn(call).details = Told(call)
         /\ DetailsOk(Told(call))
<1>1. VerdictOn(call).known = TRUE /\ VerdictOn(call).details = Told(call)
  BY DEF VerdictOn, Evaluate, Told
<1>4. DetailsOk(Told(call))
  BY RepositoriesAreOk, SizedIsOk DEF Told
<1> QED  BY <1>1, <1>4

-----------------------------------------------------------------------------
(* What the components derive.                                             *)

LEMMA FavourIsFounded ==
  ASSUME NEW call, VerdictOn(call).compatible
  PROVE  LET card == CHOOSE g \in Gpus : g.id = call[4] details == VerdictOn(call).details IN
         /\ Compatible(call[3], details.format, card)
         /\ Headroom(card.memory, details.bytes, call[5]) >= MinUsableKv
BY Zenon DEF VerdictOn, Evaluate

LEMMA GpuIsKnown ==
  ASSUME NEW f
  PROVE  /\ Gpu(f) = NoGpu \/ Gpu(f) \in Gpus
         /\ Gpu(f).memory \in Nat
BY EditorAssumption DEF Gpu, NoGpu

LEMMA BytesAreNat ==
  ASSUME NEW f, IsForm(f), NEW s \in Pickers
  PROVE  Bytes(f, s) \in Nat
BY DEF IsForm, Bytes

LEMMA BudgetIsInt ==
  ASSUME NEW f, IsForm(f)
  PROVE  Budget(f) \in Int
<1> DEFINE room == Headroom(Gpu(f).memory, Bytes(f, "chat") + Bytes(f, "embedding"), 0)
           held == MaxContext(room)
           native == f.slot["chat"].verdict.details.context
<1>1. room \in Int
  <2>1. Bytes(f, "chat") \in Nat /\ Bytes(f, "embedding") \in Nat /\ Gpu(f).memory \in Nat
    BY BytesAreNat, GpuIsKnown DEF Pickers
  <2> QED  BY <2>1 DEF Headroom
<1>2. held \in Int
  <2> HIDE DEF room
  <2> QED  BY <1>1 DEF MaxContext
<1>3. native \in Int
  BY DEF IsForm, Pickers
<1>4. Budget(f) = IF native = 0 THEN held ELSE Min({held, native})
  BY DEF Budget
<1> HIDE DEF held, native
<1> QED  BY <1>2, <1>3, <1>4, SmallerOfTwo

(* The context and the parsers follow, everything else stays. *)
LEMMA FittedKeeps ==
  ASSUME NEW f, IsForm(f)
  PROVE  /\ IsForm(Fitted(f))
         /\ \A x \in DOMAIN f \ {"maxLen"} : Fitted(f)[x] = f[x]
         /\ f.maxLenTouched => Fitted(f).maxLen = f.maxLen
<1>1. CASE Fitted(f) = f
  BY <1>1
<1>2. CASE Fitted(f) # f
  <2> DEFINE each == IF Chosen(f).engine = "llamacpp" THEN Budget(f) \div Max({1, Sequences(f)})
                     ELSE Budget(f)
             fit == Max({4, each})
             g == [f EXCEPT !.maxLen = fit]
  <2>1. Fitted(f) = g /\ ~f.maxLenTouched
    BY <1>2 DEF Fitted
  <2>2. fit \in Nat
    <3>1. Sequences(f) \in Nat
      <4>1. f.seqs \in Nat
        BY DEF IsForm
      <4>2. Chosen(f).concurrency \in Nat
        BY DEF Chosen, PresetForFormat, Preset
      <4> QED  BY <4>1, <4>2 DEF Sequences
    <3>2. Max({1, Sequences(f)}) \in Nat /\ Max({1, Sequences(f)}) > 0
      BY <3>1, LargerOfTwo
    <3>3. Budget(f) \in Int
      BY BudgetIsInt
    <3>4. Budget(f) \div Max({1, Sequences(f)}) \in Int
      BY <3>2, <3>3
    <3>5. each \in Int
      BY <3>3, <3>4
    <3> HIDE DEF each
    <3> QED  BY <3>5, LargerOfTwo
  <2>3. DOMAIN g = DOMAIN f /\ \A x \in DOMAIN f \ {"maxLen"} : g[x] = f[x]
    OBVIOUS
  <2>4. g.maxLen = fit
    BY DEF IsForm, NewForm
  <2>5. {"open", "slot", "picker", "seqs", "edits"} \subseteq DOMAIN f \ {"maxLen"}
    BY DEF IsForm, NewForm
  <2> HIDE DEF g, fit
  <2>6. g.open = f.open /\ g.slot = f.slot /\ g.picker = f.picker /\ g.seqs = f.seqs
        /\ g.edits = f.edits
    BY <2>3, <2>5
  <2>7. IsForm(g)
    BY <2>2, <2>3, <2>4, <2>6 DEF IsForm
  <2> QED  BY <2>1, <2>3, <2>7
<1> QED  BY <1>1, <1>2

LEMMA DetectedKeeps ==
  ASSUME NEW f, IsForm(f)
  PROVE  /\ IsForm(Detected(f))
         /\ \A x \in DOMAIN f \ {"tools", "thinks"} : Detected(f)[x] = f[x]
         /\ f.parsersTouched => Detected(f) = f
<1>1. CASE Detected(f) = f
  BY <1>1
<1>2. CASE Detected(f) # f
  <2> DEFINE details == f.slot["chat"].verdict.details
             g == [f EXCEPT !.tools = details.tools, !.thinks = details.thinks]
  <2>1. Detected(f) = g /\ ~f.parsersTouched
    BY <1>2 DEF Detected
  <2>3. DOMAIN g = DOMAIN f /\ \A x \in DOMAIN f \ {"tools", "thinks"} : g[x] = f[x]
    OBVIOUS
  <2>5. {"open", "slot", "picker", "seqs", "edits", "maxLen"} \subseteq DOMAIN f \ {"tools", "thinks"}
    BY DEF IsForm, NewForm
  <2> HIDE DEF g
  <2>6. g.open = f.open /\ g.slot = f.slot /\ g.picker = f.picker /\ g.seqs = f.seqs
        /\ g.edits = f.edits /\ g.maxLen = f.maxLen
    BY <2>3, <2>5
  <2>7. IsForm(g)
    BY <2>3, <2>6 DEF IsForm
  <2> QED  BY <2>1, <2>3, <2>7
<1> QED  BY <1>1, <1>2

Derived == {"maxLen", "tools", "thinks"}

LEMMA DerivedKeeps ==
  ASSUME NEW f, IsForm(f)
  PROVE  LET h == Detected(Fitted(f)) IN
         /\ IsForm(h)
         /\ \A x \in DOMAIN f \ Derived : h[x] = f[x]
         /\ f.maxLenTouched => h.maxLen = f.maxLen
         /\ f.parsersTouched => h.tools = f.tools /\ h.thinks = f.thinks
<1> DEFINE g == Fitted(f)
           h == Detected(g)
<1>1. IsForm(g) /\ (\A x \in DOMAIN f \ {"maxLen"} : g[x] = f[x])
      /\ (f.maxLenTouched => g.maxLen = f.maxLen)
  BY FittedKeeps
<1> HIDE DEF g
<1>2. IsForm(h) /\ (\A x \in DOMAIN g \ {"tools", "thinks"} : h[x] = g[x])
      /\ (g.parsersTouched => h = g)
  BY <1>1, DetectedKeeps
<1> HIDE DEF h
<1>3. DOMAIN f = DOMAIN NewForm /\ DOMAIN g = DOMAIN NewForm
  BY <1>1 DEF IsForm
<1>4. {"maxLen", "tools", "thinks", "parsersTouched"} \subseteq DOMAIN NewForm
  BY DEF NewForm
<1>5. \A x \in DOMAIN f \ Derived : h[x] = f[x]
  BY <1>1, <1>2, <1>3 DEF Derived
<1>6. f.maxLenTouched => h.maxLen = f.maxLen
  BY <1>1, <1>2, <1>3, <1>4
<1>7. f.parsersTouched => h.tools = f.tools /\ h.thinks = f.thinks
  BY <1>1, <1>2, <1>3, <1>4
<1> QED  BY <1>2, <1>5, <1>6, <1>7 DEF g, h

(* A verdict depends on nothing else of the form. *)
LEMMA DependsOn ==
  ASSUME NEW f, NEW g, NEW s,
         f.open = g.open, f.useEmbedding = g.useEmbedding, f.listed = g.listed, f.gpu = g.gpu,
         f.slot = g.slot, f.picker[s].query = g.picker[s].query,
         f.picker[s].variant = g.picker[s].variant
  PROVE  Dependencies(f, s) = Dependencies(g, s)
BY DEF Dependencies, Shown, Gpu, Chosen, Format, Known, Bytes

LEMMA AsksAboutThePicker ==
  ASSUME NEW f, NEW s, Dependencies(f, s) # NoCall
  PROVE  /\ Dependencies(f, s)[1] = f.picker[s].query
         /\ Dependencies(f, s)[1] \in DOMAIN hub
         /\ Dependencies(f, s)[2] = f.picker[s].variant
BY DEF Dependencies

(* Whether there is anything to ask about is not a matter of what was told. *)
LEMMA AsksOrNot ==
  ASSUME NEW f, NEW g, NEW s,
         f.open = g.open, f.useEmbedding = g.useEmbedding, f.listed = g.listed, f.gpu = g.gpu,
         f.picker[s].query = g.picker[s].query
  PROVE  Dependencies(f, s) = NoCall <=> Dependencies(g, s) = NoCall
BY DEF Dependencies, Shown, Gpu, NoCall

(* Two cards that are asked about under one name are one card. *)
LEMMA AsksAboutTheForm ==
  ASSUME NEW f, NEW s, Dependencies(f, s) # NoCall
  PROVE  /\ Dependencies(f, s)[3] = Chosen(f).engine
         /\ Dependencies(f, s)[4] = Gpu(f).id
         /\ Dependencies(f, s)[5] = Bytes(f, Other(s))
         /\ Gpu(f) \in Gpus
         /\ (CHOOSE g \in Gpus : g.id = Gpu(f).id) = Gpu(f)
<1>1. Gpu(f) # NoGpu
  BY DEF Dependencies
<1>2. Gpu(f) \in Gpus
  BY <1>1, GpuIsKnown
<1>3. (CHOOSE g \in Gpus : g.id = Gpu(f).id) = Gpu(f)
  BY <1>2, EditorAssumption
<1> QED  BY <1>2, <1>3 DEF Dependencies

LEMMA AgreesStays ==
  ASSUME NEW f, NEW g, NEW s, Agrees(f, s), Dependencies(g, s) = Dependencies(f, s),
         g.slot[s] = f.slot[s], g.picker[s].verdict = f.picker[s].verdict,
         g.picker[s].query = f.picker[s].query, g.picker[s].variant = f.picker[s].variant
  PROVE  Agrees(g, s)
<1>1. Dependencies(f, s) # NoCall /\ Dependencies(g, s) # NoCall
  BY DEF Agrees
<1>2. /\ Chosen(g).engine = Chosen(f).engine /\ Gpu(g) = Gpu(f)
      /\ Bytes(g, Other(s)) = Bytes(f, Other(s))
  <2>1. Chosen(g).engine = Chosen(f).engine /\ Bytes(g, Other(s)) = Bytes(f, Other(s))
        /\ Gpu(g).id = Gpu(f).id
    BY <1>1, AsksAboutTheForm
  <2>2. Gpu(g) \in Gpus /\ Gpu(f) \in Gpus
    BY <1>1, AsksAboutTheForm
  <2> QED  BY <2>1, <2>2, EditorAssumption
<1>3. Holds(g, s)
  BY <1>2 DEF Agrees, Holds
<1> QED  BY <1>1, <1>3 DEF Agrees

(* The names the hub knows stay. *)
LEMMA AgreesNext ==
  ASSUME DOMAIN hub' = DOMAIN hub, NEW s
  PROVE  Agrees(form', s) => Agrees(form, s)'
<1>1. Dependencies(form, s)' = Dependencies(form', s)
  BY DEF Dependencies, Shown, Gpu, Chosen, Format, Known, Bytes
<1>2. Holds(form, s)' <=> Holds(form', s)
  BY DEF Holds, Chosen, Format, Known, Bytes, Gpu
<1> QED  BY <1>1, <1>2 DEF Agrees

-----------------------------------------------------------------------------
(* What follows from a change of the form to g, before the next event.     *)

Erased(h, s) ==
  IF Dependencies(h, s) = NoCall THEN [h.picker[s] EXCEPT !.verdict = NoVerdict] ELSE h.picker[s]

LEMMA ErasedKeeps ==
  ASSUME NEW h, IsForm(h), NEW s \in Pickers
  PROVE  /\ DOMAIN Erased(h, s) = {"query", "variant", "verdict"}
         /\ Erased(h, s).query = h.picker[s].query
         /\ Erased(h, s).variant = h.picker[s].variant
         /\ IF Dependencies(h, s) = NoCall THEN Erased(h, s).verdict = NoVerdict
            ELSE Erased(h, s).verdict = h.picker[s].verdict
<1> DEFINE p == h.picker[s]
           q == [p EXCEPT !.verdict = NoVerdict]
<1>1. DOMAIN p = {"query", "variant", "verdict"}
  BY DEF IsForm
<1>2. DOMAIN q = DOMAIN p /\ q.query = p.query /\ q.variant = p.variant /\ q.verdict = NoVerdict
  BY <1>1
<1> QED  BY <1>1, <1>2 DEF Erased

LEMMA ChangedForm ==
  ASSUME NEW g, IsForm(g), Changed(form, g)
  PROVE  LET h == Detected(Fitted(g)) IN
         /\ IsForm(form')
         /\ \A x \in DOMAIN NewForm \ (Derived \cup {"picker"}) : form'[x] = g[x]
         /\ g.maxLenTouched => form'.maxLen = g.maxLen
         /\ g.parsersTouched => form'.tools = g.tools /\ form'.thinks = g.thinks
         /\ \A s \in Pickers : form'.picker[s] = Erased(h, s)
<1> DEFINE h == Detected(Fitted(g))
           p == [s \in DOMAIN h.picker |-> Erased(h, s)]
           k == [h EXCEPT !.picker = p]
<1>1. IsForm(h) /\ (\A x \in DOMAIN g \ Derived : h[x] = g[x])
      /\ (g.maxLenTouched => h.maxLen = g.maxLen)
      /\ (g.parsersTouched => h.tools = g.tools /\ h.thinks = g.thinks)
  BY DerivedKeeps
<1>2. form' = k
  BY DEF Changed, Erased
<1> HIDE DEF h
<1>3. DOMAIN h = DOMAIN NewForm /\ DOMAIN g = DOMAIN NewForm /\ DOMAIN h.picker = Pickers
  BY <1>1 DEF IsForm
<1>4. {"open", "slot", "picker", "seqs", "edits", "maxLen", "tools", "thinks"} \subseteq DOMAIN NewForm
  BY DEF NewForm
<1>5. /\ DOMAIN k = DOMAIN h /\ k.picker = p
      /\ \A x \in DOMAIN NewForm \ {"picker"} : k[x] = h[x]
  BY <1>3, <1>4
<1>6. \A s \in Pickers : p[s] = Erased(h, s) /\ DOMAIN p[s] = {"query", "variant", "verdict"}
  BY <1>1, <1>3, ErasedKeeps
<1>7. DOMAIN p = Pickers
  BY <1>3
<1> HIDE DEF k, p
<1>8. k.open = h.open /\ k.slot = h.slot /\ k.seqs = h.seqs /\ k.edits = h.edits
      /\ k.maxLen = h.maxLen /\ k.tools = h.tools /\ k.thinks = h.thinks
  BY <1>4, <1>5
<1>9. IsForm(k)
  BY <1>1, <1>5, <1>6, <1>7, <1>8 DEF IsForm
<1>10. \A x \in DOMAIN NewForm \ (Derived \cup {"picker"}) : k[x] = g[x]
  BY <1>1, <1>3, <1>5
<1> QED  BY <1>1, <1>2, <1>5, <1>6, <1>8, <1>9, <1>10 DEF h

LEMMA ChangedCalls ==
  ASSUME ShapeInv, IsForm(form), NEW g, IsForm(g), Changed(form, g), hub' = hub
  PROVE  /\ DOMAIN calls' = Pickers /\ \A s \in Pickers : DOMAIN calls'[s] = {"now", "late"}
         /\ CallsAreCurrent'
         /\ \A s \in Pickers :
              /\ form'.picker[s].query = g.picker[s].query
              /\ form'.picker[s].variant = g.picker[s].variant
              /\ Settled(s)' => /\ calls[s].now = NoCall /\ g.picker[s].verdict.known
                                /\ form.picker[s].query = g.picker[s].query
                                /\ form.picker[s].variant = g.picker[s].variant
                                /\ form'.picker[s].verdict = g.picker[s].verdict
                                /\ Dependencies(form', s) = Dependencies(form, s)
<1> DEFINE h == Detected(Fitted(g))
           Call(s) == [calls[s] EXCEPT !.late = IF calls[s].now # NoCall THEN calls[s].now ELSE @]
           Next1(s) == IF Dependencies(h, s) = NoCall THEN [Call(s) EXCEPT !.now = NoCall]
                       ELSE IF Reask(form, h, s) THEN [Call(s) EXCEPT !.now = Dependencies(h, s)]
                       ELSE calls[s]
<1>1. IsForm(h) /\ \A x \in DOMAIN g \ Derived : h[x] = g[x]
  BY DerivedKeeps
<1>2. calls' = [s \in DOMAIN calls |-> Next1(s)]
  BY DEF Changed
<1>3. /\ IsForm(form')
      /\ \A x \in DOMAIN NewForm \ (Derived \cup {"picker"}) : form'[x] = g[x]
      /\ \A s \in Pickers : form'.picker[s] = Erased(h, s)
  BY ChangedForm
<1>4. DOMAIN calls = Pickers /\ \A s \in Pickers : DOMAIN calls[s] = {"now", "late"}
  BY DEF ShapeInv
<1> HIDE DEF h
<1>5. /\ h.open = g.open /\ h.useEmbedding = g.useEmbedding /\ h.listed = g.listed
      /\ h.gpu = g.gpu /\ h.slot = g.slot /\ h.picker = g.picker
      /\ form'.open = g.open /\ form'.useEmbedding = g.useEmbedding /\ form'.listed = g.listed
      /\ form'.gpu = g.gpu /\ form'.slot = g.slot
  <2>1. DOMAIN g = DOMAIN NewForm
    BY DEF IsForm
  <2>2. {"open", "useEmbedding", "listed", "gpu", "slot", "picker"}
          \subseteq DOMAIN NewForm \ Derived
    BY DEF NewForm, Derived
  <2>3. \A x \in {"open", "useEmbedding", "listed", "gpu", "slot", "picker"} : h[x] = g[x]
    BY <1>1, <2>1, <2>2
  <2>4. \A x \in {"open", "useEmbedding", "listed", "gpu", "slot"} : form'[x] = g[x]
    BY <1>3, <2>2
  <2> QED  BY <2>3, <2>4
<1>6. ASSUME NEW s \in Pickers
      PROVE  /\ form'.picker[s].query = g.picker[s].query
             /\ form'.picker[s].variant = g.picker[s].variant
             /\ IF Dependencies(h, s) = NoCall THEN form'.picker[s].verdict = NoVerdict
                ELSE form'.picker[s].verdict = g.picker[s].verdict
             /\ Dependencies(form', s) = Dependencies(h, s)
  <2>1. /\ form'.picker[s].query = h.picker[s].query
        /\ form'.picker[s].variant = h.picker[s].variant
        /\ IF Dependencies(h, s) = NoCall THEN form'.picker[s].verdict = NoVerdict
           ELSE form'.picker[s].verdict = h.picker[s].verdict
    BY <1>1, <1>3, ErasedKeeps
  <2>2. Dependencies(form', s) = Dependencies(h, s)
    BY <1>5, <2>1, DependsOn
  <2> QED  BY <1>5, <2>1, <2>2
<1>7. ASSUME NEW s \in Pickers
      PROVE  /\ DOMAIN calls'[s] = {"now", "late"}
             /\ IF Dependencies(h, s) = NoCall THEN calls'[s].now = NoCall
                ELSE IF Dependencies(form, s) # Dependencies(h, s)
                  THEN calls'[s].now = Dependencies(h, s)
                ELSE calls'[s] = calls[s]
  <2>1. DOMAIN Call(s) = {"now", "late"}
    BY <1>4
  <2>2. calls'[s] = Next1(s)
    BY <1>2, <1>4
  <2> HIDE DEF Call
  <2>3. CASE Dependencies(h, s) = NoCall
    BY <2>1, <2>2, <2>3
  <2>4. CASE Dependencies(h, s) # NoCall /\ Dependencies(form, s) # Dependencies(h, s)
    BY <2>1, <2>2, <2>4 DEF Reask
  <2>5. CASE Dependencies(h, s) # NoCall /\ Dependencies(form, s) = Dependencies(h, s)
    BY <1>4, <2>2, <2>5 DEF Reask
  <2> QED  BY <2>3, <2>4, <2>5
<1>8. DOMAIN calls' = Pickers
  BY <1>2, <1>4
<1>9. CallsAreCurrent'
  <2>1. ASSUME NEW s \in Pickers, calls'[s].now # NoCall
        PROVE  calls'[s].now = Dependencies(h, s)
    BY <1>7, <2>1 DEF ShapeInv, CallsAreCurrent
  <2>2. \A s \in Pickers : Dependencies(form, s)' = Dependencies(form', s)
    BY hub' = hub DEF Dependencies, Shown, Gpu, Chosen, Format, Known, Bytes
  <2> QED  BY <1>6, <2>1, <2>2 DEF CallsAreCurrent
<1>10. ASSUME NEW s \in Pickers, Settled(s)'
       PROVE  /\ calls[s].now = NoCall /\ g.picker[s].verdict.known
              /\ form.picker[s].query = g.picker[s].query
              /\ form.picker[s].variant = g.picker[s].variant
              /\ form'.picker[s].verdict = g.picker[s].verdict
              /\ Dependencies(form', s) = Dependencies(form, s)
  <2>1. form'.picker[s].verdict.known /\ calls'[s].now = NoCall
    BY <1>10 DEF Settled
  <2>2. Dependencies(h, s) # NoCall
    BY <1>6, <2>1 DEF NoVerdict
  <2>3. Dependencies(form, s) = Dependencies(h, s) /\ calls'[s] = calls[s]
    BY <1>7, <2>1, <2>2
  <2>4. form.picker[s].query = h.picker[s].query /\ form.picker[s].variant = h.picker[s].variant
    BY <2>2, <2>3, AsksAboutThePicker
  <2> QED  BY <1>5, <1>6, <2>1, <2>2, <2>3, <2>4
<1> QED  BY <1>6, <1>7, <1>8, <1>9, <1>10

-----------------------------------------------------------------------------
(* The steps.                                                              *)

(* Changes of the form that leave alone what the pickers have told it. *)
SameModels(g) ==
  /\ IsForm(g)
  /\ g.slot = form.slot
  /\ \A s \in Pickers : g.picker[s].verdict \in {form.picker[s].verdict, NoVerdict}

LEMMA ChangedShows ==
  ASSUME ShapeInv, ShownInv, IsForm(form), NEW g, SameModels(g), Changed(form, g),
         UNCHANGED <<hub, up, saved>>, up = TRUE
  PROVE  ShapeInv' /\ ShownInv' /\ IsForm(form')
<1>1. IsForm(g)
  BY DEF SameModels
<1>2. /\ DOMAIN calls' = Pickers /\ \A s \in Pickers : DOMAIN calls'[s] = {"now", "late"}
      /\ CallsAreCurrent'
      /\ \A s \in Pickers :
           /\ form'.picker[s].query = g.picker[s].query
           /\ form'.picker[s].variant = g.picker[s].variant
           /\ Settled(s)' => /\ calls[s].now = NoCall /\ g.picker[s].verdict.known
                             /\ form.picker[s].query = g.picker[s].query
                             /\ form.picker[s].variant = g.picker[s].variant
                             /\ form'.picker[s].verdict = g.picker[s].verdict
                             /\ Dependencies(form', s) = Dependencies(form, s)
  BY <1>1, ChangedCalls
<1>3. IsForm(form') /\ form'.slot = g.slot
  <2>1. "slot" \in DOMAIN NewForm \ (Derived \cup {"picker"})
    BY DEF NewForm, Derived
  <2> QED  BY <1>1, <2>1, ChangedForm
<1>4. ShapeInv'
  BY <1>2, <1>3 DEF ShapeInv, Stays, IsForm
<1>5. ASSUME NEW s \in Pickers, Settled(s)'
      PROVE  Agrees(form', s)
  <2>1. g.picker[s].verdict = form.picker[s].verdict
    BY <1>2, <1>5 DEF SameModels, NoVerdict
  <2>2. Settled(s)
    BY <1>2, <1>5, <2>1 DEF Settled
  <2>3. Agrees(form, s)
    BY <2>2 DEF ShownInv, IsForm
  <2>4. form'.slot = form.slot /\ form'.picker[s].query = form.picker[s].query
        /\ form'.picker[s].variant = form.picker[s].variant
        /\ form'.picker[s].verdict = form.picker[s].verdict
    BY <1>2, <1>3, <1>5, <2>1 DEF SameModels
  <2> QED  BY <1>2, <1>5, <2>3, <2>4, AgreesStays
<1>6. ShownInv'
  BY <1>5, AgreesNext DEF ShownInv
<1> QED  BY <1>3, <1>4, <1>6

(* One more edit, and the template is no longer as it was opened. *)
LEMMA EditsKeep ==
  ASSUME FormInv, form.open, NEW g, SameModels(g), g.edits = form.edits, Edits(g)
  PROVE  FormInv' /\ form'.slot = form.slot
<1> DEFINE e == [g EXCEPT !.edits = @ + 1]
<1>1. IsForm(form) /\ up = TRUE
  BY DEF FormInv, ShapeInv, Closed
<1>2. SameModels(e) /\ e.edits = form.edits + 1
  <2>1. IsForm(g) /\ DOMAIN g = DOMAIN NewForm
    BY DEF SameModels, IsForm
  <2>2. {"open", "slot", "picker", "maxLen", "seqs", "edits"} \subseteq DOMAIN NewForm
    BY DEF NewForm
  <2>3. /\ DOMAIN e = DOMAIN g /\ e.edits = g.edits + 1
        /\ e.open = g.open /\ e.slot = g.slot /\ e.picker = g.picker /\ e.maxLen = g.maxLen
        /\ e.seqs = g.seqs
    BY <2>1, <2>2
  <2>4. g.edits + 1 \in 0..MaxEdits
    BY <2>1, EditorAssumption DEF Edits, IsForm
  <2> HIDE DEF e
  <2>5. IsForm(e)
    BY <2>1, <2>3, <2>4 DEF IsForm
  <2> QED  BY <2>3, <2>5 DEF SameModels
<1>3. Changed(form, e) /\ UNCHANGED <<hub, up, saved>>
  BY DEF Edits
<1> HIDE DEF e
<1>4. ShapeInv' /\ ShownInv' /\ IsForm(form')
  BY <1>1, <1>2, <1>3, ChangedShows DEF FormInv
<1>5. form'.edits = form.edits + 1 /\ form'.slot = form.slot
  <2>1. {"edits", "slot"} \subseteq DOMAIN NewForm \ (Derived \cup {"picker"})
    BY DEF NewForm, Derived
  <2>2. IsForm(e) /\ e.slot = form.slot
    BY <1>2 DEF SameModels
  <2> QED  BY <1>2, <1>3, <2>1, <2>2, ChangedForm
<1>6. form'.edits # 0
  BY <1>1, <1>5 DEF IsForm
<1> QED  BY <1>4, <1>5, <1>6 DEF FormInv, KeptInv

(* A field that is no slot, no picker and no number. *)
LEMMA FieldKeeps ==
  ASSUME IsForm(form), NEW g, DOMAIN g = DOMAIN form,
         g.open = form.open, g.slot = form.slot, g.picker = form.picker,
         g.maxLen \in Nat, g.seqs \in Nat, g.edits = form.edits
  PROVE  SameModels(g)
BY DEF SameModels, IsForm

LEMMA ChooseGpuKeeps == ASSUME FormInv, ChooseGpu PROVE FormInv' /\ form'.slot = form.slot
<1>1. IsForm(form) /\ form.open
  BY DEF FormInv, ShapeInv, ChooseGpu, Closed
<1>2. PICK c \in Gpus : Edits([form EXCEPT !.gpu = c.id])
  BY DEF ChooseGpu
<1> DEFINE g == [form EXCEPT !.gpu = c.id]
<1>3. SameModels(g) /\ g.edits = form.edits
  <2>1. {"open", "slot", "picker", "maxLen", "seqs", "edits"} \subseteq DOMAIN form
    BY <1>1 DEF IsForm, NewForm
  <2> QED  BY <1>1, <2>1, FieldKeeps DEF IsForm
<1> HIDE DEF g
<1> QED  BY <1>1, <1>2, <1>3, EditsKeep DEF g

LEMMA ToggleFallbackKeeps == ASSUME FormInv, ToggleFallback PROVE FormInv' /\ form'.slot = form.slot
<1>1. IsForm(form) /\ form.open
  BY DEF FormInv, ShapeInv, ToggleFallback, Closed
<1>2. \E list : Edits([form EXCEPT !.ownFallbacks = TRUE, !.fallbacks = list])
  BY DEF ToggleFallback
<1>3. PICK list : Edits([form EXCEPT !.ownFallbacks = TRUE, !.fallbacks = list])
  BY <1>2
<1> DEFINE g == [form EXCEPT !.ownFallbacks = TRUE, !.fallbacks = list]
<1>4. SameModels(g) /\ g.edits = form.edits
  <2>1. {"open", "slot", "picker", "maxLen", "seqs", "edits"} \subseteq DOMAIN form
    BY <1>1 DEF IsForm, NewForm
  <2> QED  BY <1>1, <2>1, FieldKeeps DEF IsForm
<1> HIDE DEF g
<1> QED  BY <1>1, <1>3, <1>4, EditsKeep DEF g

LEMMA ChooseSleepKeeps == ASSUME FormInv, ChooseSleep PROVE FormInv' /\ form'.slot = form.slot
<1>1. IsForm(form) /\ form.open
  BY DEF FormInv, ShapeInv, ChooseSleep, Closed
<1> DEFINE g == [form EXCEPT !.sleep = IF @ = "recreate" THEN "stopResume" ELSE "recreate"]
<1>2. Edits(g)
  BY DEF ChooseSleep
<1>3. SameModels(g) /\ g.edits = form.edits
  <2>1. {"open", "slot", "picker", "maxLen", "seqs", "edits"} \subseteq DOMAIN form
    BY <1>1 DEF IsForm, NewForm
  <2> QED  BY <1>1, <2>1, FieldKeeps DEF IsForm
<1> HIDE DEF g
<1> QED  BY <1>1, <1>2, <1>3, EditsKeep

LEMMA TypeLengthKeeps == ASSUME FormInv, TypeLength PROVE FormInv' /\ form'.slot = form.slot
<1>1. IsForm(form) /\ form.open
  BY DEF FormInv, ShapeInv, TypeLength, Closed
<1>2. PICK n \in Lengths : Edits([form EXCEPT !.maxLen = n, !.maxLenTouched = TRUE])
  BY DEF TypeLength
<1> DEFINE g == [form EXCEPT !.maxLen = n, !.maxLenTouched = TRUE]
<1>3. SameModels(g) /\ g.edits = form.edits
  <2>1. {"open", "slot", "picker", "maxLen", "seqs", "edits"} \subseteq DOMAIN form
    BY <1>1 DEF IsForm, NewForm
  <2> QED  BY <1>1, <2>1, FieldKeeps, EditorAssumption DEF IsForm
<1> HIDE DEF g
<1> QED  BY <1>1, <1>2, <1>3, EditsKeep DEF g

LEMMA TypeCountKeeps == ASSUME FormInv, TypeCount PROVE FormInv' /\ form'.slot = form.slot
<1>1. IsForm(form) /\ form.open
  BY DEF FormInv, ShapeInv, TypeCount, Closed
<1>2. PICK n \in Counts : Edits([form EXCEPT !.seqs = n, !.seqsTouched = TRUE])
  BY DEF TypeCount
<1> DEFINE g == [form EXCEPT !.seqs = n, !.seqsTouched = TRUE]
<1>3. SameModels(g) /\ g.edits = form.edits
  <2>1. {"open", "slot", "picker", "maxLen", "seqs", "edits"} \subseteq DOMAIN form
    BY <1>1 DEF IsForm, NewForm
  <2> QED  BY <1>1, <2>1, FieldKeeps, EditorAssumption DEF IsForm
<1> HIDE DEF g
<1> QED  BY <1>1, <1>2, <1>3, EditsKeep DEF g

LEMMA TypeParserKeeps == ASSUME FormInv, TypeParser PROVE FormInv' /\ form'.slot = form.slot
<1>1. IsForm(form) /\ form.open
  BY DEF FormInv, ShapeInv, TypeParser, Closed
<1>2. PICK p \in {"hermes", None} : Edits([form EXCEPT !.tools = p, !.parsersTouched = TRUE])
  BY DEF TypeParser
<1> DEFINE g == [form EXCEPT !.tools = p, !.parsersTouched = TRUE]
<1>3. SameModels(g) /\ g.edits = form.edits
  <2>1. {"open", "slot", "picker", "maxLen", "seqs", "edits"} \subseteq DOMAIN form
    BY <1>1 DEF IsForm, NewForm
  <2> QED  BY <1>1, <2>1, FieldKeeps DEF IsForm
<1> HIDE DEF g
<1> QED  BY <1>1, <1>2, <1>3, EditsKeep DEF g

(* A picker that is typed in or started anew. *)
LEMMA PickerKeeps ==
  ASSUME IsForm(form), NEW g, NEW s \in Pickers, NEW p,
         DOMAIN g = DOMAIN form, DOMAIN p = {"query", "variant", "verdict"},
         p.verdict \in {form.picker[s].verdict, NoVerdict},
         g.picker = [form.picker EXCEPT ![s] = p],
         g.open = form.open, g.slot = form.slot,
         g.maxLen = form.maxLen, g.seqs = form.seqs, g.edits = form.edits
  PROVE  SameModels(g)
<1>1. DOMAIN form.picker = Pickers
  BY DEF IsForm
<1>2. DOMAIN g.picker = Pickers /\ \A o \in Pickers : g.picker[o] = IF o = s THEN p ELSE form.picker[o]
  BY <1>1
<1>3. IsForm(g)
  BY <1>2 DEF IsForm
<1> QED  BY <1>2, <1>3 DEF SameModels

LEMMA TypeKeeps ==
  ASSUME FormInv, NEW s \in Slots, Type(s)
  PROVE  FormInv' /\ form'.slot = form.slot
<1>1. IsForm(form) /\ form.open /\ s \in Pickers
  BY EditorAssumption DEF FormInv, ShapeInv, Type, Closed, Pickers
<1>2. PICK q : Edits([form EXCEPT !.picker[s].query = q])
  BY DEF Type
<1> DEFINE g == [form EXCEPT !.picker[s].query = q]
           p == [form.picker[s] EXCEPT !.query = q]
<1>3. SameModels(g) /\ g.edits = form.edits
  <2>1. {"open", "slot", "picker", "maxLen", "seqs", "edits"} \subseteq DOMAIN form
    BY <1>1 DEF IsForm, NewForm
  <2>2. /\ DOMAIN g = DOMAIN form /\ g.picker = [form.picker EXCEPT ![s] = p]
        /\ g.open = form.open /\ g.slot = form.slot
        /\ g.maxLen = form.maxLen /\ g.seqs = form.seqs /\ g.edits = form.edits
    BY <2>1
  <2>3. DOMAIN p = {"query", "variant", "verdict"} /\ p.verdict = form.picker[s].verdict
    BY <1>1 DEF IsForm
  <2> HIDE DEF g, p
  <2> QED  BY <1>1, <2>2, <2>3, PickerKeeps
<1> HIDE DEF g
<1> QED  BY <1>1, <1>2, <1>3, EditsKeep DEF g

LEMMA PickVariantKeeps ==
  ASSUME FormInv, NEW s \in Slots, PickVariant(s)
  PROVE  FormInv' /\ form'.slot = form.slot
<1>1. IsForm(form) /\ form.open /\ s \in Pickers
  BY EditorAssumption DEF FormInv, ShapeInv, PickVariant, Closed, Pickers
<1>2. PICK tag : Edits([form EXCEPT !.picker[s].variant = tag])
  BY DEF PickVariant
<1> DEFINE g == [form EXCEPT !.picker[s].variant = tag]
           p == [form.picker[s] EXCEPT !.variant = tag]
<1>3. SameModels(g) /\ g.edits = form.edits
  <2>1. {"open", "slot", "picker", "maxLen", "seqs", "edits"} \subseteq DOMAIN form
    BY <1>1 DEF IsForm, NewForm
  <2>2. /\ DOMAIN g = DOMAIN form /\ g.picker = [form.picker EXCEPT ![s] = p]
        /\ g.open = form.open /\ g.slot = form.slot
        /\ g.maxLen = form.maxLen /\ g.seqs = form.seqs /\ g.edits = form.edits
    BY <2>1
  <2>3. DOMAIN p = {"query", "variant", "verdict"} /\ p.verdict = form.picker[s].verdict
    BY <1>1 DEF IsForm
  <2> HIDE DEF g, p
  <2> QED  BY <1>1, <2>2, <2>3, PickerKeeps
<1> HIDE DEF g
<1> QED  BY <1>1, <1>2, <1>3, EditsKeep DEF g

LEMMA ToggleEmbeddingKeeps == ASSUME FormInv, ToggleEmbedding PROVE FormInv' /\ form'.slot = form.slot
<1>1. IsForm(form) /\ form.open /\ "embedding" \in Pickers
  BY DEF FormInv, ShapeInv, ToggleEmbedding, Closed, Pickers
<1>2. \E slot : Edits([form EXCEPT !.useEmbedding = ~@, !.picker["embedding"] = PickerOf(slot)])
  BY DEF ToggleEmbedding
<1>3. PICK slot : Edits([form EXCEPT !.useEmbedding = ~@, !.picker["embedding"] = PickerOf(slot)])
  BY <1>2
<1> DEFINE g == [form EXCEPT !.useEmbedding = ~@, !.picker["embedding"] = PickerOf(slot)]
           p == PickerOf(slot)
<1>4. SameModels(g) /\ g.edits = form.edits
  <2>1. {"open", "slot", "picker", "maxLen", "seqs", "edits"} \subseteq DOMAIN form
    BY <1>1 DEF IsForm, NewForm
  <2>2. /\ DOMAIN g = DOMAIN form /\ g.picker = [form.picker EXCEPT !["embedding"] = p]
        /\ g.open = form.open /\ g.slot = form.slot
        /\ g.maxLen = form.maxLen /\ g.seqs = form.seqs /\ g.edits = form.edits
    BY <2>1
  <2>3. DOMAIN p = {"query", "variant", "verdict"} /\ p.verdict = NoVerdict
    BY DEF PickerOf
  <2> HIDE DEF g, p
  <2> QED  BY <1>1, <2>2, <2>3, PickerKeeps
<1> HIDE DEF g
<1> QED  BY <1>1, <1>3, <1>4, EditsKeep DEF g

(* The list of cards is no decision of anybody: what was kept stays kept. *)
LEMMA GpusArriveKeeps == ASSUME FormInv, GpusArrive PROVE FormInv' /\ form'.slot = form.slot
<1> DEFINE g == [form EXCEPT !.listed = TRUE]
<1>1. IsForm(form) /\ form.open /\ up = TRUE
  BY DEF FormInv, ShapeInv, GpusArrive, Closed
<1>2. Changed(form, g) /\ UNCHANGED <<hub, up, saved>>
  BY DEF GpusArrive
<1>3. DOMAIN g = DOMAIN NewForm /\ \A x \in DOMAIN NewForm \ {"listed"} : g[x] = form[x]
  BY <1>1 DEF IsForm
<1> HIDE DEF g
<1>4. SameModels(g)
  <2>1. {"open", "slot", "picker", "maxLen", "seqs", "edits"} \subseteq DOMAIN NewForm \ {"listed"}
    BY DEF NewForm
  <2>2. \A x \in {"open", "slot", "picker", "maxLen", "seqs", "edits"} : g[x] = form[x]
    BY <1>3, <2>1
  <2>3. g.open = form.open /\ g.slot = form.slot /\ g.picker = form.picker
        /\ g.maxLen = form.maxLen /\ g.seqs = form.seqs /\ g.edits = form.edits
    BY <2>2
  <2>4. DOMAIN g = DOMAIN form /\ form.maxLen \in Nat /\ form.seqs \in Nat
    BY <1>1, <1>3 DEF IsForm
  <2> QED  BY <1>1, <2>3, <2>4, FieldKeeps
<1>5. ShapeInv' /\ ShownInv' /\ IsForm(form')
  BY <1>1, <1>2, <1>4, ChangedShows DEF FormInv
<1>6. IsForm(g)
  BY <1>4 DEF SameModels
<1>7. /\ \A x \in DOMAIN NewForm \ (Derived \cup {"picker"}) : form'[x] = g[x]
      /\ g.maxLenTouched => form'.maxLen = g.maxLen
      /\ g.parsersTouched => form'.tools = g.tools /\ form'.thinks = g.thinks
  BY <1>2, <1>6, ChangedForm
<1>8. \A s \in Pickers : /\ form'.picker[s].query = g.picker[s].query
                         /\ form'.picker[s].variant = g.picker[s].variant
  BY <1>1, <1>2, <1>6, ChangedCalls DEF FormInv
<1>9. KeptInv' /\ form'.slot = form.slot
  <2> DEFINE same == {"open", "new", "edits", "useEmbedding", "slot", "seqs", "maxLenTouched",
                      "seqsTouched", "parsersTouched"}
  <2>1. same \subseteq DOMAIN NewForm \ (Derived \cup {"picker", "listed"})
    BY DEF NewForm, Derived
  <2>2. \A x \in same : form'[x] = form[x]
    BY <1>3, <1>7, <2>1
  <2>3. /\ form'.open = form.open /\ form'.new = form.new /\ form'.edits = form.edits
        /\ form'.useEmbedding = form.useEmbedding /\ form'.slot = form.slot
        /\ form'.seqs = form.seqs /\ form'.maxLenTouched = form.maxLenTouched
        /\ form'.seqsTouched = form.seqsTouched /\ form'.parsersTouched = form.parsersTouched
    BY <2>2
  <2>4. g.maxLen = form.maxLen /\ g.tools = form.tools /\ g.thinks = form.thinks
        /\ g.picker = form.picker /\ g.maxLenTouched = form.maxLenTouched
        /\ g.parsersTouched = form.parsersTouched
    <3>1. {"maxLen", "tools", "thinks", "picker", "maxLenTouched", "parsersTouched"}
            \subseteq DOMAIN NewForm \ {"listed"}
      BY DEF NewForm
    <3>2. \A x \in {"maxLen", "tools", "thinks", "picker", "maxLenTouched", "parsersTouched"} :
             g[x] = form[x]
      BY <1>3, <3>1
    <3> QED  BY <3>2
  <2>5. /\ form.maxLenTouched => form'.maxLen = form.maxLen
        /\ form.parsersTouched => form'.tools = form.tools /\ form'.thinks = form.thinks
    BY <1>7, <2>4
  <2>6. \A s \in Pickers : /\ form'.picker[s].query = form.picker[s].query
                           /\ form'.picker[s].variant = form.picker[s].variant
    BY <1>8, <2>4
  <2> HIDE DEF same
  <2> QED  BY <1>2, <2>3, <2>5, <2>6 DEF FormInv, KeptInv, Stays, Models, StillOffered
<1> QED  BY <1>5, <1>9 DEF FormInv

-----------------------------------------------------------------------------
(* An answer.                                                              *)

ChosenFor(call) == ChooseVariant(call[2], Told(call), DefaultVariantOf(Told(call)))

LEMMA UsedKeeps ==
  ASSUME IsForm(form), hub \in Range(Hubs), NEW s \in Pickers, NEW call, call[1] \in DOMAIN hub
  PROVE  LET u == Used(s, call) IN
         /\ IsForm(u)
         /\ \A x \in DOMAIN NewForm \ {"picker", "slot"} : u[x] = form[x]
         /\ u.picker[s].query = form.picker[s].query
         /\ u.picker[s].variant = ChosenFor(call)
         /\ u.slot[s].repo = call[1] /\ u.slot[s].quant = ChosenFor(call)
         /\ u.slot[s].verdict.details = Told(call)
         /\ u.picker[s].verdict = VerdictOn(call) /\ u.slot[s].verdict = VerdictOn(call)
         /\ \A o \in Pickers \ {s} : u.picker[o] = form.picker[o] /\ u.slot[o] = form.slot[o]
<1> DEFINE verdict == VerdictOn(call)
           p == [[form.picker[s] EXCEPT !.verdict = verdict] EXCEPT !.variant = ChosenFor(call)]
           t == [repo |-> call[1], verdict |-> verdict, quant |-> ChosenFor(call)]
           pickers == [form.picker EXCEPT ![s] = p]
           slots == [form.slot EXCEPT ![s] = t]
           u == [form EXCEPT !.picker = pickers, !.slot = slots]
<1>1. verdict.details = Told(call) /\ DetailsOk(Told(call))
  BY VerdictIsTold
<1>2. /\ DOMAIN form = DOMAIN NewForm
      /\ DOMAIN form.picker = Pickers /\ DOMAIN form.slot = Pickers
      /\ DOMAIN form.picker[s] = {"query", "variant", "verdict"}
  BY DEF IsForm
<1>3. {"open", "slot", "picker", "maxLen", "seqs", "edits"} \subseteq DOMAIN NewForm
  BY DEF NewForm
<1>4. Used(s, call) = u
  <2> DEFINE p1 == [form.picker[s] EXCEPT !.verdict = verdict]
             u1 == [form EXCEPT !.picker[s].verdict = verdict]
             u2 == [u1 EXCEPT !.picker[s].variant = ChosenFor(call)]
             u3 == [u2 EXCEPT !.slot[s] = t]
  <2>1. Used(s, call) = u3
    <3> HIDE DEF verdict
    <3>1. ChooseVariant(call[2], verdict.details, DefaultVariantOf(verdict.details)) = ChosenFor(call)
      BY <1>1 DEF ChosenFor
    <3> QED  BY <3>1 DEF Used, verdict
  <2> HIDE DEF verdict
  <2>2. u1 = [form EXCEPT !.picker = [form.picker EXCEPT ![s] = p1]]
    BY <1>2, <1>3
  <2>3. u1.picker = [form.picker EXCEPT ![s] = p1] /\ u1.picker[s] = p1
        /\ DOMAIN u1 = DOMAIN form
    BY <1>2, <1>3, <2>2
  <2>4. u2 = [u1 EXCEPT !.picker = [u1.picker EXCEPT ![s] = p]]
    <3>1. p = [p1 EXCEPT !.variant = ChosenFor(call)]
      OBVIOUS
    <3> HIDE DEF u1, p1, p
    <3> QED  BY <2>3, <3>1
  <2>5. [u1.picker EXCEPT ![s] = p] = pickers
    <3> HIDE DEF u1, p1, p
    <3> QED  BY <1>2, <2>3
  <2>6. u2 = [form EXCEPT !.picker = pickers]
    <3> HIDE DEF p1, p, pickers, u2
    <3>1. u2 = [u1 EXCEPT !.picker = pickers]
      BY <2>4, <2>5
    <3> QED  BY <1>2, <1>3, <2>2, <3>1
  <2>7. DOMAIN u2 = DOMAIN form /\ u2.slot = form.slot
    <3> HIDE DEF pickers, u2
    <3> QED  BY <1>2, <1>3, <2>6
  <2>8. u3 = [u2 EXCEPT !.slot = slots]
    <3> HIDE DEF u2, t
    <3> QED  BY <1>2, <1>3, <2>7
  <2> HIDE DEF u2, u3, pickers, slots
  <2> QED  BY <2>1, <2>6, <2>8
<1>5. /\ DOMAIN p = {"query", "variant", "verdict"}
      /\ p.query = form.picker[s].query /\ p.variant = ChosenFor(call)
      /\ p.verdict = VerdictOn(call)
  BY <1>2
<1>6. DOMAIN t = DOMAIN Empty /\ t.repo = call[1] /\ t.quant = ChosenFor(call)
      /\ t.verdict.details = Told(call) /\ t.verdict = VerdictOn(call)
  BY <1>1 DEF Empty
<1> HIDE DEF p, t
<1>7. /\ DOMAIN pickers = Pickers
      /\ \A o \in Pickers : pickers[o] = IF o = s THEN p ELSE form.picker[o]
      /\ DOMAIN slots = Pickers
      /\ \A o \in Pickers : slots[o] = IF o = s THEN t ELSE form.slot[o]
  BY <1>2
<1> HIDE DEF pickers, slots
<1>8. /\ DOMAIN u = DOMAIN NewForm /\ u.picker = pickers /\ u.slot = slots
      /\ \A x \in DOMAIN NewForm \ {"picker", "slot"} : u[x] = form[x]
  BY <1>2, <1>3
<1> HIDE DEF u
<1>9. u.open = form.open /\ u.maxLen = form.maxLen /\ u.seqs = form.seqs /\ u.edits = form.edits
  <2>1. {"open", "maxLen", "seqs", "edits"} \subseteq DOMAIN NewForm \ {"picker", "slot"}
    BY DEF NewForm
  <2> QED  BY <1>8, <2>1
<1>10. IsForm(u)
  BY <1>1, <1>5, <1>6, <1>7, <1>8, <1>9 DEF IsForm, DetailsOk
<1> QED  BY <1>4, <1>5, <1>6, <1>7, <1>8, <1>10

(* The build that is asked for stays while it is offered. *)
LEMMA OfferedStays ==
  ASSUME NEW call, hub \in Range(Hubs), call[1] \in DOMAIN hub, NEW slot,
         call[1] = slot.repo, call[2] = slot.quant, StillOffered(slot)
  PROVE  ChosenFor(call) = slot.quant
<1>1. DetailsOk(Inspect(hub[call[1]]))
  BY RepositoriesAreOk
<1>2. /\ Told(call).variants = Inspect(hub[call[1]]).variants
      /\ Told(call).grouped = Inspect(hub[call[1]]).grouped
  BY <1>1, SizedIsOk DEF Told
<1>3. ~Inspect(hub[call[1]]).grouped
      \/ \E v \in Inspect(hub[call[1]]).variants : v.tag = slot.quant
  BY DEF StillOffered, Offers
<1> QED  BY <1>2, <1>3 DEF ChosenFor, ChooseVariant

LEMMA AnsweredKeeps == ASSUME FormInv, NEW s \in Slots, Answered(s) PROVE FormInv'
<1> DEFINE call == calls[s].now
           u == Used(s, call)
           g == Detected(Fitted(u))
<1>1. /\ IsForm(form) /\ up = TRUE /\ s \in Pickers /\ call # NoCall
      /\ UNCHANGED <<hub, up, saved>> /\ form' = g
      /\ DOMAIN calls = Pickers /\ \A o \in Pickers : DOMAIN calls[o] = {"now", "late"}
      /\ hub \in Range(Hubs)
  BY EditorAssumption DEF FormInv, ShapeInv, Answered, Closed, Pickers
<1>2. /\ call = Dependencies(form, s)
      /\ call[1] = form.picker[s].query /\ call[1] \in DOMAIN hub
      /\ call[2] = form.picker[s].variant
  <2>1. call = Dependencies(form, s)
    BY <1>1 DEF FormInv, ShapeInv, CallsAreCurrent
  <2> HIDE DEF call
  <2> QED  BY <1>1, <2>1, AsksAboutThePicker
<1>3. calls' = [o \in DOMAIN calls |->
                  IF Dependencies(g, o) # NoCall /\ Reask(form, g, o)
                    THEN [now |-> Dependencies(g, o),
                          late |-> IF o = s \/ calls[o].now = NoCall THEN calls[o].late
                                   ELSE calls[o].now]
                  ELSE IF o = s THEN [calls[o] EXCEPT !.now = NoCall] ELSE calls[o]]
  BY DEF Answered
<1> HIDE DEF call
<1>4. /\ IsForm(u)
      /\ \A x \in DOMAIN NewForm \ {"picker", "slot"} : u[x] = form[x]
      /\ u.picker[s].query = form.picker[s].query
      /\ u.picker[s].variant = ChosenFor(call)
      /\ u.slot[s].repo = call[1] /\ u.slot[s].quant = ChosenFor(call)
      /\ u.picker[s].verdict = VerdictOn(call) /\ u.slot[s].verdict = VerdictOn(call)
      /\ \A o \in Pickers \ {s} : u.picker[o] = form.picker[o] /\ u.slot[o] = form.slot[o]
  BY <1>1, <1>2, UsedKeeps
<1> HIDE DEF u
<1>5. /\ IsForm(g)
      /\ \A x \in DOMAIN u \ Derived : g[x] = u[x]
      /\ u.maxLenTouched => g.maxLen = u.maxLen
      /\ u.parsersTouched => g.tools = u.tools /\ g.thinks = u.thinks
  BY <1>4, DerivedKeeps
<1> HIDE DEF g
<1>6. DOMAIN u = DOMAIN NewForm /\ DOMAIN form = DOMAIN NewForm
  BY <1>1, <1>4 DEF IsForm
<1>7. /\ g.picker = u.picker /\ g.slot = u.slot
      /\ g.open = form.open /\ g.new = form.new /\ g.edits = form.edits /\ g.gpu = form.gpu
      /\ g.listed = form.listed /\ g.useEmbedding = form.useEmbedding /\ g.seqs = form.seqs
      /\ g.maxLenTouched = form.maxLenTouched /\ g.seqsTouched = form.seqsTouched
      /\ g.parsersTouched = form.parsersTouched
      /\ u.maxLen = form.maxLen /\ u.tools = form.tools /\ u.thinks = form.thinks
      /\ u.maxLenTouched = form.maxLenTouched /\ u.parsersTouched = form.parsersTouched
  <2> DEFINE kept == {"open", "new", "edits", "gpu", "listed", "useEmbedding", "seqs",
                      "maxLenTouched", "seqsTouched", "parsersTouched"}
  <2>1. kept \subseteq DOMAIN NewForm \ (Derived \cup {"picker", "slot"})
        /\ {"picker", "slot"} \subseteq DOMAIN NewForm \ Derived
        /\ Derived \subseteq DOMAIN NewForm \ {"picker", "slot"}
    BY DEF NewForm, Derived
  <2>2. \A x \in kept : g[x] = form[x] /\ u[x] = form[x]
    <3> HIDE DEF kept
    <3> QED  BY <1>4, <1>5, <1>6, <2>1
  <2>3. \A x \in {"picker", "slot"} : g[x] = u[x]
    BY <1>5, <1>6, <2>1
  <2>4. \A x \in Derived : u[x] = form[x]
    BY <1>4, <2>1
  <2> QED  BY <2>2, <2>3, <2>4 DEF Derived
<1>8. ASSUME NEW o \in Pickers
      PROVE  /\ DOMAIN calls'[o] = {"now", "late"}
             /\ IF Dependencies(g, o) # NoCall /\ Dependencies(form, o) # Dependencies(g, o)
                  THEN calls'[o].now = Dependencies(g, o)
                ELSE calls'[o].now = IF o = s THEN NoCall ELSE calls[o].now
  BY <1>1, <1>3 DEF Reask
<1>9. DOMAIN calls' = Pickers
  BY <1>1, <1>3
<1>10. \A o \in Pickers : g.picker[o].query = form.picker[o].query
  BY <1>4, <1>7
<1>11. CallsAreCurrent'
  <2>1. ASSUME NEW o \in Pickers, calls'[o].now # NoCall
        PROVE  calls'[o].now = Dependencies(g, o)
    <3>1. CASE Dependencies(g, o) # NoCall /\ Dependencies(form, o) # Dependencies(g, o)
      BY <1>8, <3>1
    <3>2. CASE ~(Dependencies(g, o) # NoCall /\ Dependencies(form, o) # Dependencies(g, o))
      <4>1. o # s /\ calls'[o].now = calls[o].now /\ calls[o].now # NoCall
        BY <1>8, <2>1, <3>2
      <4>2. calls[o].now = Dependencies(form, o)
        BY <4>1 DEF FormInv, ShapeInv, CallsAreCurrent
      <4>3. Dependencies(form, o) = NoCall <=> Dependencies(g, o) = NoCall
        BY <1>7, <1>10, AsksOrNot
      <4> QED  BY <3>2, <4>1, <4>2, <4>3
    <3> QED  BY <3>1, <3>2
  <2>2. \A o \in Pickers : Dependencies(form, o)' = Dependencies(g, o)
    BY <1>1 DEF Dependencies, Shown, Gpu, Chosen, Format, Known, Bytes
  <2> QED  BY <2>1, <2>2 DEF CallsAreCurrent
<1>12. ShapeInv'
  BY <1>1, <1>5, <1>8, <1>9, <1>11 DEF FormInv, ShapeInv, Stays
<1>13. ShownInv'
  <2>1. SUFFICES ASSUME NEW o \in Pickers, Settled(o)'
                 PROVE  Agrees(g, o)
    BY <1>1, AgreesNext DEF ShownInv
  <2>2. g.picker[o].verdict.known /\ calls'[o].now = NoCall
    BY <1>1, <2>1 DEF Settled
  <2>3. Dependencies(g, o) = NoCall <=> Dependencies(form, o) = NoCall
    BY <1>7, <1>10, AsksOrNot
  <2>4. CASE o = s
    <3>1. Dependencies(g, s) = call
      BY <1>1, <1>2, <1>8, <2>2, <2>3, <2>4
    <3>2. /\ call[3] = Chosen(g).engine /\ call[5] = Bytes(g, Other(s))
          /\ (CHOOSE c \in Gpus : c.id = call[4]) = Gpu(g)
      BY <1>1, <3>1, AsksAboutTheForm
    <3>3. Holds(g, s)
      <4>1. g.picker[s].verdict = VerdictOn(call)
        BY <1>4, <1>7
      <4>2. VerdictOn(call).compatible =>
              /\ Compatible(Chosen(g).engine, VerdictOn(call).details.format, Gpu(g))
              /\ Headroom(Gpu(g).memory, VerdictOn(call).details.bytes, Bytes(g, Other(s)))
                   >= MinUsableKv
        BY <3>2, FavourIsFounded
      <4> QED  BY <4>1, <4>2 DEF Holds
    <3> QED  BY <1>1, <1>2, <1>4, <1>7, <2>4, <3>1, <3>3 DEF Agrees
  <2>5. CASE o # s
    <3>1. calls[o].now = NoCall
      BY <1>1, <1>8, <2>2, <2>5
    <3>2. g.picker[o] = form.picker[o] /\ g.slot[o] = form.slot[o]
      BY <1>4, <1>7, <2>5
    <3>3. Agrees(form, o)
      BY <1>1, <2>2, <3>1, <3>2 DEF FormInv, ShownInv, IsForm, Settled
    <3>4. Dependencies(g, o) = Dependencies(form, o)
      <4>1. Dependencies(form, o) # NoCall
        BY <3>3 DEF Agrees
      <4> QED  BY <1>8, <2>2, <2>3, <4>1
    <3> QED  BY <3>2, <3>3, <3>4, AgreesStays
  <2> QED  BY <2>4, <2>5
<1>14. KeptInv'
  <2>1. SUFFICES ASSUME form.open, ~form.new, form.edits = 0
                 PROVE  /\ Stays
                        /\ g.useEmbedding = (saved.embedding # NoSlot)
                        /\ \A o \in Pickers :
                             /\ g.slot[o].repo = saved[o].repo
                             /\ g.picker[o].query = saved[o].repo
                             /\ (o \in Models(saved) /\ StillOffered(saved[o])) =>
                                  /\ g.slot[o].quant = saved[o].quant
                                  /\ g.picker[o].variant = saved[o].quant
                        /\ saved.maxLen # 0 => g.maxLenTouched /\ g.maxLen = saved.maxLen
                        /\ g.seqsTouched
                        /\ saved.seqs # 0 => g.seqs = saved.seqs
                        /\ (saved.tools # None \/ saved.thinks # None) =>
                             /\ g.parsersTouched
                             /\ g.tools = saved.tools /\ g.thinks = saved.thinks
    BY <1>1, <1>7 DEF KeptInv, Stays, Models
  <2>2. KeptInv /\ ~form.new /\ form.edits = 0 /\ form.open
    BY <2>1 DEF FormInv
  <2>3. /\ form.slot[s].repo = saved[s].repo /\ form.picker[s].query = saved[s].repo
        /\ (s \in Models(saved) /\ StillOffered(saved[s])) => form.picker[s].variant = saved[s].quant
    BY <1>1, <2>2 DEF KeptInv
  <2>4. g.slot[s].repo = saved[s].repo /\ g.picker[s].query = saved[s].repo
    BY <1>2, <1>4, <1>7, <2>3
  <2>5. ASSUME s \in Models(saved), StillOffered(saved[s])
        PROVE  g.slot[s].quant = saved[s].quant /\ g.picker[s].variant = saved[s].quant
    <3>1. call[1] = saved[s].repo /\ call[2] = saved[s].quant
      BY <1>2, <2>3, <2>5
    <3>2. ChosenFor(call) = saved[s].quant
      BY <1>1, <1>2, <2>5, <3>1, OfferedStays
    <3> QED  BY <1>4, <1>7, <3>2
  <2>6. ASSUME NEW o \in Pickers, o # s
        PROVE  /\ g.slot[o].repo = saved[o].repo
               /\ g.picker[o].query = saved[o].repo
               /\ (o \in Models(saved) /\ StillOffered(saved[o])) =>
                    /\ g.slot[o].quant = saved[o].quant
                    /\ g.picker[o].variant = saved[o].quant
    BY <1>4, <1>7, <2>2, <2>6 DEF KeptInv
  <2>7. \A o \in Pickers :
          /\ g.slot[o].repo = saved[o].repo
          /\ g.picker[o].query = saved[o].repo
          /\ (o \in Models(saved) /\ StillOffered(saved[o])) =>
               /\ g.slot[o].quant = saved[o].quant
               /\ g.picker[o].variant = saved[o].quant
    BY <2>4, <2>5, <2>6
  <2> QED  BY <1>5, <1>7, <2>2, <2>7 DEF KeptInv
<1> QED  BY <1>12, <1>13, <1>14 DEF FormInv

LEMMA AnsweredLateKeeps == ASSUME FormInv, NEW s \in Slots, AnsweredLate(s) PROVE FormInv'
<1>1. /\ IsForm(form) /\ s \in Pickers /\ form' = form /\ UNCHANGED <<hub, up, saved>>
      /\ calls' = [calls EXCEPT ![s].late = NoCall]
      /\ DOMAIN calls = Pickers /\ \A o \in Pickers : DOMAIN calls[o] = {"now", "late"}
  BY EditorAssumption DEF FormInv, ShapeInv, AnsweredLate, LateDropped, Closed, Pickers
<1>2. /\ DOMAIN calls' = Pickers
      /\ \A o \in Pickers : DOMAIN calls'[o] = {"now", "late"} /\ calls'[o].now = calls[o].now
  BY <1>1
<1>3. \A o \in Pickers : Dependencies(form, o)' = Dependencies(form, o)
  BY <1>1 DEF Dependencies, Shown, Gpu, Chosen, Format, Known, Bytes
<1>4. ShapeInv'
  BY <1>1, <1>2, <1>3 DEF FormInv, ShapeInv, CallsAreCurrent, Stays
<1>5. ShownInv'
  BY <1>1, <1>2, AgreesNext DEF FormInv, ShownInv, Settled
<1>6. KeptInv'
  BY <1>1 DEF FormInv, KeptInv, Stays, Models, StillOffered
<1> QED  BY <1>4, <1>5, <1>6 DEF FormInv

LEMMA FailsKeeps == ASSUME FormInv, NEW s \in Slots, Fails(s) PROVE FormInv'
<1> DEFINE p == [form.picker[s] EXCEPT !.verdict = NoVerdict]
           pickers == [form.picker EXCEPT ![s] = p]
           g == [form EXCEPT !.picker = pickers]
<1>1. /\ IsForm(form) /\ s \in Pickers /\ UNCHANGED <<hub, up, saved>> /\ up = TRUE
      /\ form' = [form EXCEPT !.picker[s].verdict = NoVerdict]
      /\ calls' = [calls EXCEPT ![s].now = NoCall]
      /\ DOMAIN calls = Pickers /\ \A o \in Pickers : DOMAIN calls[o] = {"now", "late"}
  BY EditorAssumption DEF FormInv, ShapeInv, Fails, Closed, Pickers
<1>2. DOMAIN form = DOMAIN NewForm /\ DOMAIN form.picker = Pickers
      /\ DOMAIN form.picker[s] = {"query", "variant", "verdict"}
      /\ {"open", "slot", "picker", "maxLen", "seqs", "edits"} \subseteq DOMAIN NewForm
  BY <1>1 DEF IsForm, NewForm
<1>3. form' = g
  BY <1>1, <1>2
<1>4. /\ DOMAIN p = {"query", "variant", "verdict"} /\ p.verdict = NoVerdict
      /\ p.query = form.picker[s].query /\ p.variant = form.picker[s].variant
  BY <1>2
<1> HIDE DEF p
<1>5. /\ DOMAIN g = DOMAIN NewForm /\ g.picker = pickers
      /\ \A x \in DOMAIN NewForm \ {"picker"} : g[x] = form[x]
  BY <1>2
<1>6. \A o \in Pickers : g.picker[o] = IF o = s THEN p ELSE form.picker[o]
  BY <1>2, <1>5
<1>7. DOMAIN g.picker = Pickers
  BY <1>2, <1>5
<1> HIDE DEF g, pickers
<1>8. /\ g.open = form.open /\ g.new = form.new /\ g.edits = form.edits /\ g.gpu = form.gpu
      /\ g.listed = form.listed /\ g.useEmbedding = form.useEmbedding /\ g.seqs = form.seqs
      /\ g.slot = form.slot /\ g.maxLen = form.maxLen
      /\ g.tools = form.tools /\ g.thinks = form.thinks
      /\ g.maxLenTouched = form.maxLenTouched /\ g.seqsTouched = form.seqsTouched
      /\ g.parsersTouched = form.parsersTouched
  <2> DEFINE kept == {"open", "new", "edits", "gpu", "listed", "useEmbedding", "seqs", "slot",
                      "maxLen", "tools", "thinks",
                      "maxLenTouched", "seqsTouched", "parsersTouched"}
  <2>1. kept \subseteq DOMAIN NewForm \ {"picker"}
    BY DEF NewForm
  <2>2. \A x \in kept : g[x] = form[x]
    BY <1>5, <2>1
  <2> QED  BY <2>2
<1>9. IsForm(g)
  BY <1>1, <1>4, <1>5, <1>6, <1>7, <1>8 DEF IsForm
<1>10. \A o \in Pickers : g.picker[o].query = form.picker[o].query
                          /\ g.picker[o].variant = form.picker[o].variant
  BY <1>4, <1>6
<1>11. /\ DOMAIN calls' = Pickers
       /\ \A o \in Pickers : DOMAIN calls'[o] = {"now", "late"}
                             /\ calls'[o].now = IF o = s THEN NoCall ELSE calls[o].now
  BY <1>1
<1>12. CallsAreCurrent'
  <2>1. \A o \in Pickers : Dependencies(g, o) = Dependencies(form, o)
    BY <1>8, <1>10, DependsOn
  <2>2. \A o \in Pickers : Dependencies(form, o)' = Dependencies(g, o)
    BY <1>1, <1>3, ZenonT(30) DEF Dependencies, Shown, Gpu, Chosen, Format, Known, Bytes
  <2> QED  BY <1>11, <2>1, <2>2 DEF FormInv, ShapeInv, CallsAreCurrent
<1>13. ShapeInv'
  BY <1>1, <1>3, <1>9, <1>11, <1>12 DEF FormInv, ShapeInv, Stays
<1>14. ShownInv'
  <2>1. SUFFICES ASSUME NEW o \in Pickers, Settled(o)'
                 PROVE  Agrees(g, o)
    BY <1>1, <1>3, AgreesNext DEF ShownInv
  <2>2. o # s
    BY <1>3, <1>4, <1>6, <2>1 DEF Settled, NoVerdict
  <2>3. Settled(o)
    BY <1>3, <1>6, <1>11, <2>1, <2>2 DEF Settled
  <2>4. Agrees(form, o)
    BY <1>1, <2>3 DEF FormInv, ShownInv, IsForm
  <2>5. Dependencies(g, o) = Dependencies(form, o)
    BY <1>8, <1>10, DependsOn
  <2>6. g.picker[o] = form.picker[o] /\ g.slot = form.slot
    BY <1>6, <1>8, <2>2
  <2> QED  BY <2>4, <2>5, <2>6, AgreesStays
<1>15. KeptInv'
  BY <1>1, <1>3, <1>8, <1>10 DEF FormInv, KeptInv, Stays, Models, StillOffered
<1> QED  BY <1>13, <1>14, <1>15 DEF FormInv

-----------------------------------------------------------------------------
(* Opening, closing, saving, and what happens meanwhile.                   *)

LEMMA NothingIsAsked ==
  ASSUME ShapeInv, ~form.open, NEW s \in Pickers
  PROVE  calls[s].now = NoCall
BY DEF ShapeInv, CallsAreCurrent, Dependencies

LEMMA NewFormIsForm == IsForm(NewForm)
<1>1. NewForm.maxLen \in Nat /\ NewForm.seqs \in Nat /\ NewForm.edits \in 0..MaxEdits
      /\ NewForm.open = TRUE
  BY EditorAssumption DEF NewForm
<1>2. \A s \in Pickers : NewForm.slot[s] = Empty /\ NewForm.picker[s] = PickerOf(NoSlot)
  BY DEF NewForm, Pickers
<1>3. DOMAIN NewForm.slot = Pickers /\ DOMAIN NewForm.picker = Pickers
  BY DEF NewForm, Pickers
<1>4. DOMAIN PickerOf(NoSlot) = {"query", "variant", "verdict"}
  BY DEF PickerOf
<1>5. Empty.verdict.details.bytes \in Nat /\ Empty.verdict.details.context \in Nat
  BY DEF Empty, NoVerdict, NoDetails
<1> QED  BY <1>1, <1>2, <1>3, <1>4, <1>5 DEF IsForm

LEMMA FormOfIsForm ==
  ASSUME NEW t, IsTemplate(t), Admitted(t)
  PROVE  LET f == FormOf(t) IN
         /\ IsForm(f) /\ ~f.new /\ f.edits = 0
         /\ f.useEmbedding = (t.embedding # NoSlot)
         /\ \A s \in Pickers :
              /\ f.slot[s].repo = t[s].repo /\ f.slot[s].quant = t[s].quant
              /\ f.picker[s].query = t[s].repo /\ f.picker[s].variant = t[s].quant
              /\ ~f.picker[s].verdict.known
              /\ f.slot[s].verdict = NoVerdict
         /\ t.maxLen # 0 => f.maxLenTouched /\ f.maxLen = t.maxLen
         /\ f.seqsTouched
         /\ t.seqs # 0 => f.seqs = t.seqs
         /\ (t.tools # None \/ t.thinks # None) =>
              f.parsersTouched /\ f.tools = t.tools /\ f.thinks = t.thinks
<1> DEFINE f == FormOf(t)
           slots == [s \in Pickers |-> SlotOf(t[s])]
           pickers == [s \in Pickers |-> PickerOf(t[s])]
           embeds == t.embedding # NoSlot
           parses == t.tools # None \/ t.thinks # None
           limits == t.maxLen # 0
           count == IF t.seqs = 0 THEN 64 ELSE t.seqs
<1>1. DOMAIN NewForm.slot = Pickers /\ DOMAIN NewForm.picker = Pickers
  BY DEF NewForm, Pickers
<1>2. f = [NewForm EXCEPT
             !.new = FALSE, !.gpu = t.gpu, !.ownFallbacks = TRUE, !.fallbacks = t.fallbacks,
             !.slot = slots, !.picker = pickers,
             !.useEmbedding = embeds,
             !.sleep = t.sleep, !.tools = t.tools, !.thinks = t.thinks,
             !.parsersTouched = parses,
             !.maxLen = t.maxLen, !.maxLenTouched = limits,
             !.seqs = count, !.seqsTouched = TRUE]
  <2>1. {"slot", "picker"} \subseteq DOMAIN NewForm
    BY DEF NewForm
  <2> QED  BY <1>1, <2>1 DEF FormOf
<1> HIDE DEF slots, pickers, embeds, parses, limits, count, f
<1>3. /\ DOMAIN f = DOMAIN NewForm /\ f.open = TRUE /\ f.new = FALSE /\ f.edits = 0
      /\ f.slot = slots /\ f.picker = pickers /\ f.useEmbedding = embeds
      /\ f.tools = t.tools /\ f.thinks = t.thinks /\ f.parsersTouched = parses
      /\ f.maxLen = t.maxLen /\ f.maxLenTouched = limits
      /\ f.seqs = count /\ f.seqsTouched = TRUE
  BY <1>2, ZenonT(30) DEF NewForm
<1>4. DOMAIN slots = Pickers /\ DOMAIN pickers = Pickers
      /\ \A s \in Pickers : slots[s] = SlotOf(t[s]) /\ pickers[s] = PickerOf(t[s])
  BY DEF slots, pickers
<1>5. ASSUME NEW slot
      PROVE  /\ DOMAIN SlotOf(slot) = DOMAIN Empty
             /\ DOMAIN PickerOf(slot) = {"query", "variant", "verdict"}
             /\ SlotOf(slot).repo = slot.repo /\ SlotOf(slot).quant = slot.quant
             /\ SlotOf(slot).verdict = NoVerdict
             /\ PickerOf(slot).query = slot.repo /\ PickerOf(slot).variant = slot.quant
             /\ PickerOf(slot).verdict = NoVerdict
  BY DEF SlotOf, PickerOf, Empty
<1>6. NoVerdict.details.bytes \in Nat /\ NoVerdict.details.context \in Nat /\ ~NoVerdict.known
  BY DEF NoVerdict, NoDetails
<1>7. t.maxLen \in Nat /\ t.seqs \in Nat
  BY DEF Admitted
<1>8. IsForm(f)
  BY <1>3, <1>4, <1>5, <1>6, <1>7, EditorAssumption DEF IsForm, count
<1>9. f.useEmbedding = (t.embedding # NoSlot)
  BY <1>3, Zenon DEF embeds
<1>10. \A s \in Pickers :
          /\ f.slot[s].repo = t[s].repo /\ f.slot[s].quant = t[s].quant
          /\ f.picker[s].query = t[s].repo /\ f.picker[s].variant = t[s].quant
          /\ ~f.picker[s].verdict.known
          /\ f.slot[s].verdict = NoVerdict
  BY <1>3, <1>4, <1>5, <1>6
<1>11. /\ t.maxLen # 0 => f.maxLenTouched /\ f.maxLen = t.maxLen
       /\ (t.tools # None \/ t.thinks # None) =>
            f.parsersTouched /\ f.tools = t.tools /\ f.thinks = t.thinks
       /\ ~f.new /\ f.seqsTouched
  BY <1>3 DEF limits, parses
<1>12. t.seqs # 0 => f.seqs = t.seqs
  BY <1>3 DEF count
<1> QED  BY <1>3, <1>8, <1>9, <1>10, <1>11, <1>12 DEF f

LEMMA OpenNewKeeps == ASSUME FormInv, OpenNew PROVE FormInv'
<1>1. /\ form' = NewForm /\ UNCHANGED <<hub, up, saved, calls>> /\ up = TRUE /\ ~form.open
  BY DEF FormInv, ShapeInv, OpenNew
<1>2. \A s \in Pickers : calls[s].now = NoCall
  BY <1>1, NothingIsAsked DEF FormInv
<1>3. ShapeInv'
  BY <1>1, <1>2, NewFormIsForm DEF FormInv, ShapeInv, CallsAreCurrent, Stays
<1>4. NewForm.new = TRUE /\ \A s \in Pickers : NewForm.picker[s].verdict = NoVerdict
  BY DEF NewForm, Pickers, PickerOf
<1>5. ShownInv'
  BY <1>1, <1>4 DEF ShownInv, Settled, NoVerdict
<1>6. KeptInv'
  BY <1>1, <1>4 DEF KeptInv
<1> QED  BY <1>3, <1>5, <1>6 DEF FormInv

LEMMA EditOpens == ASSUME FormInv, Edit PROVE FormInv'
<1>1. /\ form' = FormOf(saved) /\ UNCHANGED <<hub, up, saved, calls>> /\ up = TRUE /\ ~form.open
      /\ Stays /\ IsTemplate(saved) /\ Admitted(saved)
  BY DEF FormInv, ShapeInv, Edit, Stays
<1>2. \A s \in Pickers : calls[s].now = NoCall
  BY <1>1, NothingIsAsked DEF FormInv
<1> DEFINE f == FormOf(saved)
<1>3. /\ IsForm(f) /\ ~f.new /\ f.edits = 0
      /\ f.useEmbedding = (saved.embedding # NoSlot)
      /\ \A s \in Pickers :
           /\ f.slot[s].repo = saved[s].repo /\ f.slot[s].quant = saved[s].quant
           /\ f.picker[s].query = saved[s].repo /\ f.picker[s].variant = saved[s].quant
           /\ ~f.picker[s].verdict.known
      /\ saved.maxLen # 0 => f.maxLenTouched /\ f.maxLen = saved.maxLen
      /\ f.seqsTouched
      /\ saved.seqs # 0 => f.seqs = saved.seqs
      /\ (saved.tools # None \/ saved.thinks # None) =>
           f.parsersTouched /\ f.tools = saved.tools /\ f.thinks = saved.thinks
  BY <1>1, FormOfIsForm
<1>4. form' = f
  BY <1>1
<1> HIDE DEF f
<1>5. ShapeInv'
  BY <1>1, <1>2, <1>3, <1>4 DEF FormInv, ShapeInv, CallsAreCurrent, Stays
<1>6. ShownInv'
  BY <1>3, <1>4 DEF ShownInv, Settled
<1>7. KeptInv'
  BY <1>1, <1>3, <1>4 DEF KeptInv, Stays, Models, StillOffered
<1> QED  BY <1>5, <1>6, <1>7 DEF FormInv

(* With no form open only the template has to be in shape. *)
LEMMA ClosedKeeps ==
  ASSUME hub' \in Range(Hubs), up' \in BOOLEAN, form' = Closed, calls' = NoCalls,
         Stays' => Admitted(saved') /\ IsTemplate(saved')
  PROVE  FormInv'
<1>1. /\ DOMAIN NoCalls = Pickers
      /\ \A s \in Pickers : DOMAIN NoCalls[s] = {"now", "late"} /\ NoCalls[s].now = NoCall
  BY DEF NoCalls, Pickers
<1>2. ShapeInv'
  BY <1>1 DEF ShapeInv, CallsAreCurrent
<1>3. ~form'.open
  BY DEF Closed
<1> QED  BY <1>2, <1>3 DEF FormInv, ShownInv, KeptInv

LEMMA CancelKeeps == ASSUME FormInv, Cancel PROVE FormInv'
BY ClosedKeeps DEF FormInv, ShapeInv, Cancel, Stays

LEMMA BodyIsTemplate ==
  ASSUME NEW f
  PROVE  IsTemplate(Body(f))
<1> DEFINE Slot(s) == IF f.slot[s].repo = None THEN NoSlot
                      ELSE [repo |-> f.slot[s].repo, quant |-> f.slot[s].quant, fraction |-> 0]
<1>1. Body(f).chat = Slot("chat")
      /\ Body(f).embedding = IF f.useEmbedding THEN Slot("embedding") ELSE NoSlot
  BY DEF Body
<1>2. \A s \in Pickers : DOMAIN Slot(s) = DOMAIN NoSlot
  BY DEF NoSlot
<1>3. DOMAIN Body(f).chat = DOMAIN NoSlot /\ DOMAIN Body(f).embedding = DOMAIN NoSlot
  <2> HIDE DEF Slot
  <2> QED  BY <1>1, <1>2 DEF Pickers
<1>4. DOMAIN Body(f) = {"engine", "image", "chat", "embedding", "gpu", "fallbacks", "maxLen", "seqs",
                 "sleep", "volume", "tools", "thinks", "args", "env"}
  BY DEF Body
<1> QED  BY <1>3, <1>4 DEF IsTemplate

LEMMA SaveKeeps == ASSUME FormInv, Save PROVE FormInv'
<1>1. IsTemplate(Body(form)) /\ Admitted(Body(form)) /\ saved' = Body(form)
  BY BodyIsTemplate DEF Save
<1>2. form' = Closed /\ calls' = NoCalls /\ hub' = hub /\ up' = up
  BY DEF Save
<1> QED  BY <1>1, <1>2, ClosedKeeps DEF FormInv, ShapeInv

LEMMA DeleteKeeps == ASSUME FormInv, Delete PROVE FormInv'
<1>1. /\ saved' = NoTemplate /\ UNCHANGED <<hub, up, form, calls>> /\ ~form.open
  BY DEF Delete
<1>2. \A s \in Pickers : calls[s].now = NoCall
  BY <1>1, NothingIsAsked DEF FormInv
<1>3. ShapeInv'
  BY <1>1, <1>2 DEF FormInv, ShapeInv, CallsAreCurrent, Stays
<1> QED  BY <1>1, <1>3 DEF FormInv, ShownInv, KeptInv

(* Another state of the hub has the same names. *)
LEMMA HubChangesKeeps == ASSUME FormInv, HubChanges PROVE FormInv'
<1>1. UNCHANGED <<up, saved, form, calls>>
  BY DEF HubChanges
<1>2. hub' \in Range(Hubs)
  <2>1. PICK i \in 1..Len(Hubs) - 1 : hub' = Hubs[i + 1]
    BY DEF HubChanges
  <2>2. i + 1 \in DOMAIN Hubs
    BY EditorAssumption
  <2> QED  BY <2>1, <2>2 DEF Range
<1>3. DOMAIN hub' = DOMAIN hub
  BY <1>2, EditorAssumption DEF FormInv, ShapeInv
<1>4. \A s : Dependencies(form, s)' = Dependencies(form, s)
  BY <1>1, <1>3 DEF Dependencies, Shown, Gpu, Chosen, Format, Known, Bytes
<1>5. ShapeInv'
  BY <1>1, <1>2, <1>4 DEF FormInv, ShapeInv, CallsAreCurrent, Stays
<1>6. ShownInv'
  BY <1>1, <1>3, AgreesNext DEF FormInv, ShownInv, Settled
<1>7. KeptInv'
  BY <1>1 DEF FormInv, KeptInv, Stays, Models, StillOffered
<1> QED  BY <1>5, <1>6, <1>7 DEF FormInv

(* The repair changes the arguments and the number of requests only. *)
LEMMA RepairedKeeps ==
  ASSUME NEW t, IsTemplate(t), Admitted(t)
  PROVE  /\ IsTemplate(Repaired(t)) /\ Admitted(Repaired(t))
         /\ \A x \in DOMAIN t \ {"args", "seqs"} : Repaired(t)[x] = t[x]
<1> DEFINE r == RepairContext(t)
           q == RepairTools(r)
           seqs == IF t.seqs = 0 THEN 4 ELSE Min({t.seqs, Preset["llamacpp"].concurrency})
<1>1. seqs \in Nat /\ t.seqs \in Nat
  <2>1. Preset["llamacpp"].concurrency = 4
    BY DEF Preset
  <2>2. t.seqs \in Nat
    BY DEF Admitted
  <2> QED  BY <2>1, <2>2, SmallerOfTwo
<1>2. DOMAIN r = DOMAIN t /\ (\A x \in DOMAIN t \ {"args", "seqs"} : r[x] = t[x]) /\ r.seqs \in Nat
  <2>1. CASE r = t
    BY <1>1, <2>1
  <2>2. CASE r # t
    <3> DEFINE k == [t EXCEPT !.args = LlamacppChatArgs, !.seqs = seqs]
    <3>1. r = k
      <4>1. "args" \in DOMAIN t /\ "seqs" \in DOMAIN t
        BY DEF IsTemplate
      <4>2. r = [t EXCEPT !.args = LlamacppChatArgs,
                   !.seqs = IF @ = 0 THEN 4 ELSE Min({@, Preset["llamacpp"].concurrency})]
        BY <2>2 DEF RepairContext
      <4> QED  BY <4>1, <4>2
    <3>2. "args" \in DOMAIN t /\ "seqs" \in DOMAIN t
      BY DEF IsTemplate
    <3> HIDE DEF seqs
    <3>3. DOMAIN k = DOMAIN t /\ (\A x \in DOMAIN t \ {"args", "seqs"} : k[x] = t[x]) /\ k.seqs = seqs
      BY <3>2
    <3> QED  BY <1>1, <3>1, <3>3
  <2> QED  BY <2>1, <2>2
<1> HIDE DEF r
<1>3. DOMAIN q = DOMAIN r /\ (\A x \in DOMAIN r \ {"args"} : q[x] = r[x])
  BY DEF RepairTools
<1>4. Repaired(t) = q
  BY DEF Repaired, r
<1> HIDE DEF q
<1>5. DOMAIN q = DOMAIN t /\ (\A x \in DOMAIN t \ {"args", "seqs"} : q[x] = t[x]) /\ q.seqs \in Nat
  <2>1. "seqs" \in DOMAIN t
    BY DEF IsTemplate
  <2> QED  BY <1>2, <1>3, <2>1
<1>6. q.chat = t.chat /\ q.embedding = t.embedding /\ q.sleep = t.sleep /\ q.volume = t.volume
      /\ q.maxLen = t.maxLen
  <2>1. {"chat", "embedding", "sleep", "volume", "maxLen"} \subseteq DOMAIN t \ {"args", "seqs"}
    BY DEF IsTemplate
  <2> QED  BY <1>5, <2>1
<1>7. \A s \in {"chat", "embedding"} : q[s] = t[s]
  BY <1>6
<1>8. IsTemplate(q)
  BY <1>5, <1>6 DEF IsTemplate
<1>9. Admitted(q)
  BY <1>5, <1>6, <1>7 DEF Admitted
<1> QED  BY <1>4, <1>5, <1>8, <1>9

LEMMA ServiceStartsKeeps == ASSUME FormInv, ServiceStarts PROVE FormInv'
<1>1. ~up /\ UNCHANGED <<hub, form, calls>> /\ up' = TRUE
      /\ saved' = IF saved = NoTemplate THEN saved ELSE Repaired(saved)
  BY DEF ServiceStarts
<1>2. form = Closed /\ ~form.open
  BY <1>1 DEF FormInv, ShapeInv, Closed
<1>3. \A s \in Pickers : calls[s].now = NoCall
  BY <1>2, NothingIsAsked DEF FormInv
<1>4. Stays' => Admitted(saved') /\ IsTemplate(saved')
  BY <1>1, RepairedKeeps DEF FormInv, ShapeInv, Stays
<1>5. ShapeInv'
  BY <1>1, <1>2, <1>3, <1>4 DEF FormInv, ShapeInv, CallsAreCurrent
<1> QED  BY <1>1, <1>2, <1>5 DEF FormInv, ShownInv, KeptInv

LEMMA ServiceStopsKeeps == ASSUME FormInv, ServiceStops PROVE FormInv'
<1>1. ~form.open /\ UNCHANGED <<hub, saved, form, calls>> /\ up' = FALSE
  BY DEF ServiceStops
<1>2. form = Closed
  BY <1>1 DEF FormInv, ShapeInv, IsForm
<1>3. \A s \in Pickers : calls[s].now = NoCall
  BY <1>1, NothingIsAsked DEF FormInv
<1>4. ShapeInv'
  BY <1>1, <1>2, <1>3 DEF FormInv, ShapeInv, CallsAreCurrent, Stays
<1> QED  BY <1>1, <1>4 DEF FormInv, ShownInv, KeptInv

LEMMA UnchangedKeeps == ASSUME FormInv, UNCHANGED vars PROVE FormInv'
<1>1. UNCHANGED <<hub, up, saved, form, calls>>
  BY DEF vars
<1>2. \A s : Dependencies(form, s)' = Dependencies(form, s)
  BY <1>1 DEF Dependencies, Shown, Gpu, Chosen, Format, Known, Bytes
<1>3. ShapeInv'
  BY <1>1, <1>2 DEF FormInv, ShapeInv, CallsAreCurrent, Stays
<1>4. ShownInv'
  BY <1>1, AgreesNext DEF FormInv, ShownInv, Settled
<1>5. KeptInv'
  BY <1>1 DEF FormInv, KeptInv, Stays, Models, StillOffered
<1> QED  BY <1>3, <1>4, <1>5 DEF FormInv

LEMMA FormInvHoldsFirst == Init => FormInv
<1> SUFFICES ASSUME Init PROVE FormInv
  OBVIOUS
<1>1. hub \in Range(Hubs)
  BY EditorAssumption DEF Init, Range
<1>2. Stays => Admitted(saved) /\ IsTemplate(saved)
  BY EditorAssumption DEF Init, Stays
<1>3. /\ DOMAIN calls = Pickers
      /\ \A s \in Pickers : DOMAIN calls[s] = {"now", "late"} /\ calls[s].now = NoCall
  BY DEF Init, NoCalls, Pickers
<1>4. ShapeInv
  BY <1>1, <1>2, <1>3 DEF Init, ShapeInv, CallsAreCurrent
<1>5. ~form.open
  BY DEF Init, Closed
<1> QED  BY <1>4, <1>5 DEF FormInv, ShownInv, KeptInv

LEMMA FormInvIsKept == FormInv /\ [Next]_vars => FormInv'
<1> SUFFICES ASSUME FormInv, [Next]_vars PROVE FormInv'
  OBVIOUS
<1>1. CASE OpenNew        BY <1>1, OpenNewKeeps
<1>2. CASE Edit           BY <1>2, EditOpens
<1>3. CASE Cancel         BY <1>3, CancelKeeps
<1>4. CASE GpusArrive     BY <1>4, GpusArriveKeeps
<1>5. CASE ChooseGpu      BY <1>5, ChooseGpuKeeps
<1>6. CASE ToggleFallback BY <1>6, ToggleFallbackKeeps
<1>7. CASE ToggleEmbedding BY <1>7, ToggleEmbeddingKeeps
<1>8. CASE ChooseSleep    BY <1>8, ChooseSleepKeeps
<1>9. CASE TypeLength     BY <1>9, TypeLengthKeeps
<1>10. CASE TypeCount     BY <1>10, TypeCountKeeps
<1>11. CASE TypeParser    BY <1>11, TypeParserKeeps
<1>12. ASSUME NEW s \in Slots, Type(s) \/ PickVariant(s) \/ Answered(s) \/ AnsweredLate(s) \/ Fails(s)
       PROVE  FormInv'
  BY <1>12, TypeKeeps, PickVariantKeeps, AnsweredKeeps, AnsweredLateKeeps, FailsKeeps
<1>13. CASE Save          BY <1>13, SaveKeeps
<1>14. CASE Delete        BY <1>14, DeleteKeeps
<1>15. CASE HubChanges    BY <1>15, HubChangesKeeps
<1>16. CASE ServiceStarts BY <1>16, ServiceStartsKeeps
<1>17. CASE ServiceStops  BY <1>17, ServiceStopsKeeps
<1>18. CASE UNCHANGED vars BY <1>18, UnchangedKeeps
<1> QED
  BY <1>1, <1>2, <1>3, <1>4, <1>5, <1>6, <1>7, <1>8, <1>9, <1>10, <1>11, <1>12, <1>13, <1>14,
     <1>15, <1>16, <1>17, <1>18 DEF Next

(* The invariant of the form: its shape, what it was told, what it keeps. *)
THEOREM FormInvariant == Spec => []FormInv
<1>1. Init => FormInv
  BY FormInvHoldsFirst
<1>2. FormInv /\ [Next]_vars => FormInv'
  BY FormInvIsKept
<1> QED  BY <1>1, <1>2, PTL DEF Spec

-----------------------------------------------------------------------------
(* What follows from it.                                                   *)

(* The store holds what the schema admits, the numbers of the form are     *)
(* numbers, and a call whose answer will be used is about the form as it   *)
(* is now (ModelPicker.tsx:72-114).                                        *)
THEOREM TypeCorrect == Spec => []TypeOK
<1>1. FormInv => TypeOK
  BY DEF FormInv, ShapeInv, TypeOK, CallsAreCurrent, Pickers, IsForm, Closed
<1> QED  BY <1>1, FormInvariant, PTL

LEMMA SavesIsSave ==
  ASSUME [Next]_vars, Saves
  PROVE  Save
<1>1. form.open /\ ~form'.open /\ saved' # saved
  BY DEF Saves
<1>2. saved' # saved /\ form' # form
  BY <1>1
<1> QED
  BY <1>1, <1>2 DEF Next, vars, OpenNew, Edit, Cancel, GpusArrive, ChooseGpu, ToggleFallback,
     ToggleEmbedding, ChooseSleep, TypeLength, TypeCount, TypeParser, Type, PickVariant, Answered,
     AnsweredLate, Fails, Delete, HubChanges, ServiceStarts, ServiceStops, Edits

LEMMA BodySlots ==
  ASSUME NEW f, NEW s \in Pickers
  PROVE  LET shown == s = "chat" \/ f.useEmbedding IN
         /\ Body(f)[s] # NoSlot => /\ Body(f)[s].repo = f.slot[s].repo
                                   /\ Body(f)[s].quant = f.slot[s].quant
         /\ (shown /\ f.slot[s].repo # None) => /\ Body(f)[s].repo = f.slot[s].repo
                                                /\ Body(f)[s].quant = f.slot[s].quant
<1> DEFINE Slot(o) == IF f.slot[o].repo = None THEN NoSlot
                      ELSE [repo |-> f.slot[o].repo, quant |-> f.slot[o].quant, fraction |-> 0]
<1>1. Body(f).chat = Slot("chat")
      /\ Body(f).embedding = IF f.useEmbedding THEN Slot("embedding") ELSE NoSlot
  BY DEF Body
<1>2. \A o \in Pickers : Slot(o) # NoSlot =>
         Slot(o).repo = f.slot[o].repo /\ Slot(o).quant = f.slot[o].quant
  OBVIOUS
<1>3. \A o \in Pickers : f.slot[o].repo # None =>
         Slot(o).repo = f.slot[o].repo /\ Slot(o).quant = f.slot[o].quant
  OBVIOUS
<1> HIDE DEF Slot
<1>4. CASE s = "chat"
  BY <1>1, <1>2, <1>3, <1>4
<1>5. CASE s = "embedding"
  BY <1>1, <1>2, <1>3, <1>5
<1> QED  BY <1>4, <1>5 DEF Pickers

(* What is saved is what the picker shows, whatever answers come late      *)
(* (ModelPicker.tsx:72-114, Templates.tsx:363-405).                        *)
THEOREM ShownIsSavedAlways == Spec => ShownIsSaved
<1> DEFINE Step2 == Saves =>
             \A s \in Models(saved') :
               Settled(s) => /\ saved'[s].repo = form.picker[s].query
                             /\ saved'[s].quant = form.picker[s].variant
<1>1. ASSUME FormInv, [Next]_vars PROVE Step2
  <2>1. SUFFICES ASSUME Saves, NEW s \in Models(saved'), Settled(s)
                 PROVE  /\ saved'[s].repo = form.picker[s].query
                        /\ saved'[s].quant = form.picker[s].variant
    OBVIOUS
  <2>2. saved' = Body(form) /\ form.open
    BY <1>1, <2>1, SavesIsSave DEF Save
  <2>3. s \in Pickers /\ saved'[s] # NoSlot
    BY <2>1 DEF Models, Pickers
  <2>4. Body(form)[s].repo = form.slot[s].repo /\ Body(form)[s].quant = form.slot[s].quant
    BY <2>2, <2>3, BodySlots
  <2>5. form.slot[s].repo = form.picker[s].query /\ form.slot[s].quant = form.picker[s].variant
    BY <1>1, <2>1, <2>2, <2>3 DEF FormInv, ShownInv, Agrees
  <2> QED  BY <2>2, <2>4, <2>5
<1>2. FormInv /\ [Next]_vars => [Step2]_vars
  BY <1>1
<1> QED  BY <1>2, FormInvariant, PTL DEF Spec, ShownIsSaved

(* A template that is opened and saved keeps its models, its builds, its   *)
(* numbers and its parsers (Templates.tsx:171-232, variants.ts:1-9).       *)
THEOREM ReopenKeepsAlways == Spec => ReopenKeeps
<1> DEFINE Kept ==
             /\ \A s \in Models(saved) :
                  /\ saved'[s].repo = saved[s].repo
                  /\ (\A h \in Range(Hubs) : Inspect(h[saved[s].repo]).grouped
                                        => Offers(h[saved[s].repo], saved[s].quant))
                       => saved'[s].quant = saved[s].quant
             /\ saved.maxLen # 0 => saved'.maxLen = saved.maxLen
             /\ saved.seqs # 0 => saved'.seqs = saved.seqs
             /\ (saved.engine = "vllm" /\ (saved.tools # None \/ saved.thinks # None))
                  => saved'.tools = saved.tools /\ saved'.thinks = saved.thinks
           Step2 == (Saves /\ ~form.new /\ form.edits = 0 /\ saved'.engine = saved.engine) => Kept
<1>1. ASSUME FormInv, [Next]_vars PROVE Step2
  <2>1. SUFFICES ASSUME Saves, ~form.new, form.edits = 0, saved'.engine = saved.engine
                 PROVE  Kept
    OBVIOUS
  <2>2. saved' = Body(form) /\ form.open
    BY <1>1, <2>1, SavesIsSave DEF Save
  <2>3. /\ Stays
        /\ form.useEmbedding = (saved.embedding # NoSlot)
        /\ \A s \in Pickers :
             /\ form.slot[s].repo = saved[s].repo
             /\ (s \in Models(saved) /\ StillOffered(saved[s])) => form.slot[s].quant = saved[s].quant
        /\ saved.maxLen # 0 => form.maxLen = saved.maxLen
        /\ form.seqsTouched
        /\ saved.seqs # 0 => form.seqs = saved.seqs
        /\ (saved.tools # None \/ saved.thinks # None) =>
             form.tools = saved.tools /\ form.thinks = saved.thinks
    BY <1>1, <2>1, <2>2 DEF FormInv, KeptInv
  <2>4. Admitted(saved)
    BY <1>1, <2>3 DEF FormInv, ShapeInv
  <2>5. ASSUME NEW s \in Models(saved)
        PROVE  /\ saved'[s].repo = saved[s].repo
               /\ StillOffered(saved[s]) => saved'[s].quant = saved[s].quant
    <3>1. s \in Pickers /\ saved[s] # NoSlot
      BY DEF Models, Pickers
    <3>2. form.slot[s].repo # None
      BY <2>3, <2>4, <3>1 DEF Admitted, Pickers
    <3>3. s = "chat" \/ form.useEmbedding
      BY <2>3, <3>1 DEF Pickers
    <3>4. Body(form)[s].repo = form.slot[s].repo /\ Body(form)[s].quant = form.slot[s].quant
      BY <3>1, <3>2, <3>3, BodySlots
    <3> QED  BY <2>2, <2>3, <3>1, <3>4
  <2>6. /\ saved'.maxLen = form.maxLen /\ saved'.seqs = Sequences(form)
        /\ saved'.engine = Chosen(form).engine
        /\ saved'.engine = "vllm" => saved'.tools = form.tools /\ saved'.thinks = form.thinks
    BY <2>2 DEF Body
  <2>7. Sequences(form) = form.seqs
    BY <2>3 DEF Sequences
  <2> QED  BY <2>1, <2>3, <2>5, <2>6, <2>7 DEF StillOffered
<1>2. FormInv /\ [Next]_vars => [Step2]_vars
  BY <1>1
<1> QED  BY <1>2, FormInvariant, PTL DEF Spec, ReopenKeeps

-----------------------------------------------------------------------------
(* The size a form counts with.                                            *)

(* No repository of builds holds nothing but drafts.                       *)
SomeBuildIsNoDraft ==
  \A h \in Range(Hubs) : \A name \in DOMAIN h :
    LET variants == Inspect(h[name]).variants IN
    variants # {} => DefaultVariants(variants) # {}

(* The size is that of one of the builds, whose tag the picker takes.      *)
LEMMA InspectSizesABuild ==
  ASSUME NEW repo, IsRepository(repo), Inspect(repo).variants # {},
         DefaultVariants(Inspect(repo).variants) # {}
  PROVE  /\ Inspect(repo).grouped
         /\ \E v \in Inspect(repo).variants : v.bytes = Inspect(repo).bytes
<1> DEFINE variants == GgufVariants(repo.files)
           pool == DefaultVariants(variants)
           size == IF pool = {} THEN 0 ELSE LastOf(pool).bytes
           d == [NoDetails EXCEPT !.format = "gguf", !.variants = variants, !.grouped = TRUE,
                   !.accessible = TRUE, !.bytes = size]
<1>1. Inspect(repo) = d
  <2>1. repo.accessible
    BY NothingIsKnown DEF Inspect
  <2>2. DetectFormat(repo) = "gguf"
    <3>1. SUFFICES ASSUME DetectFormat(repo) # "gguf" PROVE FALSE
      OBVIOUS
    <3> DEFINE k == [NoDetails EXCEPT !.format = DetectFormat(repo), !.accessible = TRUE,
                       !.bytes = SizeOf(repo.files, DOMAIN repo.files),
                       !.tools = ToolCallParserFor(repo.chatTemplate),
                       !.thinks = ReasoningParserFor(repo.chatTemplate),
                       !.context = repo.context]
    <3>2. Inspect(repo) = k
      BY <2>1, <3>1 DEF Inspect
    <3>3. k.variants = {}
      BY DEF NoDetails
    <3> HIDE DEF k
    <3> QED  BY <3>2, <3>3
  <2> QED  BY <2>1, <2>2 DEF Inspect
<1>2. d.variants = variants /\ d.grouped = TRUE /\ d.bytes = size
  BY DEF NoDetails
<1>3. Ordered(variants)
  BY BuildsAreOrdered
<1> HIDE DEF d, variants
<1>4. pool # {}
  BY <1>1, <1>2
<1>5. pool \in SUBSET variants
  BY DEF DefaultVariants
<1> HIDE DEF pool
<1>6. LastOf(pool) \in pool
  BY <1>3, <1>4, <1>5, SomeAreOrdered, FirstAndLast
<1>7. size = LastOf(pool).bytes
  BY <1>4
<1> HIDE DEF size
<1> QED  BY <1>1, <1>2, <1>5, <1>6, <1>7

LEMMA ChosenIsSized ==
  ASSUME SomeBuildIsNoDraft, hub \in Range(Hubs), NEW call, call[1] \in DOMAIN hub,
         Told(call).variants # {}
  PROVE  \E v \in Told(call).variants : v.tag = ChosenFor(call) /\ v.bytes = Told(call).bytes
<1> DEFINE repo == hub[call[1]]
           d == Inspect(repo)
           asked == {v \in d.variants : v.tag = call[2]}
<1>1. IsRepository(repo)
  BY EditorAssumption DEF Range
<1>2. DetailsOk(d)
  BY RepositoriesAreOk
<1>3. Told(call).variants = d.variants /\ Told(call).grouped = d.grouped
  BY <1>2, SizedIsOk DEF Told
<1>4. d.grouped /\ \E v \in d.variants : v.bytes = d.bytes
  <2>1. d.variants # {} /\ DefaultVariants(d.variants) # {}
    BY <1>3 DEF SomeBuildIsNoDraft
  <2> HIDE DEF repo
  <2> QED  BY <1>1, <2>1, InspectSizesABuild
<1>5. Ordered(d.variants)
  BY <1>2 DEF DetailsOk
<1> HIDE DEF d
<1>6. CASE asked # {}
  <2>1. asked \in SUBSET d.variants
    OBVIOUS
  <2>2. FirstOf(asked) \in asked
    <3> HIDE DEF asked
    <3> QED  BY <1>5, <1>6, <2>1, SomeAreOrdered, FirstAndLast
  <2>3. Told(call).bytes = FirstOf(asked).bytes
    <3>1. Told(call) = [d EXCEPT !.bytes = FirstOf(asked).bytes]
      BY <1>6 DEF Told, Sized, d
    <3>2. "bytes" \in DOMAIN d
      BY <1>2 DEF DetailsOk, NoDetails
    <3> HIDE DEF asked
    <3> QED  BY <3>1, <3>2
  <2>4. ChosenFor(call) = call[2]
    BY <1>3, <1>6 DEF ChosenFor, ChooseVariant
  <2> QED  BY <1>3, <2>2, <2>3, <2>4
<1>7. CASE asked = {}
  <2> DEFINE sized == {v \in d.variants : v.bytes = d.bytes}
  <2>1. Told(call) = d
    BY <1>7 DEF Told, Sized, d
  <2>2. sized # {} /\ sized \in SUBSET d.variants
    BY <1>4
  <2>3. FirstOf(sized) \in sized
    <3> HIDE DEF sized
    <3> QED  BY <1>5, <2>2, SomeAreOrdered, FirstAndLast
  <2>4. ChosenFor(call) = DefaultVariantOf(d)
    BY <1>4, <1>7, <2>1 DEF ChosenFor, ChooseVariant
  <2>5. DefaultVariantOf(d) = FirstOf(sized).tag
    BY <2>2 DEF DefaultVariantOf
  <2> QED  BY <2>1, <2>3, <2>4, <2>5
<1> QED  BY <1>6, <1>7

(* SizedAsChosen, whichever pickers are used. *)
SizedInv ==
  form.open =>
    \A s \in Pickers :
      LET slot == form.slot[s] details == slot.verdict.details IN
      details.variants # {} =>
        \E v \in details.variants : v.tag = slot.quant /\ v.bytes = details.bytes

LEMMA SizedIsKept ==
  ASSUME SomeBuildIsNoDraft, FormInv, SizedInv, [Next]_vars
  PROVE  SizedInv'
<1>1. ASSUME form.open, form'.slot = form.slot PROVE SizedInv'
  BY <1>1 DEF SizedInv
<1>2. ASSUME \A s \in Pickers : form'.slot[s].verdict = NoVerdict PROVE SizedInv'
  BY <1>2 DEF SizedInv, NoVerdict, NoDetails
<1>3. ASSUME ~form'.open PROVE SizedInv'
  BY <1>3 DEF SizedInv
<1>4. CASE OpenNew
  <2>1. \A s \in Pickers : NewForm.slot[s].verdict = NoVerdict
    BY DEF NewForm, Pickers, Empty
  <2> QED  BY <1>2, <1>4, <2>1 DEF OpenNew
<1>5. CASE Edit
  <2>1. form' = FormOf(saved) /\ IsTemplate(saved) /\ Admitted(saved)
    BY <1>5 DEF Edit, FormInv, ShapeInv, Stays
  <2> QED  BY <1>2, <2>1, FormOfIsForm
<1>6. CASE ChooseGpu \/ ToggleFallback \/ ToggleEmbedding \/ ChooseSleep \/ TypeLength
             \/ TypeCount \/ TypeParser \/ GpusArrive
  <2>1. form.open
    BY <1>6 DEF ChooseGpu, ToggleFallback, ToggleEmbedding, ChooseSleep, TypeLength,
       TypeCount, TypeParser, GpusArrive
  <2>2. form'.slot = form.slot
    BY <1>6, ChooseGpuKeeps, ToggleFallbackKeeps, ToggleEmbeddingKeeps, ChooseSleepKeeps,
       TypeLengthKeeps, TypeCountKeeps, TypeParserKeeps, GpusArriveKeeps
  <2> QED  BY <1>1, <2>1, <2>2
<1>7. ASSUME NEW s \in Slots, Type(s) \/ PickVariant(s) PROVE SizedInv'
  <2>1. form.open
    BY <1>7 DEF Type, PickVariant
  <2>2. form'.slot = form.slot
    BY <1>7, TypeKeeps, PickVariantKeeps
  <2> QED  BY <1>1, <2>1, <2>2
<1>8. ASSUME NEW s \in Slots, AnsweredLate(s) \/ Fails(s) PROVE SizedInv'
  <2>1. form.open /\ IsForm(form)
    BY <1>8 DEF AnsweredLate, Fails, FormInv, ShapeInv, Closed
  <2>2. "slot" \in DOMAIN form
    BY <2>1 DEF IsForm, NewForm
  <2>3. form'.slot = form.slot
    BY <1>8, <2>2 DEF AnsweredLate, LateDropped, Fails
  <2> QED  BY <1>1, <2>1, <2>3
<1>9. ASSUME NEW s \in Slots, Answered(s) PROVE SizedInv'
  <2> DEFINE call == calls[s].now
             u == Used(s, call)
             g == Detected(Fitted(u))
  <2>1. /\ IsForm(form) /\ form.open /\ s \in Pickers /\ call # NoCall /\ form' = g
        /\ hub \in Range(Hubs)
    BY <1>9, EditorAssumption DEF FormInv, ShapeInv, Answered, Closed, Pickers
  <2>2. call[1] \in DOMAIN hub
    <3>1. call = Dependencies(form, s)
      BY <2>1 DEF FormInv, ShapeInv, CallsAreCurrent
    <3> HIDE DEF call
    <3> QED  BY <2>1, <3>1, AsksAboutThePicker
  <2> HIDE DEF call
  <2>3. /\ IsForm(u)
        /\ u.slot[s].quant = ChosenFor(call)
        /\ u.slot[s].verdict.details = Told(call)
        /\ \A o \in Pickers \ {s} : u.slot[o] = form.slot[o]
    BY <2>1, <2>2, UsedKeeps
  <2> HIDE DEF u
  <2>4. g.slot = u.slot
    <3>1. "slot" \in DOMAIN u \ Derived
      BY <2>3 DEF IsForm, NewForm, Derived
    <3> QED  BY <2>3, <3>1, DerivedKeeps
  <2> HIDE DEF g
  <2>5. SUFFICES ASSUME NEW o \in Pickers, u.slot[o].verdict.details.variants # {}
                 PROVE  \E v \in u.slot[o].verdict.details.variants :
                          /\ v.tag = u.slot[o].quant
                          /\ v.bytes = u.slot[o].verdict.details.bytes
    BY <2>1, <2>4 DEF SizedInv
  <2>6. CASE o = s
    BY <2>1, <2>2, <2>3, <2>5, <2>6, ChosenIsSized
  <2>7. CASE o # s
    BY <2>1, <2>3, <2>5, <2>7 DEF SizedInv
  <2> QED  BY <2>6, <2>7
<1>10. CASE Cancel \/ Save
  BY <1>3, <1>10 DEF Cancel, Save, Closed
<1>11. CASE Delete \/ HubChanges \/ ServiceStarts \/ ServiceStops \/ UNCHANGED vars
  BY <1>11 DEF Delete, HubChanges, ServiceStarts, ServiceStops, vars, SizedInv
<1> QED
  BY <1>4, <1>5, <1>6, <1>7, <1>8, <1>9, <1>10, <1>11 DEF Next

(* A repository of many builds is judged by the size of the build that     *)
(* would be saved (huggingface.ts:303-308, ModelPicker.tsx:84-104).        *)
THEOREM SizedAsChosenAlways ==
  ASSUME SomeBuildIsNoDraft
  PROVE  Spec => []SizedAsChosen
<1>1. Init => SizedInv
  BY DEF Init, SizedInv, Closed
<1>2. FormInv /\ SizedInv /\ [Next]_vars => SizedInv'
  BY SizedIsKept
<1>3. SizedInv => SizedAsChosen
  BY EditorAssumption DEF SizedInv, SizedAsChosen, Pickers
<1> QED  BY <1>1, <1>2, <1>3, FormInvariant, PTL DEF Spec

-----------------------------------------------------------------------------
(* The servers that start from a template.                                 *)

ModelNames == {"CHAT_MODEL", "EMBED_MODEL"}

(* What a template adds to the environment names no model: those are the   *)
(* launcher's to set (plan.ts:57-58), the image starts what they name.     *)
NamesAreOwn == \A t \in Stored : DOMAIN t.env \cap ModelNames = {}

EnvInv == Stays => DOMAIN saved.env \cap ModelNames = {}

LEMMA LeftComesOver ==
  ASSUME NEW f, NEW g
  PROVE  /\ DOMAIN (f ++ g) = DOMAIN f \cup DOMAIN g
         /\ \A n \in DOMAIN f : (f ++ g)[n] = f[n]
         /\ \A n \in DOMAIN g \ DOMAIN f : (f ++ g)[n] = g[n]
BY DEF ++

LEMMA EntryOfOne ==
  ASSUME NEW name, NEW value
  PROVE  DOMAIN Entry(name, value) = {name} /\ Entry(name, value)[name] = value
BY DEF Entry

(* A part of the environment is empty, or has its one name. *)
LEMMA ShareOfSlot ==
  ASSUME NEW name, NEW slot, NEW share
  PROVE  /\ slot = NoSlot => DOMAIN ShareEnv(name, slot, share) = {}
         /\ slot # NoSlot => /\ DOMAIN ShareEnv(name, slot, share) = {name}
                            /\ ShareEnv(name, slot, share)[name] = share
<1> DEFINE none == <<>>
           one == Entry(name, share)
           it == ShareEnv(name, slot, share)
<1>1. it = IF slot = NoSlot THEN none ELSE one
  BY DEF ShareEnv
<1>2. DOMAIN none = {}
  OBVIOUS
<1>3. DOMAIN one = {name} /\ one[name] = share
  BY EntryOfOne
<1> HIDE DEF none, one, it
<1>4. /\ slot = NoSlot => DOMAIN it = {}
      /\ slot # NoSlot => DOMAIN it = {name} /\ it[name] = share
  BY <1>1, <1>2, <1>3
<1> QED BY <1>4 DEF it

LEMMA ModelOfSlot ==
  ASSUME NEW name, NEW slot
  PROVE  /\ slot = NoSlot => DOMAIN SlotEnv(name, slot) = {}
         /\ slot # NoSlot => /\ DOMAIN SlotEnv(name, slot) = {name}
                            /\ SlotEnv(name, slot)[name] = slot.repo
<1> DEFINE none == <<>>
           one == Entry(name, slot.repo)
           it == SlotEnv(name, slot)
<1>1. it = IF slot = NoSlot THEN none ELSE one
  BY DEF SlotEnv
<1>2. DOMAIN none = {}
  OBVIOUS
<1>3. DOMAIN one = {name} /\ one[name] = slot.repo
  BY EntryOfOne
<1> HIDE DEF none, one, it
<1>4. /\ slot = NoSlot => DOMAIN it = {}
      /\ slot # NoSlot => DOMAIN it = {name} /\ it[name] = slot.repo
  BY <1>1, <1>2, <1>3
<1> QED BY <1>4 DEF it

LEMMA NumberOrNone ==
  ASSUME NEW name, NEW n
  PROVE  DOMAIN Set(name, n) \subseteq {name}
<1> DEFINE none == <<>>
           one == Entry(name, n)
           it == Set(name, n)
<1>1. it = IF n = 0 THEN none ELSE one
  BY DEF Set
<1>2. DOMAIN none = {}
  OBVIOUS
<1>3. DOMAIN one = {name}
  BY EntryOfOne
<1> HIDE DEF none, one, it
<1>4. DOMAIN it \subseteq {name}
  BY <1>1, <1>2, <1>3
<1> QED BY <1>4 DEF it

(* What is in the environment of a pod that the image looks at. *)
LEMMA EnvOfModels ==
  ASSUME NEW t, NEW key, DOMAIN t.env \cap ModelNames = {}
  PROVE  LET env == PodEnv(t, key) IN
         /\ "CHAT_MODEL" \in DOMAIN env <=> t.chat # NoSlot
         /\ "EMBED_MODEL" \in DOMAIN env <=> t.embedding # NoSlot
         /\ t.chat # NoSlot => /\ env["CHAT_MODEL"] = t.chat.repo
                               /\ "CHAT_GPU_FRACTION" \in DOMAIN env
                               /\ env["CHAT_GPU_FRACTION"] = VramSplit(t).chat
         /\ t.embedding # NoSlot => /\ env["EMBED_MODEL"] = t.embedding.repo
                                    /\ "EMBED_GPU_FRACTION" \in DOMAIN env
                                    /\ env["EMBED_GPU_FRACTION"] = VramSplit(t).embedding
<1> DEFINE a == ShareEnv("CHAT_GPU_FRACTION", t.chat, VramSplit(t).chat)
           b == ShareEnv("EMBED_GPU_FRACTION", t.embedding, VramSplit(t).embedding)
           c == Set("CHAT_MAX_LEN", t.maxLen)
           d == Set("CHAT_MAX_SEQS", t.seqs)
           e == SlotEnv("CHAT_MODEL", t.chat)
           f == SlotEnv("EMBED_MODEL", t.embedding)
           k == Entry("API_KEY", key)
           ab == a ++ b
           abc == ab ++ c
           abcd == abc ++ d
           abcde == abcd ++ e
           abcdef == abcde ++ f
           most == abcdef ++ t.env
           env == most ++ k
<1>1. PodEnv(t, key) = env
  BY DEF PodEnv
<1>2. IF t.chat = NoSlot THEN DOMAIN a = {} /\ DOMAIN e = {}
      ELSE /\ DOMAIN a = {"CHAT_GPU_FRACTION"} /\ a["CHAT_GPU_FRACTION"] = VramSplit(t).chat
           /\ DOMAIN e = {"CHAT_MODEL"} /\ e["CHAT_MODEL"] = t.chat.repo
  <2>1. /\ t.chat = NoSlot => DOMAIN a = {}
        /\ t.chat # NoSlot => DOMAIN a = {"CHAT_GPU_FRACTION"} /\ a["CHAT_GPU_FRACTION"] = VramSplit(t).chat
    BY ShareOfSlot
  <2>2. /\ t.chat = NoSlot => DOMAIN e = {}
        /\ t.chat # NoSlot => DOMAIN e = {"CHAT_MODEL"} /\ e["CHAT_MODEL"] = t.chat.repo
    BY ModelOfSlot
  <2> HIDE DEF a, e
  <2> QED BY <2>1, <2>2
<1>3. IF t.embedding = NoSlot THEN DOMAIN b = {} /\ DOMAIN f = {}
      ELSE /\ DOMAIN b = {"EMBED_GPU_FRACTION"}
           /\ b["EMBED_GPU_FRACTION"] = VramSplit(t).embedding
           /\ DOMAIN f = {"EMBED_MODEL"} /\ f["EMBED_MODEL"] = t.embedding.repo
  <2>1. /\ t.embedding = NoSlot => DOMAIN b = {}
        /\ t.embedding # NoSlot => DOMAIN b = {"EMBED_GPU_FRACTION"} /\ b["EMBED_GPU_FRACTION"] = VramSplit(t).embedding
    BY ShareOfSlot
  <2>2. /\ t.embedding = NoSlot => DOMAIN f = {}
        /\ t.embedding # NoSlot => DOMAIN f = {"EMBED_MODEL"} /\ f["EMBED_MODEL"] = t.embedding.repo
    BY ModelOfSlot
  <2> HIDE DEF b, f
  <2> QED BY <2>1, <2>2
<1>4. DOMAIN c \subseteq {"CHAT_MAX_LEN"} /\ DOMAIN d \subseteq {"CHAT_MAX_SEQS"}
      /\ DOMAIN k = {"API_KEY"}
  BY EntryOfOne, NumberOrNone
<1> HIDE DEF a, b, c, d, e, f, k
<1>5. DOMAIN ab = DOMAIN a \cup DOMAIN b
      /\ (\A n \in DOMAIN a : ab[n] = a[n]) /\ (\A n \in DOMAIN b \ DOMAIN a : ab[n] = b[n])
  BY LeftComesOver
<1> HIDE DEF ab
<1>6. DOMAIN abc = DOMAIN ab \cup DOMAIN c /\ (\A n \in DOMAIN ab : abc[n] = ab[n])
  BY LeftComesOver
<1> HIDE DEF abc
<1>7. DOMAIN abcd = DOMAIN abc \cup DOMAIN d /\ (\A n \in DOMAIN abc : abcd[n] = abc[n])
  BY LeftComesOver
<1> HIDE DEF abcd
<1>8. DOMAIN abcde = DOMAIN abcd \cup DOMAIN e
      /\ (\A n \in DOMAIN abcd : abcde[n] = abcd[n])
      /\ (\A n \in DOMAIN e \ DOMAIN abcd : abcde[n] = e[n])
  BY LeftComesOver
<1> HIDE DEF abcde
<1>9. DOMAIN abcdef = DOMAIN abcde \cup DOMAIN f
      /\ (\A n \in DOMAIN abcde : abcdef[n] = abcde[n])
      /\ (\A n \in DOMAIN f \ DOMAIN abcde : abcdef[n] = f[n])
  BY LeftComesOver
<1> HIDE DEF abcdef
<1>10. DOMAIN most = DOMAIN abcdef \cup DOMAIN t.env /\ (\A n \in DOMAIN abcdef : most[n] = abcdef[n])
  BY LeftComesOver
<1> HIDE DEF most
<1>11. DOMAIN env = DOMAIN most \cup DOMAIN k /\ (\A n \in DOMAIN most : env[n] = most[n])
  BY LeftComesOver
<1> HIDE DEF env
<1>12. DOMAIN env = DOMAIN a \cup DOMAIN b \cup DOMAIN c \cup DOMAIN d \cup DOMAIN e \cup DOMAIN f
                      \cup DOMAIN t.env \cup DOMAIN k
  BY <1>5, <1>6, <1>7, <1>8, <1>9, <1>10, <1>11
<1>13. \A n \in DOMAIN ab : env[n] = ab[n]
  BY <1>6, <1>7, <1>8, <1>9, <1>10, <1>11
<1>14. \A n \in DOMAIN e : n \notin DOMAIN abcd => env[n] = e[n]
  BY <1>8, <1>9, <1>10, <1>11
<1>15. \A n \in DOMAIN f : n \notin DOMAIN abcde => env[n] = f[n]
  BY <1>9, <1>10, <1>11
<1>16. "CHAT_MODEL" \in DOMAIN env <=> t.chat # NoSlot
  BY <1>2, <1>3, <1>4, <1>12 DEF ModelNames
<1>17. "EMBED_MODEL" \in DOMAIN env <=> t.embedding # NoSlot
  BY <1>2, <1>3, <1>4, <1>12 DEF ModelNames
<1>18. ASSUME t.chat # NoSlot
       PROVE  /\ env["CHAT_MODEL"] = t.chat.repo
              /\ "CHAT_GPU_FRACTION" \in DOMAIN env
              /\ env["CHAT_GPU_FRACTION"] = VramSplit(t).chat
  <2>1. "CHAT_MODEL" \notin DOMAIN abcd
    BY <1>2, <1>3, <1>4, <1>5, <1>6, <1>7, <1>18
  <2> QED  BY <1>2, <1>5, <1>12, <1>13, <1>14, <1>18, <2>1
<1>19. ASSUME t.embedding # NoSlot
       PROVE  /\ env["EMBED_MODEL"] = t.embedding.repo
              /\ "EMBED_GPU_FRACTION" \in DOMAIN env
              /\ env["EMBED_GPU_FRACTION"] = VramSplit(t).embedding
  <2>1. "EMBED_MODEL" \notin DOMAIN abcde
    BY <1>2, <1>3, <1>4, <1>5, <1>6, <1>7, <1>8
  <2>2. "EMBED_GPU_FRACTION" \notin DOMAIN a
    BY <1>2
  <2> QED  BY <1>3, <1>5, <1>12, <1>13, <1>15, <1>19, <2>1, <2>2
<1> QED  BY <1>1, <1>16, <1>17, <1>18, <1>19

LEMMA ServersOfModels ==
  ASSUME NEW t, NEW key, DOMAIN t.env \cap ModelNames = {}
  PROVE  LET servers == Servers(PodEnv(t, key)) IN
         /\ {<<x.model, x.share>> : x \in servers}
              = {<<t[s].repo, VramSplit(t)[s]>> : s \in Models(t)}
         /\ Cardinality(servers) = Cardinality(Models(t))
<1> DEFINE env == PodEnv(t, key)
           both == {"CHAT_MODEL", "EMBED_MODEL"} \subseteq DOMAIN env
           len == Read(env, "CHAT_MAX_LEN", 0)
           seqs == Read(env, "CHAT_MAX_SEQS", 0)
           chat == [role |-> "chat", model |-> env["CHAT_MODEL"],
                    share |-> Read(env, "CHAT_GPU_FRACTION", IF both THEN 86 ELSE 92),
                    maxLen |-> len, seqs |-> seqs]
           embed == [role |-> "embed", model |-> env["EMBED_MODEL"],
                     share |-> Read(env, "EMBED_GPU_FRACTION", IF both THEN 6 ELSE 92),
                     maxLen |-> 0, seqs |-> 0]
           chats == IF t.chat = NoSlot THEN {} ELSE {chat}
           embeds == IF t.embedding = NoSlot THEN {} ELSE {embed}
           split == VramSplit(t)
<1>1. /\ "CHAT_MODEL" \in DOMAIN env <=> t.chat # NoSlot
      /\ "EMBED_MODEL" \in DOMAIN env <=> t.embedding # NoSlot
      /\ t.chat # NoSlot => /\ env["CHAT_MODEL"] = t.chat.repo
                            /\ "CHAT_GPU_FRACTION" \in DOMAIN env
                            /\ env["CHAT_GPU_FRACTION"] = split.chat
      /\ t.embedding # NoSlot => /\ env["EMBED_MODEL"] = t.embedding.repo
                                 /\ "EMBED_GPU_FRACTION" \in DOMAIN env
                                 /\ env["EMBED_GPU_FRACTION"] = split.embedding
  BY EnvOfModels
<1> HIDE DEF env
<1>2. Servers(env) = chats \cup embeds
  <2>1. Servers(env) = (IF "CHAT_MODEL" \notin DOMAIN env THEN {} ELSE {chat})
                         \cup (IF "EMBED_MODEL" \notin DOMAIN env THEN {} ELSE {embed})
    BY DEF Servers
  <2> QED  BY <1>1, <2>1
<1> HIDE DEF split, len, seqs
<1>3. t.chat # NoSlot => chat.model = t.chat.repo /\ chat.share = split.chat
  BY <1>1 DEF Read
<1>4. t.embedding # NoSlot => embed.model = t.embedding.repo /\ embed.share = split.embedding
  BY <1>1 DEF Read
<1>5. chat # embed
  <2>1. chat.role = "chat" /\ embed.role = "embed"
    OBVIOUS
  <2> HIDE DEF chat, embed
  <2> QED  BY <2>1
<1> HIDE DEF chat, embed
<1>6. Models(t) = (IF t.chat = NoSlot THEN {} ELSE {"chat"})
                    \cup (IF t.embedding = NoSlot THEN {} ELSE {"embedding"})
  BY DEF Models
<1>7. {<<x.model, x.share>> : x \in chats \cup embeds}
        = {<<t[s].repo, split[s]>> : s \in Models(t)}
  <2>1. CASE t.chat = NoSlot /\ t.embedding = NoSlot
    BY <1>6, <2>1
  <2>2. CASE t.chat # NoSlot /\ t.embedding = NoSlot
    <3>1. chats \cup embeds = {chat} /\ Models(t) = {"chat"}
      BY <1>6, <2>2
    <3> QED  BY <1>3, <2>2, <3>1
  <2>3. CASE t.chat = NoSlot /\ t.embedding # NoSlot
    <3>1. chats \cup embeds = {embed} /\ Models(t) = {"embedding"}
      BY <1>6, <2>3
    <3> QED  BY <1>4, <2>3, <3>1
  <2>4. CASE t.chat # NoSlot /\ t.embedding # NoSlot
    <3>1. chats \cup embeds = {chat, embed} /\ Models(t) = {"chat", "embedding"}
      BY <1>6, <2>4
    <3>2. {<<x.model, x.share>> : x \in {chat, embed}}
            = {<<chat.model, chat.share>>, <<embed.model, embed.share>>}
      OBVIOUS
    <3>3. {<<t[s].repo, split[s]>> : s \in {"chat", "embedding"}}
            = {<<t.chat.repo, split.chat>>, <<t.embedding.repo, split.embedding>>}
      OBVIOUS
    <3> QED  BY <1>3, <1>4, <2>4, <3>1, <3>2, <3>3
  <2> QED  BY <2>1, <2>2, <2>3, <2>4
<1>8. ASSUME NEW x, NEW y, x # y PROVE Cardinality({x}) = 1 /\ Cardinality({x, y}) = 2
  <2>1. IsFiniteSet({x}) /\ Cardinality({x}) = 1
    BY FS_Singleton
  <2>2. {x, y} = {x} \cup {y} /\ y \notin {x}
    BY <1>8
  <2>3. Cardinality({x} \cup {y}) = Cardinality({x}) + 1
    BY <2>1, <2>2, FS_AddElement
  <2> QED  BY <2>1, <2>2, <2>3
<1>9. Cardinality(chats \cup embeds) = Cardinality(Models(t))
  <2>1. CASE t.chat = NoSlot /\ t.embedding = NoSlot
    BY <1>6, <2>1
  <2>2. CASE t.chat # NoSlot /\ t.embedding = NoSlot
    <3>1. chats \cup embeds = {chat} /\ Models(t) = {"chat"}
      BY <1>6, <2>2
    <3>2. Cardinality({chat}) = 1 /\ Cardinality({"chat"}) = 1
      BY FS_Singleton
    <3> QED  BY <3>1, <3>2
  <2>3. CASE t.chat = NoSlot /\ t.embedding # NoSlot
    <3>1. chats \cup embeds = {embed} /\ Models(t) = {"embedding"}
      BY <1>6, <2>3
    <3>2. Cardinality({embed}) = 1 /\ Cardinality({"embedding"}) = 1
      BY FS_Singleton
    <3> QED  BY <3>1, <3>2
  <2>4. CASE t.chat # NoSlot /\ t.embedding # NoSlot
    <3>1. chats \cup embeds = {chat, embed} /\ Models(t) = {"chat", "embedding"}
      BY <1>6, <2>4
    <3>2. Cardinality({chat, embed}) = 2 /\ Cardinality({"chat", "embedding"}) = 2
      <4>1. "chat" # "embedding"
        OBVIOUS
      <4> QED  BY <1>5, <1>8, <4>1
    <3> QED  BY <3>1, <3>2
  <2> QED  BY <2>1, <2>2, <2>3, <2>4
<1> QED  BY <1>2, <1>7, <1>9 DEF env, split

(* Two servers on one card leave it room, and each model has the server    *)
(* and the share that were worked out for it (plan.ts:4-37, 57-61,         *)
(* start-vllm.sh).                                                         *)
THEOREM SharesFitAlways ==
  ASSUME NamesAreOwn
  PROVE  Spec => []SharesFit
<1>1. Init => EnvInv
  BY DEF Init, EnvInv, Stays, NamesAreOwn
<1>2. ASSUME FormInv, EnvInv, [Next]_vars PROVE EnvInv'
  <2>1. CASE saved' = saved
    BY <1>2, <2>1 DEF EnvInv, Stays
  <2>2. CASE saved' # saved
    <3>1. Save \/ Delete \/ ServiceStarts
      BY <1>2, <2>2 DEF Next, vars, OpenNew, Edit, Cancel, GpusArrive, ChooseGpu, ToggleFallback,
         ToggleEmbedding, ChooseSleep, TypeLength, TypeCount, TypeParser, Type, PickVariant,
         Answered, AnsweredLate, Fails, HubChanges, ServiceStops, Edits
    <3>2. CASE Save
      <4>1. saved'.env = <<>>
        BY <3>2 DEF Save, Body
      <4> QED  BY <4>1 DEF EnvInv
    <3>3. CASE Delete
      BY <3>3 DEF Delete, EnvInv, Stays
    <3>4. CASE ServiceStarts
      <4>1. saved' = Repaired(saved) /\ Stays
        BY <2>2, <3>4 DEF ServiceStarts, Stays
      <4>2. IsTemplate(saved) /\ Admitted(saved)
        BY <1>2, <4>1 DEF FormInv, ShapeInv
      <4>3. "env" \in DOMAIN saved \ {"args", "seqs"}
        BY <4>2 DEF IsTemplate
      <4>4. saved'.env = saved.env
        BY <4>1, <4>2, <4>3, RepairedKeeps
      <4> QED  BY <1>2, <4>1, <4>4 DEF EnvInv
    <3> QED  BY <3>1, <3>2, <3>3, <3>4
  <2> QED  BY <2>1, <2>2
<1>3. ASSUME FormInv, EnvInv PROVE SharesFit
  <2>1. SUFFICES ASSUME Stays, saved.chat.fraction = 0
        PROVE  LET split   == VramSplit(saved)
                   servers == Servers(PodRequest(saved, "key").env)
               IN  /\ split.chat + split.embedding <= 94
                   /\ {<<x.model, x.share>> : x \in servers} =
                        {<<saved[s].repo, split[s]>> : s \in Models(saved)}
                   /\ Cardinality(servers) = Cardinality(Models(saved))
    BY DEF SharesFit
  <2>2. PodRequest(saved, "key").env = PodEnv(saved, "key")
    BY DEF PodRequest
  <2>3. saved.embedding.fraction \in 0..100
    BY <1>3, <2>1 DEF FormInv, ShapeInv, Admitted
  <2>4. VramSplit(saved).chat + VramSplit(saved).embedding <= 94
    BY <2>1, <2>3 DEF VramSplit
  <2>5. DOMAIN saved.env \cap ModelNames = {}
    BY <1>3, <2>1 DEF EnvInv
  <2> QED  BY <2>2, <2>4, <2>5, ServersOfModels
<1>4. Init /\ [][Next]_vars => []EnvInv
  <2>1. FormInv /\ EnvInv /\ [Next]_vars => EnvInv'
    BY <1>2
  <2> QED  BY <1>1, <2>1, FormInvariant, PTL DEF Spec
<1>5. FormInv /\ EnvInv => SharesFit
  BY <1>3
<1> QED  BY <1>4, <1>5, FormInvariant, PTL DEF Spec
-----------------------------------------------------------------------------
(* What is saved runs.                                                     *)

LEMMA SortedExists ==
  ASSUME NEW cards, IsFiniteSet(cards), \A c \in cards : c.price \in Nat
  PROVE  ByPrice(cards) \in [1..Cardinality(cards) -> cards]
<1> DEFINE Sorted(T, list) ==
             /\ list \in SetToSeqs(T)
             /\ \A i, j \in DOMAIN list : i < j => list[i].price <= list[j].price
           G == {T \in SUBSET cards : \E list : Sorted(T, list)}
<1>1. {} \in G
  <2>1. Cardinality({}) = 0 /\ 1..0 = {}
    BY FS_EmptySet
  <2>2. <<>> \in SetToSeqs({}) /\ DOMAIN <<>> = {}
    BY <2>1 DEF SetToSeqs
  <2> QED  BY <2>2
<1>2. ASSUME NEW T \in SUBSET cards, T # {}, \A x \in T : T \ {x} \in G PROVE T \in G
  <2> DEFINE prices == {c.price : c \in T}
  <2>1. IsFiniteSet(T) /\ IsFiniteSet(prices)
    <3>1. IsFiniteSet(T)
      BY FS_Subset
    <3> DEFINE f == [c \in T |-> c.price]
    <3>2. IsFiniteSet({f[c] : c \in DOMAIN f})
      BY <3>1, ImageIsFinite
    <3>3. {f[c] : c \in DOMAIN f} = prices
      OBVIOUS
    <3> QED  BY <3>1, <3>2, <3>3
  <2>2. prices \subseteq Int /\ prices # {}
    BY <1>2
  <2>3. \E m \in prices : \A n \in prices : m >= n
    <3> HIDE DEF prices
    <3> QED  BY <2>1, <2>2, HasGreatest
  <2>4. PICK x \in T : \A c \in T : x.price >= c.price
    BY <2>3
  <2>5. PICK list : Sorted(T \ {x}, list)
    BY <1>2
  <2> DEFINE n == Cardinality(T)
             longer == [i \in 1..n |-> IF i = n THEN x ELSE list[i]]
  <2>6. n \in Nat \ {0} /\ Cardinality(T \ {x}) = n - 1
    <3>1. Cardinality(T \ {x}) = Cardinality(T) - 1 /\ IsFiniteSet(T \ {x})
      BY <2>1, FS_RemoveElement
    <3> QED  BY <2>1, <3>1, FS_CardinalityType
  <2> HIDE DEF n
  <2>7. /\ list \in [1..n - 1 -> T \ {x}]
        /\ \A i, j \in 1..n - 1 : i # j => list[i] # list[j]
        /\ \A i, j \in 1..n - 1 : i < j => list[i].price <= list[j].price
    BY <2>5, <2>6 DEF SetToSeqs
  <2>8. /\ longer \in [1..n -> T] /\ DOMAIN longer = 1..n
        /\ \A i \in 1..n - 1 : longer[i] = list[i] /\ list[i] \in T /\ list[i] # x
        /\ longer[n] = x
    BY <2>6, <2>7
  <2> HIDE DEF longer
  <2>9. \A i, j \in 1..n : i # j => longer[i] # longer[j]
    BY <2>6, <2>7, <2>8
  <2>10. \A i, j \in 1..n : i < j => longer[i].price <= longer[j].price
    <3> SUFFICES ASSUME NEW i \in 1..n, NEW j \in 1..n, i < j
                 PROVE  longer[i].price <= longer[j].price
      OBVIOUS
    <3>1. i \in 1..n - 1 /\ (j = n \/ j \in 1..n - 1)
      BY <2>6
    <3>2. CASE j = n
      BY <2>4, <2>8, <3>1, <3>2
    <3>3. CASE j \in 1..n - 1
      BY <2>7, <2>8, <3>1, <3>3
    <3> QED  BY <3>1, <3>2, <3>3
  <2>11. Sorted(T, longer)
    BY <2>8, <2>9, <2>10 DEF SetToSeqs, n
  <2> QED  BY <2>11
<1>3. cards \in G
  <2> HIDE DEF G
  <2> QED  BY <1>1, <1>2, SetInduction
<1>4. \E list \in SetToSeqs(cards) :
        \A i, j \in DOMAIN list : i < j => list[i].price <= list[j].price
  BY <1>3
<1>5. ByPrice(cards) \in SetToSeqs(cards)
  BY <1>4 DEF ByPrice
<1> QED  BY <1>5 DEF SetToSeqs

(* A substitute the form comes up with is a card that the weights fit on. *)
LEMMA SubstitutesAreSuitable ==
  ASSUME NEW f, NEW id \in Range(SubSeq(Fallbacks(f), 1, Min({3, Len(Fallbacks(f))})))
  PROVE  \E g \in Gpus :
           /\ g.id = id
           /\ Headroom(g.memory, Bytes(f, "chat") + Bytes(f, "embedding"), 0) >= MinUsableKv
           /\ Compatible(Chosen(f).engine, Format(f), g)
<1> DEFINE gpu == Gpu(f)
           weights == Bytes(f, "chat") + Bytes(f, "embedding")
           others == {g \in Gpus \ {gpu} : g.memory >= gpu.memory}
           suitable == SuitableGpus(others, Format(f), weights, gpu.price)
           cheapest == ByPrice(suitable)
           n == Cardinality(suitable)
           ids == {g.id : g \in suitable}
<1>1. suitable \subseteq Gpus
  BY DEF SuitableGpus
<1>2. IsFiniteSet(suitable) /\ n \in Nat /\ \A c \in suitable : c.price \in Nat
  BY <1>1, EditorAssumption, FS_Subset, FS_CardinalityType
<1>3. \A g \in suitable :
        /\ Headroom(g.memory, weights, 0) >= MinUsableKv
        /\ Compatible(Chosen(f).engine, Format(f), g)
  <2>1. Chosen(f).engine = IF EngineForFormat(Format(f)) = None THEN "vllm"
                           ELSE EngineForFormat(Format(f))
    BY DEF Chosen, PresetForFormat, Preset, EngineForFormat, EngineFormats, None
  <2> QED  BY <2>1 DEF SuitableGpus
<1>4. cheapest \in [1..n -> suitable]
  <2> HIDE DEF suitable
  <2> QED  BY <1>2, SortedExists
<1>5. Fallbacks(f) = IF gpu = NoGpu THEN <<>> ELSE [i \in DOMAIN cheapest |-> cheapest[i].id]
  BY DEF Fallbacks
<1> HIDE DEF cheapest, suitable, n
<1>6. Fallbacks(f) \in Seq(ids)
  BY <1>2, <1>4, <1>5
<1>7. id \in ids
  <2> DEFINE list == Fallbacks(f)
             top == Min({3, Len(list)})
  <2> HIDE DEF list
  <2>1. list \in Seq(ids) /\ Len(list) \in Nat
    BY <1>6 DEF list
  <2>2. top \in Nat /\ top <= Len(list)
    BY <2>1, SmallerOfTwo
  <2> HIDE DEF top
  <2>3. \A i \in 1..top : list[i] \in ids
    BY <2>1, <2>2
  <2>4. DOMAIN SubSeq(list, 1, top) = 1..top /\ \A i \in 1..top : SubSeq(list, 1, top)[i] = list[i]
    BY <2>1, <2>2
  <2> QED  BY <2>3, <2>4 DEF Range, list, top
<1>8. PICK g \in suitable : g.id = id
  BY <1>7
<1> QED  BY <1>1, <1>3, <1>8

(* What is saved with every verdict in hand runs on the card it names and  *)
(* on the substitutes the form came up with (Templates.tsx:261-285,        *)
(* huggingface.ts:evaluate, engine.ts:50-78).                              *)
THEOREM AdmittedRunsAlways == Spec => AdmittedRuns
<1> DEFINE weights == Bytes(form, "chat") + Bytes(form, "embedding")
           ids == {saved'.gpu} \cup (IF form.ownFallbacks THEN {} ELSE Range(saved'.fallbacks))
           Runs(g, s) ==
             LET format == form.picker[s].verdict.details.format IN
             /\ g.id = saved'.gpu \/ format = Format(form) => Compatible(saved'.engine, format, g)
             /\ Headroom(g.memory, weights, 0) >= MinUsableKv
           Step2 == (Saves /\ \A s \in Models(saved') : Settled(s)) =>
                      \A g \in {h \in Gpus : h.id \in ids}, s \in Models(saved') : Runs(g, s)
<1>1. ASSUME FormInv, [Next]_vars PROVE Step2
  <2>1. SUFFICES ASSUME Saves, \A s \in Models(saved') : Settled(s),
                        NEW g \in Gpus, g.id \in ids, NEW s \in Models(saved')
                 PROVE  Runs(g, s)
    OBVIOUS
  <2>2. saved' = Body(form) /\ form.open /\ ~Blocked(form) /\ IsForm(form)
    BY <1>1, <2>1, SavesIsSave DEF Save, FormInv, ShapeInv, Closed
  <2>3. s \in Pickers /\ Body(form)[s] # NoSlot /\ Settled(s)
    BY <2>1, <2>2 DEF Models, Pickers
  <2>4. Agrees(form, s)
    BY <1>1, <2>2, <2>3 DEF FormInv, ShownInv
  <2>5. /\ saved'.engine = Chosen(form).engine /\ saved'.gpu = form.gpu
        /\ saved'.fallbacks = ChosenFallbacks(form)
    BY <2>2 DEF Body
  <2>6. (s = "embedding" => form.useEmbedding) /\ form.slot[s].repo # None
    <3>1. /\ Body(form).chat = IF form.slot["chat"].repo = None THEN NoSlot
                               ELSE [repo |-> form.slot["chat"].repo,
                                     quant |-> form.slot["chat"].quant, fraction |-> 0]
          /\ Body(form).embedding =
               IF form.useEmbedding
                 THEN IF form.slot["embedding"].repo = None THEN NoSlot
                      ELSE [repo |-> form.slot["embedding"].repo,
                            quant |-> form.slot["embedding"].quant, fraction |-> 0]
                 ELSE NoSlot
      BY DEF Body
    <3> QED  BY <2>3, <3>1 DEF Pickers
  <2>7. form.picker[s].verdict.compatible
    <3>1. Known(form.slot[s]) /\ form.slot[s].verdict = form.picker[s].verdict
      BY <2>3, <2>4 DEF Settled, Agrees, Known
    <3> QED  BY <2>2, <2>3, <2>6, <3>1 DEF Blocked, Pickers
  <2>8. CASE g.id = saved'.gpu
    <3>1. Gpu(form) = g
      <4>1. Gpu(form) # NoGpu
        BY <2>2 DEF Blocked
      <4>2. Gpu(form) = CHOOSE h \in Gpus : h.id = form.gpu
        BY <4>1 DEF Gpu
      <4> QED  BY <2>5, <2>8, <4>2, EditorAssumption
    <3>2. /\ Compatible(Chosen(form).engine, form.picker[s].verdict.details.format, g)
          /\ Headroom(g.memory, form.picker[s].verdict.details.bytes, Bytes(form, Other(s)))
               >= MinUsableKv
      BY <2>4, <2>7, <3>1 DEF Agrees, Holds
    <3>3. form.picker[s].verdict.details.bytes = Bytes(form, s)
      BY <2>4, <2>6 DEF Agrees, Bytes
    <3>4. weights = Bytes(form, s) + Bytes(form, Other(s))
      <4>1. Bytes(form, "chat") \in Nat /\ Bytes(form, "embedding") \in Nat
        BY <2>2, BytesAreNat DEF Pickers
      <4>2. s = "chat" \/ s = "embedding"
        BY <2>3 DEF Pickers
      <4> QED  BY <4>1, <4>2 DEF Other
    <3>5. Headroom(g.memory, weights, 0) >= MinUsableKv
      <4>1. Bytes(form, s) \in Nat /\ Bytes(form, Other(s)) \in Nat /\ g.memory \in Nat
        BY <2>2, <2>3, BytesAreNat, EditorAssumption DEF Pickers, Other
      <4> HIDE DEF weights
      <4> QED  BY <3>2, <3>3, <3>4, <4>1 DEF Headroom
    <3> QED  BY <2>5, <3>2, <3>5
  <2>9. CASE g.id # saved'.gpu
    <3>1. ~form.ownFallbacks /\ g.id \in Range(ChosenFallbacks(form))
      BY <2>1, <2>5, <2>9
    <3>2. g.id \in Range(SubSeq(Fallbacks(form), 1, Min({3, Len(Fallbacks(form))})))
      BY <3>1 DEF ChosenFallbacks
    <3>3. \E h \in Gpus :
            /\ h.id = g.id
            /\ Headroom(h.memory, weights, 0) >= MinUsableKv
            /\ Compatible(Chosen(form).engine, Format(form), h)
      BY <3>2, SubstitutesAreSuitable
    <3>4. /\ Headroom(g.memory, weights, 0) >= MinUsableKv
          /\ Compatible(Chosen(form).engine, Format(form), g)
      BY <3>3, EditorAssumption
    <3> QED  BY <2>5, <2>9, <3>4
  <2> QED  BY <2>8, <2>9
<1>2. FormInv /\ [Next]_vars => [Step2]_vars
  BY <1>1
<1> QED  BY <1>2, FormInvariant, PTL DEF Spec, AdmittedRuns

-----------------------------------------------------------------------------
(* What comes out of the sequences a command line is made of. *)

FlatStep(seqs, f) ==
  [i \in 1..Len(seqs) |-> IF i = 1 THEN seqs[i] ELSE f[i - 1] \o seqs[i]]

FlatTo(W, seqs, m, f) ==
  /\ f \in [1..m -> Seq(W)]
  /\ m >= 1 => f[1] = seqs[1]
  /\ \A i \in 2..m : f[i] = f[i - 1] \o seqs[i]

LEMMA FlatExists ==
  ASSUME NEW W, NEW seqs \in Seq(Seq(W))
  PROVE  \A m \in Nat : m \in {k \in Nat : k \in 0..Len(seqs) => \E f : FlatTo(W, seqs, k, f)}
<1> DEFINE G == {k \in Nat : k \in 0..Len(seqs) => \E f : FlatTo(W, seqs, k, f)}
<1>1. 0 \in G
  <2>1. FlatTo(W, seqs, 0, [i \in 1..0 |-> seqs[1]])
    BY DEF FlatTo
  <2> QED  BY <2>1
<1>2. ASSUME NEW m \in Nat, m \in G, m + 1 \in 0..Len(seqs) PROVE \E f : FlatTo(W, seqs, m + 1, f)
  <2>1. PICK f : FlatTo(W, seqs, m, f)
    BY <1>2
  <2>2. seqs[m + 1] \in Seq(W)
    BY <1>2
  <2> DEFINE new == IF m = 0 THEN seqs[1] ELSE f[m] \o seqs[m + 1]
             g == [i \in 1..m + 1 |-> IF i = m + 1 THEN new ELSE f[i]]
  <2>3. new \in Seq(W)
    <3>1. CASE m = 0
      <4>1. new = seqs[m + 1]
        BY <3>1
      <4> QED  BY <2>2, <4>1
    <3>2. CASE m # 0
      <4>1. f[m] \in Seq(W)
        BY <2>1, <3>2, <1>2 DEF FlatTo
      <4>2. f[m] \o seqs[m + 1] \in Seq(W)
        BY <4>1, <2>2
      <4> QED  BY <4>2, <3>2
    <3> QED  BY <3>1, <3>2
  <2>0. new = IF m = 0 THEN seqs[1] ELSE f[m] \o seqs[m + 1]
    OBVIOUS
  <2> HIDE DEF new
  <2>4. g[m + 1] = new /\ \A i \in 1..m : g[i] = f[i]
    BY <1>2
  <2>5. \A i \in 1..m + 1 : g[i] \in Seq(W)
    BY <2>1, <2>3, <1>2 DEF FlatTo
  <2>6. g \in [1..m + 1 -> Seq(W)]
    BY <2>5
  <2>7. g[1] = seqs[1]
    BY <2>0, <2>1, <2>4, <1>2 DEF FlatTo
  <2>8. ASSUME NEW i \in 2..m + 1 PROVE g[i] = g[i - 1] \o seqs[i]
    <3>1. CASE i = m + 1
      <4>1. m # 0 /\ i - 1 = m /\ m \in 1..m
        BY <3>1, <2>8
      <4>2. g[i - 1] = f[m] /\ g[i] = new
        BY ONLY <4>1, <2>4, <3>1
      <4>3. new = f[m] \o seqs[m + 1]
        BY <2>0, <4>1
      <4> HIDE DEF g
      <4> QED  BY <4>2, <4>3, <3>1
    <3>2. CASE i # m + 1
      <4>1. i \in 1..m /\ i - 1 \in 1..m /\ i \in 2..m
        BY <3>2, <2>8
      <4>2. g[i] = f[i] /\ g[i - 1] = f[i - 1]
        BY <4>1, <2>4
      <4> HIDE DEF g
      <4> QED  BY <4>1, <4>2, <2>1 DEF FlatTo
    <3> QED  BY <3>1, <3>2
  <2>9. FlatTo(W, seqs, m + 1, g)
    <3> HIDE DEF g
    <3> QED  BY <2>6, <2>7, <2>8 DEF FlatTo
  <2> QED  BY <2>9
<1>3. \A m \in Nat : m \in G => m + 1 \in G
  BY <1>2
<1> HIDE DEF G
<1>4. \A m \in Nat : m \in G
  BY <1>1, <1>3, CountingUp
<1> QED  BY <1>4 DEF G

LEMMA FlatFixed ==
  ASSUME NEW W, NEW seqs \in Seq(Seq(W))
  PROVE  \E f : f = FlatStep(seqs, f)
<1> DEFINE n == Len(seqs)
<1>1. n \in Nat
  OBVIOUS
<1>2. PICK f : FlatTo(W, seqs, n, f)
  BY <1>1, FlatExists
<1>3. f = [i \in 1..n |-> f[i]]
  BY <1>2 DEF FlatTo
<1>4. ASSUME NEW i \in 1..n PROVE f[i] = IF i = 1 THEN seqs[i] ELSE f[i - 1] \o seqs[i]
  <2>1. CASE i = 1
    BY <1>1, <1>2, <2>1 DEF FlatTo
  <2>2. CASE i # 1
    <3>1. i \in 2..n
      BY <1>1, <2>2
    <3>2. f[i] = f[i - 1] \o seqs[i]
      BY <1>2, <3>1 DEF FlatTo
    <3> QED  BY <2>2, <3>2
  <2> QED  BY <2>1, <2>2
<1>5. f = FlatStep(seqs, f)
  BY <1>3, <1>4 DEF FlatStep
<1> QED  BY <1>5

(* What comes out of the sequences up to one of them. *)
LEMMA FlattenSteps ==
  ASSUME NEW W, NEW seqs \in Seq(Seq(W)), seqs # <<>>
  PROVE  \E flat :
           /\ flat[1] = seqs[1]
           /\ \A i \in 2..Len(seqs) : flat[i] = flat[i - 1] \o seqs[i]
           /\ FlattenSeq(seqs) = flat[Len(seqs)]
<1> DEFINE flatten == CHOOSE f : f = FlatStep(seqs, f)
<1>1. flatten = FlatStep(seqs, flatten)
  BY FlatFixed
<1>2. Len(seqs) \in Nat /\ Len(seqs) # 0
  OBVIOUS
<1>3. FlattenSeq(seqs) = flatten[Len(seqs)]
  BY <1>2 DEF FlattenSeq, FlatStep
<1> HIDE DEF flatten
<1>4. \A i \in 1..Len(seqs) : flatten[i] = IF i = 1 THEN seqs[i] ELSE flatten[i - 1] \o seqs[i]
  BY <1>1 DEF FlatStep
<1>5. flatten[1] = seqs[1]
  BY <1>2, <1>4
<1>6. ASSUME NEW i \in 2..Len(seqs) PROVE flatten[i] = flatten[i - 1] \o seqs[i]
  <2>1. i \in 1..Len(seqs) /\ i # 1
    BY <1>2
  <2>2. flatten[i] = IF i = 1 THEN seqs[i] ELSE flatten[i - 1] \o seqs[i]
    BY <1>4, <2>1
  <2> QED  BY <2>1, <2>2
<1> QED  BY <1>3, <1>5, <1>6

-----------------------------------------------------------------------------
(* Words: a flag that has its value has it still in a longer line.         *)

AllTake(words, flag, v) ==
  \A i \in DOMAIN words :
    (words[i].is = "flag" /\ words[i].of = flag) =>
      i + 1 \in DOMAIN words /\ words[i + 1].of = v

Good(words, flag, v) == ~Swallows(words) /\ AllTake(words, flag, v)

LEMMA JoinedIsGood ==
  ASSUME NEW W, NEW u \in Seq(W), NEW v \in Seq(W), NEW flag, NEW value,
         Good(u, flag, value), Good(v, flag, value)
  PROVE  Good(u \o v, flag, value)
<1> DEFINE w == u \o v
           m == Len(u)
           n == Len(v)
<1>1. m \in Nat /\ n \in Nat /\ w \in Seq(W) /\ Len(w) = m + n
      /\ DOMAIN w = 1..m + n /\ DOMAIN u = 1..m /\ DOMAIN v = 1..n
  OBVIOUS
<1>2. \A i \in 1..m : w[i] = u[i]
  OBVIOUS
<1>3. \A i \in m + 1..m + n : w[i] = v[i - m]
  OBVIOUS
<1>0. m \in Nat /\ n \in Nat
  OBVIOUS
<1> HIDE DEF w, m, n
<1>4. ASSUME NEW i \in 1..m + n
      PROVE  \/ i \in 1..m /\ w[i] = u[i] /\ (i # m => i + 1 \in 1..m /\ w[i + 1] = u[i + 1])
             \/ /\ i - m \in 1..n /\ w[i] = v[i - m]
                /\ i # m + n => (i - m) + 1 \in 1..n /\ w[i + 1] = v[(i - m) + 1]
  <2>1. CASE i <= m
    <3>1. i \in 1..m /\ (i # m => i + 1 \in 1..m)
      BY <1>0, <2>1
    <3> QED  BY <1>2, <3>1
  <2>2. CASE i > m
    <3>1. i \in m + 1..m + n /\ i - m \in 1..n
      BY <1>0, <2>2
    <3>2. i # m + n => i + 1 \in m + 1..m + n /\ (i + 1) - m = (i - m) + 1 /\ (i - m) + 1 \in 1..n
      BY <1>0, <2>2
    <3> QED  BY <1>3, <3>1, <3>2
  <2>3. i <= m \/ i > m
    BY <1>0
  <2> QED  BY <2>1, <2>2, <2>3
<1>5. ~Swallows(w)
  <2>1. SUFFICES ASSUME NEW i \in 1..m + n, w[i].is = "flag",
                        w[i].of # "--enable-auto-tool-choice",
                        i = m + n \/ w[i + 1].is = "flag"
                 PROVE  FALSE
    BY <1>1, ZenonT(30) DEF Swallows
  <2>2. CASE i \in 1..m /\ w[i] = u[i] /\ (i # m => i + 1 \in 1..m /\ w[i + 1] = u[i + 1])
    <3>1. i = m \/ u[i + 1].is = "flag"
      BY <1>1, <2>1, <2>2
    <3> QED  BY <1>1, <2>1, <2>2, <3>1 DEF Good, Swallows
  <2>3. CASE /\ i - m \in 1..n /\ w[i] = v[i - m]
             /\ i # m + n => (i - m) + 1 \in 1..n /\ w[i + 1] = v[(i - m) + 1]
    <3>1. i - m = n \/ v[(i - m) + 1].is = "flag"
      BY <1>1, <2>1, <2>3
    <3>2. \A j \in 1..n : ~(v[j].is = "flag" /\ v[j].of # "--enable-auto-tool-choice"
                             /\ (j = n \/ v[j + 1].is = "flag"))
      BY <1>1, ZenonT(30) DEF Good, Swallows, n
    <3> QED  BY <2>1, <2>3, <3>1, <3>2, ZenonT(30)
  <2> QED  BY <1>4, <2>2, <2>3
<1>6. AllTake(w, flag, value)
  <2>1. SUFFICES ASSUME NEW i \in 1..m + n, w[i].is = "flag", w[i].of = flag
                 PROVE  i + 1 \in 1..m + n /\ w[i + 1].of = value
    BY <1>1 DEF AllTake
  <2>2. CASE i \in 1..m /\ w[i] = u[i] /\ (i # m => i + 1 \in 1..m /\ w[i + 1] = u[i + 1])
    <3>1. i + 1 \in 1..m /\ u[i + 1].of = value
      BY <1>1, <2>1, <2>2 DEF Good, AllTake
    <3>2. i # m
      BY <1>0, <3>1
    <3>3. w[i + 1] = u[i + 1] /\ i + 1 \in 1..m + n
      BY <1>0, <2>2, <3>1, <3>2
    <3> QED  BY <3>1, <3>3
  <2>3. CASE /\ i - m \in 1..n /\ w[i] = v[i - m]
             /\ i # m + n => (i - m) + 1 \in 1..n /\ w[i + 1] = v[(i - m) + 1]
    <3>1. (i - m) + 1 \in 1..n /\ v[(i - m) + 1].of = value
      BY <1>1, <2>1, <2>3 DEF Good, AllTake
    <3>2. i # m + n /\ i + 1 \in 1..m + n
      BY <1>0, <2>3, <3>1
    <3> QED  BY <2>3, <3>1, <3>2
  <2> QED  BY <1>4, <2>2, <2>3
<1> QED  BY <1>5, <1>6 DEF Good, w

LEMMA NothingIsGood ==
  ASSUME NEW flag, NEW value
  PROVE  Good(<<>>, flag, value)
  BY DEF Good, Swallows, AllTake

LEMMA ToolsAreGood ==
  ASSUME NEW flag, NEW value, NEW v, flag # "--enable-auto-tool-choice",
         flag = "--tool-call-parser" => v = value
  PROVE  Good(<<Flag("--enable-auto-tool-choice"), Flag("--tool-call-parser"), Value(v)>>, flag, value)
<1> DEFINE w == <<Flag("--enable-auto-tool-choice"), Flag("--tool-call-parser"), Value(v)>>
<1>1. /\ DOMAIN w = 1..3 /\ Len(w) = 3
      /\ w[1].is = "flag" /\ w[1].of = "--enable-auto-tool-choice"
      /\ w[2].is = "flag" /\ w[2].of = "--tool-call-parser"
      /\ w[3].is = "value" /\ w[3].of = v
  BY DEF Flag, Value
<1> HIDE DEF w
<1>2. \A i \in 1..3 : i = 1 \/ i = 2 \/ i = 3
  OBVIOUS
<1>3. Good(w, flag, value)
  BY <1>1, <1>2 DEF Good, Swallows, AllTake
<1> QED  BY <1>3 DEF w

(* What follows a flag that is there. *)
LEMMA TakesItsValue ==
  ASSUME NEW W, NEW words \in Seq(W), NEW flag, NEW value, Good(words, flag, value),
         NEW i \in DOMAIN words, words[i] = Flag(flag)
  PROVE  After(words, flag) = value
<1> DEFINE P(j) == words[j].is = "flag" /\ words[j].of = flag
           k == CHOOSE j \in DOMAIN words : P(j)
<1>1. P(i)
  BY DEF Flag
<1>2. P(k) /\ k \in DOMAIN words
  <2> HIDE DEF P
  <2> QED  BY <1>1
<1>3. After(words, flag) = words[1 + k].of
  BY DEF After
<1> HIDE DEF k
<1>4. words[k + 1].of = value
  BY <1>2 DEF Good, AllTake
<1>5. k \in DOMAIN words /\ k + 1 \in DOMAIN words
  BY <1>2 DEF Good, AllTake
<1>6. 1 + k = k + 1
  <2>1. k \in Nat
    BY <1>5
  <2> QED  BY <2>1
<1> QED  BY <1>3, <1>4, <1>6

Says(words, word) == \E i \in DOMAIN words : words[i] = word

LEMMA JoinedSays ==
  ASSUME NEW W, NEW u \in Seq(W), NEW v \in Seq(W), NEW word, Says(u, word) \/ Says(v, word)
  PROVE  Says(u \o v, word)
<1>1. CASE Says(u, word)
  <2>1. PICK i \in DOMAIN u : u[i] = word
    BY <1>1 DEF Says
  <2>2. i \in DOMAIN (u \o v) /\ (u \o v)[i] = word
    BY <2>1
  <2> QED  BY <2>2 DEF Says
<1>2. CASE Says(v, word)
  <2>1. PICK i \in DOMAIN v : v[i] = word
    BY <1>2 DEF Says
  <2>2. Len(u) + i \in DOMAIN (u \o v) /\ (u \o v)[Len(u) + i] = word
    BY <2>1
  <2> QED  BY <2>2 DEF Says
<1> QED  BY <1>1, <1>2

Only(a, word) == Len(a) = 1 /\ a[1] = word

(* Two words, one after the other, that are a flag and its value. *)
PairOf(a, b, f, v) == Only(a, Flag(f)) /\ Only(b, Value(v))

Line(W, words, flag, value) == words \in Seq(W) /\ Good(words, flag, value)

(* A line that goes on, up to where a flag has its value. *)
GoesOn(W, u, line, f, flag, value) ==
  /\ Line(W, line, flag, value)
  /\ Says(line, Flag(f))
  /\ \A word : Says(u, word) => Says(line, word)

Fits(f, v, flag, value) == f = flag => v = value

LEMMA PairFirst ==
  ASSUME NEW W, NEW a \in Seq(W), NEW b \in Seq(W), NEW f, NEW v, PairOf(a, b, f, v),
         NEW flag, NEW value, f = flag => v = value
  PROVE  Line(W, a \o b, flag, value) /\ Says(a \o b, Flag(f))
<1> DEFINE w == a \o b
<1>1. Len(a) = 1 /\ Len(b) = 1 /\ a[1] = Flag(f) /\ b[1] = Value(v)
  BY DEF PairOf, Only
<1>2. w \in Seq(W) /\ Len(w) = 2 /\ DOMAIN w = 1..2 /\ w[1] = a[1] /\ w[2] = b[1]
  <2>1. Len(a) = 1 /\ Len(b) = 1
    BY <1>1
  <2>2. w \in Seq(W) /\ Len(w) = Len(a) + Len(b) /\ DOMAIN w = 1..Len(w)
    OBVIOUS
  <2>3. \A i \in 1..Len(a) : w[i] = a[i]
    OBVIOUS
  <2>4. \A i \in Len(a) + 1..Len(a) + Len(b) : w[i] = b[i - Len(a)]
    OBVIOUS
  <2>5. w[1] = a[1]
    BY <2>1, <2>3
  <2>6. w[2] = b[2 - 1]
    <3>1. \A i \in 1 + 1..1 + 1 : w[i] = b[i - 1]
      BY <2>1, <2>4
    <3> HIDE DEF w
    <3> QED  BY ONLY <3>1
  <2> QED  BY <2>1, <2>2, <2>5, <2>6
<1> HIDE DEF w
<1>3. /\ w[1].is = "flag" /\ w[1].of = f
      /\ w[2].is = "value" /\ w[2].of = v
  BY <1>1, <1>2 DEF Flag, Value
<1>4. \A i \in 1..2 : i = 1 \/ i = 2
  OBVIOUS
<1>5. Good(w, flag, value)
  BY <1>2, <1>3, <1>4 DEF Good, Swallows, AllTake
<1>6. Says(w, Flag(f))
  BY <1>1, <1>2 DEF Says
<1> QED  BY <1>2, <1>5, <1>6 DEF Line, w

LEMMA Joined ==
  ASSUME NEW W, NEW u, NEW v, NEW flag, NEW value,
         Line(W, u, flag, value), Line(W, v, flag, value)
  PROVE  /\ Line(W, u \o v, flag, value)
         /\ \A word : Says(u, word) \/ Says(v, word) => Says(u \o v, word)
<1>1. u \in Seq(W) /\ v \in Seq(W) /\ Good(u, flag, value) /\ Good(v, flag, value)
  BY DEF Line
<1>2. u \o v \in Seq(W)
  BY <1>1
<1>3. Good(u \o v, flag, value)
  BY <1>1, JoinedIsGood
<1> QED  BY <1>1, <1>2, <1>3, JoinedSays DEF Line

(* A line that has two others in it. *)
Carries(W, flag, value, u, a, line) ==
  /\ Line(W, line, flag, value)
  /\ \A w : Says(u, w) \/ Says(a, w) => Says(line, w)

LEMMA JoinedTwice ==
  ASSUME NEW W, NEW flag, NEW value, NEW u, NEW a, NEW b,
         Line(W, u, flag, value), Line(W, a, flag, value), Line(W, b, flag, value),
         NEW v, v = u \o a, NEW line, line = v \o b
  PROVE  Carries(W, flag, value, u, a, line)
<1>1. Line(W, v, flag, value) /\ \A w : Says(u, w) \/ Says(a, w) => Says(v, w)
  BY Joined
<1>2. Line(W, line, flag, value) /\ \A w : Says(v, w) \/ Says(b, w) => Says(line, w)
  BY <1>1, Joined
<1> QED  BY <1>1, <1>2 DEF Carries

(* A line that a flag with its value is added to. *)
LEMMA PairAdded ==
  ASSUME NEW W, NEW a \in Seq(W), NEW b \in Seq(W), NEW f, NEW v, PairOf(a, b, f, v),
         NEW flag, NEW value, Fits(f, v, flag, value),
         NEW u, Line(W, u, flag, value), NEW line, line = (u \o a) \o b
  PROVE  GoesOn(W, u, line, f, flag, value)
<1> DEFINE w == a \o b
<1>1. Line(W, w, flag, value) /\ Says(w, Flag(f))
  BY PairFirst DEF Fits
<1>2. line = u \o w
  <2>1. u \in Seq(W)
    BY DEF Line
  <2> QED  BY ONLY a \in Seq(W), b \in Seq(W), line = (u \o a) \o b, <2>1
<1> HIDE DEF w
<1>3. /\ Line(W, u \o w, flag, value)
      /\ \A word : Says(u, word) \/ Says(w, word) => Says(u \o w, word)
  BY <1>1, Joined
<1> QED  BY <1>1, <1>2, <1>3 DEF GoesOn

LEMMA ElementsAreLines ==
  ASSUME NEW W, NEW seqs \in Seq(Seq(W))
  PROVE  \A i \in 1..Len(seqs) : seqs[i] \in Seq(W)
OBVIOUS

(* The lines on the way to the whole one. *)
LEMMA FlattenWords ==
  ASSUME NEW W, NEW seqs \in Seq(Seq(W)), NEW n \in Nat, Len(seqs) = n, n # 0
  PROVE  /\ \A i \in 1..n : seqs[i] \in Seq(W)
         /\ \E flat : /\ flat[1] = seqs[1]
                      /\ \A i \in 1..n - 1 : flat[i + 1] = flat[i] \o seqs[i + 1]
                      /\ FlattenSeq(seqs) = flat[n]
<1>1. seqs # <<>>
  OBVIOUS
<1>2. PICK flat : /\ flat[1] = seqs[1]
                  /\ \A i \in 2..Len(seqs) : flat[i] = flat[i - 1] \o seqs[i]
                  /\ FlattenSeq(seqs) = flat[Len(seqs)]
  BY <1>1, FlattenSteps
<1>3. ASSUME NEW i \in 1..n - 1 PROVE flat[i + 1] = flat[i] \o seqs[i + 1]
  <2>1. i + 1 \in 2..n /\ (i + 1) - 1 = i
    OBVIOUS
  <2>2. flat[i + 1] = flat[(i + 1) - 1] \o seqs[i + 1]
    BY <1>2, <2>1
  <2> QED  BY <2>1, <2>2
<1> QED  BY <1>2, <1>3, ElementsAreLines

(* Four pairs, one after the other. *)
LEMMA FlattenEight ==
  ASSUME NEW W, NEW seqs \in Seq(Seq(W)), NEW n \in Nat, Len(seqs) = n, n = 8
  PROVE  \E two, four, six :
           /\ two = seqs[1] \o seqs[2]
           /\ four = (two \o seqs[3]) \o seqs[4]
           /\ six = (four \o seqs[5]) \o seqs[6]
           /\ FlattenSeq(seqs) = (six \o seqs[7]) \o seqs[8]
<1>1. n # 0
  OBVIOUS
<1>2. PICK flat : /\ flat[1] = seqs[1]
                  /\ \A i \in 1..n - 1 : flat[i + 1] = flat[i] \o seqs[i + 1]
                  /\ FlattenSeq(seqs) = flat[n]
  BY <1>1, FlattenWords
<1> DEFINE next(i) == flat[i] \o seqs[i + 1]
<1>3. \A i \in 1..7 : flat[i + 1] = next(i)
  <2>1. \A i \in 1..n - 1 : flat[i + 1] = next(i)
    BY <1>2
  <2> HIDE DEF next
  <2> QED  BY ONLY <2>1, n = 8
<1> HIDE DEF next
<1>4. /\ flat[2] = next(1) /\ flat[3] = next(2) /\ flat[4] = next(3) /\ flat[5] = next(4)
      /\ flat[6] = next(5) /\ flat[7] = next(6) /\ flat[8] = next(7)
  BY ONLY <1>3
<1>5. /\ flat[2] = flat[1] \o seqs[2] /\ flat[3] = flat[2] \o seqs[3]
      /\ flat[4] = flat[3] \o seqs[4] /\ flat[5] = flat[4] \o seqs[5]
      /\ flat[6] = flat[5] \o seqs[6] /\ flat[7] = flat[6] \o seqs[7]
      /\ flat[8] = flat[7] \o seqs[8]
  <2>1. /\ next(1) = flat[1] \o seqs[2] /\ next(2) = flat[2] \o seqs[3]
        /\ next(3) = flat[3] \o seqs[4] /\ next(4) = flat[4] \o seqs[5]
    BY ONLY DEF next
  <2>2. /\ next(5) = flat[5] \o seqs[6] /\ next(6) = flat[6] \o seqs[7]
        /\ next(7) = flat[7] \o seqs[8]
    BY ONLY DEF next
  <2> QED  BY ONLY <1>4, <2>1, <2>2, Zenon
<1> QED  BY <1>2, <1>5, Zenon

LEMMA FlattenEleven ==
  ASSUME NEW W, NEW seqs \in Seq(Seq(W)), NEW n \in Nat, Len(seqs) = n, n = 11
  PROVE  \E three, five, seven, nine, ten :
           /\ three = (seqs[1] \o seqs[2]) \o seqs[3]
           /\ five = (three \o seqs[4]) \o seqs[5]
           /\ seven = (five \o seqs[6]) \o seqs[7]
           /\ nine = (seven \o seqs[8]) \o seqs[9]
           /\ ten = nine \o seqs[10]
           /\ FlattenSeq(seqs) = ten \o seqs[11]
<1>1. n # 0
  OBVIOUS
<1>2. PICK flat : /\ flat[1] = seqs[1]
                  /\ \A i \in 1..n - 1 : flat[i + 1] = flat[i] \o seqs[i + 1]
                  /\ FlattenSeq(seqs) = flat[n]
  BY <1>1, FlattenWords
<1> DEFINE next(i) == flat[i] \o seqs[i + 1]
<1>3. \A i \in 1..10 : flat[i + 1] = next(i)
  <2>1. \A i \in 1..n - 1 : flat[i + 1] = next(i)
    BY <1>2
  <2> HIDE DEF next
  <2> QED  BY ONLY <2>1, n = 11
<1> HIDE DEF next
<1>4. /\ flat[2] = next(1) /\ flat[3] = next(2) /\ flat[4] = next(3) /\ flat[5] = next(4)
      /\ flat[6] = next(5) /\ flat[7] = next(6) /\ flat[8] = next(7) /\ flat[9] = next(8)
      /\ flat[10] = next(9) /\ flat[11] = next(10)
  <2>1. /\ flat[1 + 1] = next(1) /\ flat[2 + 1] = next(2) /\ flat[3 + 1] = next(3)
        /\ flat[4 + 1] = next(4) /\ flat[5 + 1] = next(5)
    BY ONLY <1>3
  <2>2. /\ flat[6 + 1] = next(6) /\ flat[7 + 1] = next(7) /\ flat[8 + 1] = next(8)
        /\ flat[9 + 1] = next(9) /\ flat[10 + 1] = next(10)
    BY ONLY <1>3
  <2> QED  BY ONLY <2>1, <2>2
<1>5. /\ flat[2] = flat[1] \o seqs[2] /\ flat[3] = flat[2] \o seqs[3]
      /\ flat[4] = flat[3] \o seqs[4] /\ flat[5] = flat[4] \o seqs[5]
      /\ flat[6] = flat[5] \o seqs[6] /\ flat[7] = flat[6] \o seqs[7]
      /\ flat[8] = flat[7] \o seqs[8] /\ flat[9] = flat[8] \o seqs[9]
      /\ flat[10] = flat[9] \o seqs[10] /\ flat[11] = flat[10] \o seqs[11]
  <2>1. /\ next(1) = flat[1] \o seqs[2] /\ next(2) = flat[2] \o seqs[3]
        /\ next(3) = flat[3] \o seqs[4] /\ next(4) = flat[4] \o seqs[5]
        /\ next(5) = flat[5] \o seqs[6]
    BY ONLY DEF next
  <2>2. /\ next(6) = flat[6] \o seqs[7] /\ next(7) = flat[7] \o seqs[8]
        /\ next(8) = flat[8] \o seqs[9] /\ next(9) = flat[9] \o seqs[10]
        /\ next(10) = flat[10] \o seqs[11]
    BY ONLY DEF next
  <2> QED  BY ONLY <1>4, <2>1, <2>2, Zenon
<1> QED  BY <1>2, <1>5, Zenon

LEMMA OnlyAValue ==
  ASSUME NEW W, NEW a \in Seq(W), NEW v, Only(a, Value(v)), NEW flag, NEW value
  PROVE  Line(W, a, flag, value)
<1>1. Len(a) = 1 /\ DOMAIN a = 1..1 /\ a[1].is = "value"
  <2>1. Len(a) = 1 /\ a[1] = Value(v)
    BY DEF Only
  <2>2. DOMAIN a = 1..Len(a)
    OBVIOUS
  <2> QED  BY <2>1, <2>2 DEF Value
<1> QED  BY <1>1 DEF Line, Good, Swallows, AllTake

-----------------------------------------------------------------------------
(* What a template's words are filled with.                                *)

Word(t, key, w) == IF w.is = "hole" THEN Filling(w.of, t, key) ELSE <<w>>

LEMMA WordOfFlag ==
  ASSUME NEW t, NEW key, NEW f
  PROVE  Word(t, key, Flag(f)) = <<Flag(f)>>
BY DEF Word, Flag

LEMMA WordOfHole ==
  ASSUME NEW t, NEW key, NEW h
  PROVE  Word(t, key, Hole(h)) = Filling(h, t, key)
BY DEF Word, Hole

LEMMA Fillings ==
  ASSUME NEW t, NEW key, t.chat # NoSlot, t.maxLen # 0, t.seqs # 0, TotalContext(t) # 0
  PROVE  /\ Filling("chatModel", t, key) = <<Value(<<t.chat.repo, t.chat.quant>>)>>
         /\ Filling("apiKey", t, key) = <<Value(key)>>
         /\ Filling("maxModelLen", t, key) = <<Value(t.maxLen)>>
         /\ Filling("maxConcurrentSequences", t, key) = <<Value(t.seqs)>>
         /\ Filling("totalContext", t, key) = <<Value(TotalContext(t))>>
         /\ Filling("chatGpuFraction", t, key) = <<Value(VramSplit(t).chat)>>
         /\ Filling("toolFlags", t, key) =
              IF t.tools = None THEN <<>>
              ELSE <<Flag("--enable-auto-tool-choice"), Flag("--tool-call-parser"), Value(t.tools)>>
         /\ Filling("reasoningFlags", t, key) =
              IF t.thinks = None THEN <<>> ELSE <<Flag("--reasoning-parser"), Value(t.thinks)>>
BY DEF Filling

LEMMA LineTells ==
  ASSUME NEW W, NEW line, NEW flag, NEW value, Line(W, line, flag, value)
  PROVE  /\ ~Swallows(line)
         /\ Says(line, Flag(flag)) => After(line, flag) = value
<1>1. line \in Seq(W) /\ Good(line, flag, value)
  BY DEF Line
<1>2. ~Swallows(line)
  BY <1>1 DEF Good
<1>3. ASSUME Says(line, Flag(flag)) PROVE After(line, flag) = value
  <2>1. PICK i \in DOMAIN line : line[i] = Flag(flag)
    BY <1>3 DEF Says
  <2> QED  BY <1>1, <2>1, TakesItsValue, Zenon
<1> QED  BY <1>2, <1>3

LEMMA OneWord ==
  ASSUME NEW W, NEW x \in W
  PROVE  <<x>> \in Seq(W) /\ Only(<<x>>, x)
BY DEF Only

LEMMA Rendered ==
  ASSUME NEW t, NEW key
  PROVE  RenderArgs(t, key) = FlattenSeq([i \in DOMAIN t.args |-> Word(t, key, t.args[i])])
BY DEF RenderArgs, Word

LEMMA LlamacppRenders ==
  ASSUME NEW t, NEW key, t.args = LlamacppChatArgs,
         t.chat # NoSlot, t.maxLen # 0, t.seqs # 0, TotalContext(t) # 0
  PROVE  /\ ~Swallows(RenderArgs(t, key))
         /\ After(RenderArgs(t, key), "--ctx-size") = TotalContext(t)
         /\ After(RenderArgs(t, key), "--parallel") = t.seqs
<1> DEFINE model == <<t.chat.repo, t.chat.quant>>
           W == {Flag("-hf"), Value(model), Flag("--api-key"), Value(key), Flag("--ctx-size"),
                 Value(TotalContext(t)), Flag("--parallel"), Value(t.seqs)}
           word(i) == Word(t, key, t.args[i])
           seqs == [i \in 1..8 |-> word(i)]
<1>1. /\ DOMAIN t.args = 1..8
      /\ t.args[1] = Flag("-hf") /\ t.args[2] = Hole("chatModel")
      /\ t.args[3] = Flag("--api-key") /\ t.args[4] = Hole("apiKey")
      /\ t.args[5] = Flag("--ctx-size") /\ t.args[6] = Hole("totalContext")
      /\ t.args[7] = Flag("--parallel") /\ t.args[8] = Hole("maxConcurrentSequences")
  BY DEF LlamacppChatArgs
<1>2. /\ word(1) = <<Flag("-hf")>> /\ word(2) = <<Value(model)>>
      /\ word(3) = <<Flag("--api-key")>> /\ word(4) = <<Value(key)>>
      /\ word(5) = <<Flag("--ctx-size")>> /\ word(6) = <<Value(TotalContext(t))>>
      /\ word(7) = <<Flag("--parallel")>> /\ word(8) = <<Value(t.seqs)>>
  <2>1. word(1) = <<Flag("-hf")>> /\ word(3) = <<Flag("--api-key")>>
    BY <1>1, WordOfFlag, Zenon
  <2>2. word(5) = <<Flag("--ctx-size")>> /\ word(7) = <<Flag("--parallel")>>
    BY <1>1, WordOfFlag, Zenon
  <2>3. /\ word(2) = Filling("chatModel", t, key) /\ word(4) = Filling("apiKey", t, key)
        /\ word(6) = Filling("totalContext", t, key)
        /\ word(8) = Filling("maxConcurrentSequences", t, key)
    BY <1>1, WordOfHole, Zenon
  <2> HIDE DEF word
  <2> QED  BY <2>1, <2>2, <2>3, Fillings, Zenon
<1>3. /\ Flag("-hf") \in W /\ Value(model) \in W /\ Flag("--api-key") \in W /\ Value(key) \in W
      /\ Flag("--ctx-size") \in W /\ Value(TotalContext(t)) \in W
      /\ Flag("--parallel") \in W /\ Value(t.seqs) \in W
  BY Zenon
<1>4. RenderArgs(t, key) = FlattenSeq(seqs)
  BY <1>1, Rendered, Zenon
<1> HIDE DEF W, word, model
<1>5. /\ word(1) \in Seq(W) /\ word(2) \in Seq(W) /\ word(3) \in Seq(W) /\ word(4) \in Seq(W)
      /\ word(5) \in Seq(W) /\ word(6) \in Seq(W) /\ word(7) \in Seq(W) /\ word(8) \in Seq(W)
  BY <1>2, <1>3, OneWord, Zenon
<1>6. /\ PairOf(word(1), word(2), "-hf", model) /\ PairOf(word(3), word(4), "--api-key", key)
      /\ PairOf(word(5), word(6), "--ctx-size", TotalContext(t))
      /\ PairOf(word(7), word(8), "--parallel", t.seqs)
  BY <1>2, <1>3, OneWord, Zenon DEF PairOf
<1>7. seqs \in Seq(Seq(W)) /\ Len(seqs) = 8
  <2>1. \A i \in 1..8 : i \in {1, 2, 3, 4, 5, 6, 7, 8}
    OBVIOUS
  <2>2. \A i \in {1, 2, 3, 4, 5, 6, 7, 8} : word(i) \in Seq(W)
    BY <1>5, Zenon
  <2>3. \A i \in 1..8 : word(i) \in Seq(W)
    BY <2>1, <2>2, Zenon
  <2> DEFINE T == Seq(W)
  <2>4. \A i \in 1..8 : word(i) \in T
    BY <2>3
  <2> HIDE DEF T
  <2>5. seqs \in Seq(T) /\ Len(seqs) = 8
    BY <2>4
  <2> QED  BY <2>5 DEF T
<1>8. /\ seqs[1] = word(1) /\ seqs[2] = word(2) /\ seqs[3] = word(3) /\ seqs[4] = word(4)
      /\ seqs[5] = word(5) /\ seqs[6] = word(6) /\ seqs[7] = word(7) /\ seqs[8] = word(8)
  OBVIOUS
<1> HIDE DEF seqs
<1>9. PICK two, four, six :
           /\ two = seqs[1] \o seqs[2]
           /\ four = (two \o seqs[3]) \o seqs[4]
           /\ six = (four \o seqs[5]) \o seqs[6]
           /\ FlattenSeq(seqs) = (six \o seqs[7]) \o seqs[8]
  <2>1. 8 \in Nat /\ 8 = 8
    OBVIOUS
  <2> QED  BY <1>7, <2>1, FlattenEight, Zenon
<1> DEFINE line == FlattenSeq(seqs)
           Right(flag, value) == /\ Line(W, line, flag, value)
                                 /\ Says(line, Flag("--ctx-size")) /\ Says(line, Flag("--parallel"))
<1>10. ASSUME NEW flag, NEW value, flag # "-hf", Fits("--api-key", key, flag, value),
              Fits("--ctx-size", TotalContext(t), flag, value), Fits("--parallel", t.seqs, flag, value)
       PROVE  Right(flag, value)
  <2> HIDE DEF line
  <2>1. /\ two = word(1) \o word(2)
        /\ four = (two \o word(3)) \o word(4)
        /\ six = (four \o word(5)) \o word(6)
        /\ line = (six \o word(7)) \o word(8)
    BY <1>8, <1>9, Zenon DEF line
  <2>2. Line(W, two, flag, value)
    <3>1. Line(W, word(1) \o word(2), flag, value)
      BY <1>5, <1>6, <1>10, PairFirst, Zenon
    <3> QED  BY <2>1, <3>1, Zenon
  <2>3. GoesOn(W, two, four, "--api-key", flag, value)
    BY <1>5, <1>6, <1>10, <2>1, <2>2, PairAdded, Zenon
  <2>4. Line(W, four, flag, value)
    BY <2>3, Zenon DEF GoesOn
  <2>5. GoesOn(W, four, six, "--ctx-size", flag, value)
    BY <1>5, <1>6, <1>10, <2>1, <2>4, PairAdded, Zenon
  <2>6. Line(W, six, flag, value) /\ Says(six, Flag("--ctx-size"))
    BY <2>5, Zenon DEF GoesOn
  <2>7. GoesOn(W, six, line, "--parallel", flag, value)
    BY <1>5, <1>6, <1>10, <2>1, <2>6, PairAdded, Zenon
  <2> QED  BY <2>6, <2>7, Zenon DEF GoesOn
<1> HIDE DEF Right
<1>11. Right("--ctx-size", TotalContext(t))
  BY <1>10 DEF Fits
<1>12. Right("--parallel", t.seqs)
  BY <1>10 DEF Fits
<1> QED  BY <1>4, <1>11, <1>12, LineTells, Zenon DEF Right

(* What is said of tools and of thinking, which may be nothing. *)
LEMMA NothingIsALine ==
  ASSUME NEW W, NEW flag, NEW value
  PROVE  Line(W, <<>>, flag, value)
BY NothingIsGood DEF Line

LEMMA ToolsAreALine ==
  ASSUME NEW W, NEW v, Flag("--enable-auto-tool-choice") \in W, Flag("--tool-call-parser") \in W,
         Value(v) \in W, NEW flag, NEW value, flag # "--enable-auto-tool-choice",
         Fits("--tool-call-parser", v, flag, value)
  PROVE  LET words == <<Flag("--enable-auto-tool-choice"), Flag("--tool-call-parser"), Value(v)>>
         IN  Line(W, words, flag, value) /\ Says(words, Flag("--tool-call-parser"))
<1> DEFINE a == Flag("--enable-auto-tool-choice")
           b == Flag("--tool-call-parser")
           words == <<a, b, Value(v)>>
<1>1. Good(words, flag, value)
  BY ToolsAreGood DEF Fits
<1>2. a \in W /\ b \in W
  OBVIOUS
<1> HIDE DEF a, b
<1>3. words \in Seq(W) /\ 2 \in DOMAIN words /\ words[2] = b
  BY <1>2
<1> HIDE DEF words
<1>4. Says(words, b)
  BY <1>3 DEF Says
<1> QED  BY <1>1, <1>3, <1>4 DEF Line, words, a, b

LEMMA ThinkingIsALine ==
  ASSUME NEW W, NEW f, NEW v, Flag(f) \in W, Value(v) \in W, NEW flag, NEW value,
         Fits(f, v, flag, value)
  PROVE  Line(W, <<Flag(f), Value(v)>>, flag, value)
<1> DEFINE w == <<Flag(f), Value(v)>>
<1>1. w \in Seq(W)
  OBVIOUS
<1>2. /\ DOMAIN w = 1..2 /\ Len(w) = 2
      /\ w[1].is = "flag" /\ w[1].of = f /\ w[2].is = "value" /\ w[2].of = v
  BY DEF Flag, Value
<1>3. \A i \in 1..2 : i = 1 \/ i = 2
  OBVIOUS
<1> HIDE DEF w
<1>4. Good(w, flag, value)
  BY <1>2, <1>3 DEF Good, Swallows, AllTake, Fits
<1> QED  BY <1>1, <1>4 DEF Line, w

LEMMA VllmRenders ==
  ASSUME NEW t, NEW key, t.args = VllmChatArgs,
         t.chat # NoSlot, t.maxLen # 0, t.seqs # 0, TotalContext(t) # 0
  PROVE  /\ ~Swallows(RenderArgs(t, key))
         /\ After(RenderArgs(t, key), "--max-model-len") = t.maxLen
         /\ t.tools # None => After(RenderArgs(t, key), "--tool-call-parser") = t.tools
<1> DEFINE model == <<t.chat.repo, t.chat.quant>>
           share == VramSplit(t).chat
           W == {Value(model), Flag("--api-key"), Value(key), Flag("--max-model-len"),
                 Value(t.maxLen), Flag("--gpu-memory-utilization"), Value(share),
                 Flag("--max-num-seqs"), Value(t.seqs), Flag("--enable-auto-tool-choice"),
                 Flag("--tool-call-parser"), Value(t.tools), Flag("--reasoning-parser"),
                 Value(t.thinks)}
           word(i) == Word(t, key, t.args[i])
           seqs == [i \in 1..11 |-> word(i)]
<1>1. /\ DOMAIN t.args = 1..11
      /\ t.args[1] = Hole("chatModel")
      /\ t.args[2] = Flag("--api-key") /\ t.args[3] = Hole("apiKey")
      /\ t.args[4] = Flag("--max-model-len") /\ t.args[5] = Hole("maxModelLen")
      /\ t.args[6] = Flag("--gpu-memory-utilization") /\ t.args[7] = Hole("chatGpuFraction")
      /\ t.args[8] = Flag("--max-num-seqs") /\ t.args[9] = Hole("maxConcurrentSequences")
      /\ t.args[10] = Hole("toolFlags") /\ t.args[11] = Hole("reasoningFlags")
  BY DEF VllmChatArgs
<1>2. /\ word(1) = <<Value(model)>>
      /\ word(2) = <<Flag("--api-key")>> /\ word(3) = <<Value(key)>>
      /\ word(4) = <<Flag("--max-model-len")>> /\ word(5) = <<Value(t.maxLen)>>
      /\ word(6) = <<Flag("--gpu-memory-utilization")>> /\ word(7) = <<Value(share)>>
      /\ word(8) = <<Flag("--max-num-seqs")>> /\ word(9) = <<Value(t.seqs)>>
      /\ word(10) = IF t.tools = None THEN <<>>
                    ELSE <<Flag("--enable-auto-tool-choice"), Flag("--tool-call-parser"), Value(t.tools)>>
      /\ word(11) = IF t.thinks = None THEN <<>>
                    ELSE <<Flag("--reasoning-parser"), Value(t.thinks)>>
  <2>1. word(2) = <<Flag("--api-key")>> /\ word(4) = <<Flag("--max-model-len")>>
    BY <1>1, WordOfFlag, Zenon
  <2>2. word(6) = <<Flag("--gpu-memory-utilization")>> /\ word(8) = <<Flag("--max-num-seqs")>>
    BY <1>1, WordOfFlag, Zenon
  <2>3. /\ word(1) = Filling("chatModel", t, key) /\ word(3) = Filling("apiKey", t, key)
        /\ word(5) = Filling("maxModelLen", t, key)
        /\ word(7) = Filling("chatGpuFraction", t, key)
    BY <1>1, WordOfHole, Zenon
  <2>4. /\ word(9) = Filling("maxConcurrentSequences", t, key)
        /\ word(10) = Filling("toolFlags", t, key)
        /\ word(11) = Filling("reasoningFlags", t, key)
    BY <1>1, WordOfHole, Zenon
  <2> HIDE DEF word
  <2>5. /\ word(1) = <<Value(model)>> /\ word(3) = <<Value(key)>>
        /\ word(5) = <<Value(t.maxLen)>> /\ word(7) = <<Value(share)>>
    BY <2>3, Fillings, ZenonT(30)
  <2>6. /\ word(9) = <<Value(t.seqs)>>
        /\ word(10) = IF t.tools = None THEN <<>>
             ELSE <<Flag("--enable-auto-tool-choice"), Flag("--tool-call-parser"), Value(t.tools)>>
        /\ word(11) = IF t.thinks = None THEN <<>>
                      ELSE <<Flag("--reasoning-parser"), Value(t.thinks)>>
    BY <2>4, Fillings, ZenonT(30)
  <2> HIDE DEF model, share
  <2> QED  BY <2>1, <2>2, <2>5, <2>6, ZenonT(30)
<1>3. /\ Value(model) \in W /\ Flag("--api-key") \in W /\ Value(key) \in W
      /\ Flag("--max-model-len") \in W /\ Value(t.maxLen) \in W
      /\ Flag("--gpu-memory-utilization") \in W /\ Value(share) \in W
      /\ Flag("--max-num-seqs") \in W /\ Value(t.seqs) \in W
      /\ Flag("--enable-auto-tool-choice") \in W /\ Flag("--tool-call-parser") \in W
      /\ Value(t.tools) \in W /\ Flag("--reasoning-parser") \in W /\ Value(t.thinks) \in W
  BY Zenon
<1>4. RenderArgs(t, key) = FlattenSeq(seqs)
  BY <1>1, Rendered, Zenon
<1> HIDE DEF W, word, model, share
<1>5. /\ word(1) \in Seq(W) /\ word(2) \in Seq(W) /\ word(3) \in Seq(W) /\ word(4) \in Seq(W)
      /\ word(5) \in Seq(W) /\ word(6) \in Seq(W) /\ word(7) \in Seq(W) /\ word(8) \in Seq(W)
      /\ word(9) \in Seq(W)
  BY <1>2, <1>3, OneWord, Zenon
<1>6. /\ Only(word(1), Value(model)) /\ PairOf(word(2), word(3), "--api-key", key)
      /\ PairOf(word(4), word(5), "--max-model-len", t.maxLen)
      /\ PairOf(word(6), word(7), "--gpu-memory-utilization", share)
      /\ PairOf(word(8), word(9), "--max-num-seqs", t.seqs)
  BY <1>2, <1>3, OneWord, Zenon DEF PairOf
<1>7. ASSUME NEW flag, NEW value, flag # "--enable-auto-tool-choice",
             Fits("--tool-call-parser", t.tools, flag, value),
             Fits("--reasoning-parser", t.thinks, flag, value)
      PROVE  /\ Line(W, word(10), flag, value) /\ Line(W, word(11), flag, value)
             /\ t.tools # None => Says(word(10), Flag("--tool-call-parser"))
  <2>1. /\ Line(W, word(10), flag, value)
        /\ t.tools # None => Says(word(10), Flag("--tool-call-parser"))
    <3>1. CASE t.tools = None
      BY <1>2, <3>1, NothingIsALine, Zenon
    <3>2. CASE t.tools # None
      <4>1. word(10) = <<Flag("--enable-auto-tool-choice"), Flag("--tool-call-parser"), Value(t.tools)>>
        BY <1>2, <3>2, Zenon
      <4> QED  BY <1>3, <1>7, <4>1, ToolsAreALine, Zenon
    <3> QED  BY <3>1, <3>2
  <2>2. Line(W, word(11), flag, value)
    <3>1. CASE t.thinks = None
      BY <1>2, <3>1, NothingIsALine, Zenon
    <3>2. CASE t.thinks # None
      <4>1. word(11) = <<Flag("--reasoning-parser"), Value(t.thinks)>>
        BY <1>2, <3>2, Zenon
      <4> QED  BY <1>3, <1>7, <4>1, ThinkingIsALine, Zenon
    <3> QED  BY <3>1, <3>2
  <2> QED  BY <2>1, <2>2
<1>8. word(10) \in Seq(W) /\ word(11) \in Seq(W)
  <2>1. Line(W, word(10), "--port", 0) /\ Line(W, word(11), "--port", 0)
    BY <1>7 DEF Fits
  <2> QED  BY <2>1 DEF Line
<1>9. seqs \in Seq(Seq(W)) /\ Len(seqs) = 11
  <2>1. \A i \in 1..11 : i \in {1, 2, 3, 4, 5, 6, 7, 8, 9, 10, 11}
    OBVIOUS
  <2>2. \A i \in {1, 2, 3, 4, 5, 6, 7, 8, 9, 10, 11} : word(i) \in Seq(W)
    BY <1>5, <1>8, Zenon
  <2>3. \A i \in 1..11 : word(i) \in Seq(W)
    BY <2>1, <2>2, Zenon
  <2> DEFINE T == Seq(W)
  <2>4. \A i \in 1..11 : word(i) \in T
    BY <2>3
  <2> HIDE DEF T
  <2>5. seqs \in Seq(T) /\ Len(seqs) = 11
    BY <2>4
  <2> QED  BY <2>5 DEF T
<1>10. /\ seqs[1] = word(1) /\ seqs[2] = word(2) /\ seqs[3] = word(3) /\ seqs[4] = word(4)
       /\ seqs[5] = word(5) /\ seqs[6] = word(6) /\ seqs[7] = word(7) /\ seqs[8] = word(8)
       /\ seqs[9] = word(9) /\ seqs[10] = word(10) /\ seqs[11] = word(11)
  OBVIOUS
<1> HIDE DEF seqs
<1>11. PICK three, five, seven, nine, ten :
           /\ three = (seqs[1] \o seqs[2]) \o seqs[3]
           /\ five = (three \o seqs[4]) \o seqs[5]
           /\ seven = (five \o seqs[6]) \o seqs[7]
           /\ nine = (seven \o seqs[8]) \o seqs[9]
           /\ ten = nine \o seqs[10]
           /\ FlattenSeq(seqs) = ten \o seqs[11]
  <2>1. 11 \in Nat /\ 11 = 11
    OBVIOUS
  <2> QED  BY <1>9, <2>1, FlattenEleven, Zenon
<1> DEFINE line == FlattenSeq(seqs)
           Right(flag, value) == /\ Line(W, line, flag, value)
                                 /\ Says(line, Flag("--max-model-len"))
                                 /\ t.tools # None => Says(line, Flag("--tool-call-parser"))
<1>12. ASSUME NEW flag, NEW value, flag # "--enable-auto-tool-choice",
              Fits("--api-key", key, flag, value), Fits("--max-model-len", t.maxLen, flag, value),
              Fits("--gpu-memory-utilization", share, flag, value),
              Fits("--max-num-seqs", t.seqs, flag, value),
              Fits("--tool-call-parser", t.tools, flag, value),
              Fits("--reasoning-parser", t.thinks, flag, value)
       PROVE  Right(flag, value)
  <2> HIDE DEF line
  <2>1. /\ three = (word(1) \o word(2)) \o word(3)
        /\ five = (three \o word(4)) \o word(5)
        /\ seven = (five \o word(6)) \o word(7)
        /\ nine = (seven \o word(8)) \o word(9)
        /\ ten = nine \o word(10)
        /\ line = ten \o word(11)
    BY <1>10, <1>11, Zenon DEF line
  <2>2. Line(W, word(1), flag, value)
    BY <1>5, <1>6, OnlyAValue, Zenon
  <2>3. GoesOn(W, word(1), three, "--api-key", flag, value)
    BY <1>5, <1>6, <1>12, <2>1, <2>2, PairAdded, Zenon
  <2>4. Line(W, three, flag, value)
    BY <2>3, Zenon DEF GoesOn
  <2>5. GoesOn(W, three, five, "--max-model-len", flag, value)
    BY <1>5, <1>6, <1>12, <2>1, <2>4, PairAdded, Zenon
  <2>6. Line(W, five, flag, value) /\ Says(five, Flag("--max-model-len"))
    BY <2>5, Zenon DEF GoesOn
  <2>7. GoesOn(W, five, seven, "--gpu-memory-utilization", flag, value)
    BY <1>5, <1>6, <1>12, <2>1, <2>6, PairAdded, Zenon
  <2>8. Line(W, seven, flag, value) /\ Says(seven, Flag("--max-model-len"))
    BY <2>6, <2>7, Zenon DEF GoesOn
  <2>9. GoesOn(W, seven, nine, "--max-num-seqs", flag, value)
    BY <1>5, <1>6, <1>12, <2>1, <2>8, PairAdded, Zenon
  <2>10. Line(W, nine, flag, value) /\ Says(nine, Flag("--max-model-len"))
    BY <2>8, <2>9, Zenon DEF GoesOn
  <2>11. /\ Line(W, word(10), flag, value) /\ Line(W, word(11), flag, value)
         /\ t.tools # None => Says(word(10), Flag("--tool-call-parser"))
    BY <1>7, <1>12
  <2>12. Carries(W, flag, value, nine, word(10), line)
    <3>1. ten = nine \o word(10) /\ line = ten \o word(11)
      BY <2>1, Zenon
    <3>2. Line(W, nine, flag, value) /\ Line(W, word(10), flag, value) /\ Line(W, word(11), flag, value)
      BY <2>10, <2>11, Zenon
    <3> QED  BY ONLY <3>1, <3>2, JoinedTwice, Zenon
  <2> QED  BY <2>10, <2>11, <2>12, Zenon DEF Carries
<1> HIDE DEF Right
<1>13. Right("--max-model-len", t.maxLen)
  BY <1>12 DEF Fits
<1>14. Right("--tool-call-parser", t.tools)
  BY <1>12 DEF Fits
<1> QED  BY <1>4, <1>13, <1>14, LineTells, Zenon DEF Right

-----------------------------------------------------------------------------
(* The arguments of a template for a chat model, as the form makes them.   *)
AppArgs(t) ==
  \/ t.engine = "vllm" /\ t.args = VllmChatArgs
  \/ t.engine = "llamacpp" /\ t.args = LlamacppChatArgs /\ t.tools = None

(* What the form makes or has made, and what the repairs know how to mend. *)
KnownArgs(t) ==
  (t.chat # NoSlot /\ t.args # <<>>) =>
    \/ AppArgs(t)
    \/ t.engine = "vllm" /\ Hole("toolFlags") \notin Range(t.args)
    \/ t.engine = "llamacpp" /\ Mentions(t.args, "--ctx-size", "maxModelLen") /\ t.tools = None

(* Templates that were there before are the app's. *)
ArgsAreTheApps == \A t \in Stored : KnownArgs(t)

ArgsInv ==
  Stays => /\ KnownArgs(saved)
           /\ up /\ saved.chat # NoSlot /\ saved.args # <<>> => AppArgs(saved)

LEMMA BodyArgs ==
  ASSUME NEW f, Body(f).chat # NoSlot
  PROVE  AppArgs(Body(f))
<1>1. f.slot["chat"].repo # None
  BY DEF Body
<1>2. /\ Body(f).args = Chosen(f).chatArgs /\ Body(f).engine = Chosen(f).engine
      /\ Body(f).tools = IF Chosen(f).engine = "vllm" THEN f.tools ELSE None
  BY <1>1 DEF Body
<1>3. /\ Preset["vllm"].engine = "vllm" /\ Preset["vllm"].chatArgs = VllmChatArgs
      /\ Preset["llamacpp"].engine = "llamacpp" /\ Preset["llamacpp"].chatArgs = LlamacppChatArgs
  BY DEF Preset
<1>4. Chosen(f) = Preset["vllm"] \/ Chosen(f) = Preset["llamacpp"]
  BY DEF Chosen, PresetForFormat
<1> QED  BY <1>2, <1>3, <1>4 DEF AppArgs

LEMMA RepairedArgs ==
  ASSUME NEW t, IsTemplate(t), Admitted(t), KnownArgs(t)
  PROVE  LET r == Repaired(t) IN r.chat # NoSlot /\ r.args # <<>> => AppArgs(r)
<1> DEFINE c == RepairContext(t)
           seqs == IF t.seqs = 0 THEN 4 ELSE Min({t.seqs, Preset["llamacpp"].concurrency})
<1>1. Repaired(t) = RepairTools(c)
  BY DEF Repaired
<1>2. "args" \in DOMAIN t /\ "seqs" \in DOMAIN t /\ "engine" \in DOMAIN t /\ "tools" \in DOMAIN t
      /\ "chat" \in DOMAIN t
  BY DEF IsTemplate
<1>3. CASE t.engine # "llamacpp"
  <2>1. c = t
    BY <1>3 DEF RepairContext
  <2> HIDE DEF c
  <2>2. CASE /\ t.engine = "vllm" /\ t.chat # NoSlot
             /\ t.args # <<>> /\ Hole("toolFlags") \notin Range(t.args)
    <3>1. Repaired(t) = [t EXCEPT !.args = VllmChatArgs]
      BY <1>1, <2>1, <2>2 DEF RepairTools
    <3>2. Repaired(t).engine = "vllm" /\ Repaired(t).args = VllmChatArgs
      BY <1>2, <2>2, <3>1
    <3> QED  BY <3>2 DEF AppArgs
  <2>3. CASE ~(/\ t.engine = "vllm" /\ t.chat # NoSlot
               /\ t.args # <<>> /\ Hole("toolFlags") \notin Range(t.args))
    <3>1. Repaired(t) = t
      BY <1>1, <2>1, <2>3 DEF RepairTools
    <3> QED  BY <1>3, <2>3, <3>1 DEF KnownArgs
  <2> QED  BY <2>2, <2>3
<1>4. CASE t.engine = "llamacpp"
  <2>1. CASE Mentions(t.args, "--ctx-size", "maxModelLen")
    <3>1. c = [t EXCEPT !.args = LlamacppChatArgs, !.seqs = seqs]
      <4>1. c = [t EXCEPT !.args = LlamacppChatArgs,
                   !.seqs = IF @ = 0 THEN 4 ELSE Min({@, Preset["llamacpp"].concurrency})]
        BY <1>4, <2>1 DEF RepairContext
      <4> QED  BY <1>2, <4>1
    <3> HIDE DEF c, seqs
    <3>2. /\ c.engine = "llamacpp" /\ c.args = LlamacppChatArgs
          /\ c.tools = t.tools /\ c.chat = t.chat
      BY <1>2, <1>4, <3>1
    <3>3. Repaired(t) = c
      BY <1>1, <3>2 DEF RepairTools
    <3> QED  BY <1>4, <2>1, <3>2, <3>3 DEF KnownArgs, AppArgs, LlamacppChatArgs, Mentions
  <2>2. CASE ~Mentions(t.args, "--ctx-size", "maxModelLen")
    <3>1. c = t
      BY <2>2 DEF RepairContext
    <3> HIDE DEF c
    <3>2. Repaired(t) = t
      BY <1>1, <1>4, <3>1 DEF RepairTools
    <3> QED  BY <1>4, <2>2, <3>2 DEF KnownArgs
  <2> QED  BY <2>1, <2>2
<1> QED  BY <1>3, <1>4

(* A pod gives each request the window its template names, whichever       *)
(* engine it starts and however old the template is; its tool calls are    *)
(* parsed, and no flag takes the next one for its value (presets.ts,       *)
(* plan.ts:63-131, migrate-templates.ts).                                  *)
THEOREM RendersWholeAlways ==
  ASSUME ArgsAreTheApps
  PROVE  Spec => []RendersWhole
<1>1. Init => ArgsInv
  BY DEF Init, ArgsInv, Stays, ArgsAreTheApps
<1>2. ASSUME FormInv, ArgsInv, [Next]_vars PROVE ArgsInv'
  <2>1. CASE Save
    <3>1. saved' = Body(form)
      BY <2>1 DEF Save
    <3>2. Body(form).chat # NoSlot => AppArgs(Body(form))
      BY BodyArgs
    <3> QED  BY <3>1, <3>2 DEF ArgsInv, KnownArgs, AppArgs
  <2>2. CASE Delete
    BY <2>2 DEF Delete, ArgsInv, Stays
  <2>3. CASE ServiceStarts
    <3>1. CASE Stays
      <4>1. saved' = Repaired(saved)
        BY <2>3, <3>1 DEF ServiceStarts, Stays
      <4>2. IsTemplate(saved) /\ Admitted(saved) /\ KnownArgs(saved)
        BY <1>2, <3>1 DEF FormInv, ShapeInv, ArgsInv
      <4>3. saved'.chat # NoSlot /\ saved'.args # <<>> => AppArgs(saved')
        BY <4>1, <4>2, RepairedArgs
      <4> QED  BY <4>3 DEF ArgsInv, KnownArgs, AppArgs
    <3>2. CASE ~Stays
      BY <2>3, <3>2 DEF ServiceStarts, ArgsInv, Stays
    <3> QED  BY <3>1, <3>2
  <2>4. CASE saved' = saved /\ (up' => up)
    BY <1>2, <2>4 DEF ArgsInv, KnownArgs, AppArgs, Stays
  <2>5. Save \/ Delete \/ ServiceStarts \/ (saved' = saved /\ (up' => up))
    BY <1>2 DEF Next, vars, OpenNew, Edit, Cancel, GpusArrive, ChooseGpu, ToggleFallback,
       ToggleEmbedding, ChooseSleep, TypeLength, TypeCount, TypeParser, Type, PickVariant,
       Answered, AnsweredLate, Fails, HubChanges, ServiceStops, Edits
  <2> QED  BY <2>1, <2>2, <2>3, <2>4, <2>5
<1>3. ASSUME FormInv, ArgsInv PROVE RendersWhole
  <2>1. SUFFICES ASSUME up, Stays, saved.args # <<>>, saved.chat # NoSlot,
                        saved.maxLen # 0, saved.seqs # 0
        PROVE  LET words == PodRequest(saved, "key").args IN
               /\ ~Swallows(words)
               /\ After(words, IF saved.engine = "vllm" THEN "--max-model-len" ELSE "--ctx-size")
                    = saved.maxLen * (IF saved.engine = "vllm" THEN 1 ELSE After(words, "--parallel"))
               /\ saved.tools # None => After(words, "--tool-call-parser") = saved.tools
    BY DEF RendersWhole
  <2>2. AppArgs(saved)
    BY <1>3, <2>1 DEF ArgsInv
  <2>3. PodRequest(saved, "key").args = RenderArgs(saved, "key")
    BY DEF PodRequest
  <2>4. saved.maxLen \in Nat /\ saved.seqs \in Nat
    BY <1>3, <2>1 DEF FormInv, ShapeInv, Admitted
  <2>5. TotalContext(saved) = saved.maxLen * saved.seqs
    BY <2>1 DEF TotalContext
  <2>6. TotalContext(saved) # 0
    <3> DEFINE m == saved.maxLen n == saved.seqs
    <3>1. m \in Nat /\ n \in Nat /\ m # 0 /\ n # 0
      BY <2>1, <2>4
    <3> HIDE DEF m, n
    <3>2. m * n # 0
      BY <3>1
    <3> QED  BY <2>5, <3>2 DEF m, n
  <2>7. CASE saved.engine = "vllm" /\ saved.args = VllmChatArgs
    <3>1. /\ ~Swallows(RenderArgs(saved, "key"))
          /\ After(RenderArgs(saved, "key"), "--max-model-len") = saved.maxLen
          /\ saved.tools # None => After(RenderArgs(saved, "key"), "--tool-call-parser") = saved.tools
      BY <2>1, <2>6, <2>7, VllmRenders
    <3>2. saved.maxLen = saved.maxLen * 1
      BY <2>4
    <3> QED  BY <2>3, <2>7, <3>1, <3>2
  <2>8. CASE saved.engine = "llamacpp" /\ saved.args = LlamacppChatArgs /\ saved.tools = None
    <3>1. /\ ~Swallows(RenderArgs(saved, "key"))
          /\ After(RenderArgs(saved, "key"), "--ctx-size") = TotalContext(saved)
          /\ After(RenderArgs(saved, "key"), "--parallel") = saved.seqs
      BY <2>1, <2>6, <2>8, LlamacppRenders
    <3> QED  BY <2>3, <2>5, <2>8, <3>1
  <2> QED  BY <2>2, <2>7, <2>8 DEF AppArgs
<1>4. Init /\ [][Next]_vars => []ArgsInv
  <2>1. FormInv /\ ArgsInv /\ [Next]_vars => ArgsInv'
    BY <1>2
  <2> QED  BY <1>1, <2>1, FormInvariant, PTL DEF Spec
<1>5. FormInv /\ ArgsInv => RendersWhole
  BY <1>3
<1> QED  BY <1>4, <1>5, FormInvariant, PTL DEF Spec
=============================================================================
