-------------------------- MODULE ImageBuildsProofs --------------------------
(***************************************************************************)
(* Theorems about ImageBuilds, for any list of variants, any number of     *)
(* jobs at once, and whatever fails.                                       *)
(***************************************************************************)
EXTENDS ImageBuilds, SequenceTheorems, TLAPS

USE VariantsListed, DefaultIsVariant, Modes

\* Only refresh and bake come to packing.
JobsMakeSense ==
    \A j \in Jobs : pc[j] \in {"pack"} \cup Packed => kind[j] \in {"refresh", "bake"}

\* As long as no build mixed the ages of the CLIs, no image is newer than what
\* it was made of, and who builds a variant is alone and not behind its image.
AgesAgree ==
    ~mixed =>
        /\ \A v \in Tags : dev[v].base.cli <= base[v].cli
        /\ \A j \in Jobs :
            /\ pc[j] = "finish" => from[j].cli <= base[Head(todo[j])].cli
            /\ pc[j] = "name" => base[Head(todo[j])].cli <= layers[j]
        /\ \A j, k \in Jobs :
            pc[j] = "name" /\ pc[k] = "name" /\ Head(todo[j]) = Head(todo[k]) => j = k

NothingFromTheFuture ==
    /\ \A v \in Tags : dev[v].creds <= creds
    /\ \A j \in Jobs : snap[j] <= creds

\* As long as no two jobs baked at once, what the one that bakes holds is at
\* least as new as the dev images.
BakerIsAhead ==
    ~overlapped =>
        /\ \A j, k \in Baking : j = k
        /\ \A j \in Jobs :
            /\ pc[j] \in Packed => \A v \in Tags : dev[v].creds <= snap[j]
            /\ pc[j] = "finish" /\ ~mixed => dev[Head(todo[j])].base.cli <= from[j].cli

\* :latest is the default variant unless a job under way will make it so, or
\* one that failed would have.
LatestIsDue ==
    /\ base[Default] = NoImage => baseLatest = NoImage
    /\ dev[Default] = NoDev => devLatest = NoDev
    /\ "base" \in torn \/ baseLatest = base[Default] \/ \E j \in Jobs : pc[j] \in Building
    /\ "dev" \in torn \/ devLatest = dev[Default] \/ \E j \in Jobs : pc[j] \in Packed

BInv ==
    TypeOK /\ JobsMakeSense /\ AgesAgree /\ NothingFromTheFuture /\ BakerIsAhead /\ LatestIsDue

-----------------------------------------------------------------------------
LEMMA ImageFields ==
    /\ \A i \in Image : i.build \in Nat /\ i.cli \in Nat
    /\ \A b, c \in Nat :
        LET i == [build |-> b, cli |-> c]
        IN  i \in Image /\ i.cli = c /\ (b # 0 => i # NoImage)
    /\ NoImage \in Image /\ NoImage.cli = 0
BY DEF Image, NoImage

LEMMA DevFields ==
    /\ \A d \in Dev : d.base \in Image /\ d.base.cli \in Nat /\ d.creds \in Nat
    /\ \A i \in Image, c \in Nat :
        LET d == [base |-> i, creds |-> c]
        IN  d \in Dev /\ d.base = i /\ d.creds = c /\ (i # NoImage => d # NoDev)
    /\ NoDev \in Dev /\ NoDev.base = NoImage /\ NoDev.creds = 0
BY ImageFields DEF Dev, NoDev

\* What is left of a list of variants is a list of variants.
LEMMA TodoRest ==
    ASSUME NEW s \in Seq(Tags), s # <<>>
    PROVE  Head(s) \in Tags /\ Tail(s) \in Seq(Tags)
OBVIOUS

LEMMA SelectionsAreLists == Selections \subseteq Seq(Tags)
<1>1. \A v \in Tags : <<v>> \in Seq(Tags)
  OBVIOUS
<1> QED
  BY <1>1 DEF Selections

\* The places are distinct.
LEMMA PlacesApart ==
    /\ Places = {"idle", "mark", "pack", "build", "name", "bake", "finish"}
    /\ \A p : p \in Building <=> p = "build" \/ p = "name"
    /\ \A p : p \in Packed <=> p = "bake" \/ p = "finish"
BY DEF Places, Building, Packed

LEMMA BuildsInit == Init => BInv
<1> SUFFICES ASSUME Init PROVE BInv
  OBVIOUS
<1> USE ImageFields, DevFields, PlacesApart DEF Init
<1>1. TypeOK
  <2>1. todo \in [Jobs -> Seq(Tags)]
    <3>1. <<>> \in Seq(Tags)
      OBVIOUS
    <3> QED
      BY <3>1
  <2>2. kind \in [Jobs -> Kinds]
    BY DEF Kinds
  <2> QED
    BY <2>1, <2>2 DEF TypeOK
<1>2. JobsMakeSense /\ AgesAgree /\ NothingFromTheFuture
  BY DEF JobsMakeSense, AgesAgree, NothingFromTheFuture
<1>3. BakerIsAhead /\ LatestIsDue
  BY DEF BakerIsAhead, LatestIsDue, Baking
<1> QED
  BY <1>1, <1>2, <1>3 DEF BInv

-----------------------------------------------------------------------------
\* A step that touches no image, and no job's material.
LEMMA QuietStep ==
    ASSUME BInv, UNCHANGED <<base, dev>>, creds' \in Nat, creds <= creds',
           ~mixed' => ~mixed, ~overlapped' => ~overlapped,
           \A i \in Jobs :
               /\ snap'[i] = snap[i] \/ snap'[i] = 0
               /\ pc'[i] \in Packed => pc[i] \in Packed /\ snap'[i] = snap[i]
               /\ pc'[i] = "finish" => /\ pc[i] = "finish" /\ todo'[i] = todo[i]
                                       /\ from'[i] = from[i]
               /\ pc'[i] = "name" => /\ pc[i] = "name" /\ todo'[i] = todo[i]
                                     /\ layers'[i] = layers[i],
           ~overlapped' => \A i, k \in Baking' : i = k
    PROVE  AgesAgree' /\ NothingFromTheFuture' /\ BakerIsAhead'
<1>1. AgesAgree'
  BY DEF BInv, AgesAgree
<1>2. NothingFromTheFuture'
  <2>1. /\ creds \in Nat /\ \A v \in Tags : dev[v].creds \in Nat
        /\ \A i \in Jobs : snap[i] \in Nat
    BY DevFields DEF BInv, TypeOK
  <2>2. \A v \in Tags : dev'[v].creds <= creds'
    BY <2>1 DEF BInv, NothingFromTheFuture
  <2>3. \A i \in Jobs : snap'[i] <= creds'
    BY <2>1 DEF BInv, NothingFromTheFuture
  <2> QED
    BY <2>2, <2>3 DEF NothingFromTheFuture
<1>3. BakerIsAhead'
  BY DEF BInv, BakerIsAhead
<1> QED
  BY <1>1, <1>2, <1>3

\* Whoever bakes after a step that starts nothing baked before it.
LEMMA BakersGoOn ==
    ASSUME BInv, overlapped' = overlapped,
           \A i \in Jobs : pc'[i] # "idle" => pc[i] # "idle" /\ kind'[i] = kind[i]
    PROVE  ~overlapped' => \A i, k \in Baking' : i = k
<1>1. Baking' \subseteq Baking
  BY DEF Baking
<1> QED
  BY <1>1 DEF BInv, BakerIsAhead

\* A job that ends.
LEMMA EndFacts ==
    ASSUME TypeOK, NEW j \in Jobs, End(j)
    PROVE  /\ pc'[j] = "idle" /\ kind'[j] = "none" /\ todo'[j] = <<>> /\ layers'[j] = 0
           /\ snap'[j] = 0 /\ from'[j] = NoImage
           /\ \A i \in Jobs \ {j} :
                /\ pc'[i] = pc[i] /\ kind'[i] = kind[i] /\ todo'[i] = todo[i]
                /\ layers'[i] = layers[i] /\ snap'[i] = snap[i] /\ from'[i] = from[i]
           /\ kind' \in [Jobs -> Kinds] /\ pc' \in [Jobs -> Places]
           /\ todo' \in [Jobs -> Seq(Tags)] /\ layers' \in [Jobs -> Nat]
           /\ snap' \in [Jobs -> Nat] /\ from' \in [Jobs -> Image]
           /\ \A i \in Jobs : /\ pc'[i] \in {"name", "finish"} => todo'[i] # <<>>
                              /\ pc'[i] = "finish" => from'[i] # NoImage
<1>1. <<>> \in Seq(Tags) /\ "none" \in Kinds /\ "idle" \in Places
  BY PlacesApart DEF Kinds
<1>2. /\ pc'[j] = "idle" /\ kind'[j] = "none" /\ todo'[j] = <<>> /\ layers'[j] = 0
      /\ snap'[j] = 0 /\ from'[j] = NoImage
  BY DEF TypeOK, End, Goto
<1>3. \A i \in Jobs \ {j} :
        /\ pc'[i] = pc[i] /\ kind'[i] = kind[i] /\ todo'[i] = todo[i]
        /\ layers'[i] = layers[i] /\ snap'[i] = snap[i] /\ from'[i] = from[i]
  BY DEF TypeOK, End, Goto
<1>4. kind' \in [Jobs -> Kinds] /\ pc' \in [Jobs -> Places] /\ todo' \in [Jobs -> Seq(Tags)]
  BY <1>1 DEF TypeOK, End, Goto
<1>5. layers' \in [Jobs -> Nat] /\ snap' \in [Jobs -> Nat] /\ from' \in [Jobs -> Image]
  BY ImageFields DEF TypeOK, End
<1>6. \A i \in Jobs : /\ pc'[i] \in {"name", "finish"} => todo'[i] # <<>>
                      /\ pc'[i] = "finish" => from'[i] # NoImage
  BY <1>2, <1>3 DEF TypeOK
<1> QED
  BY <1>2, <1>3, <1>4, <1>5, <1>6

\* A job that ends leaves the others as they were.
LEMMA EndIsQuiet ==
    ASSUME BInv, NEW j \in Jobs, End(j),
           UNCHANGED <<base, dev, creds, cached, newest, mixed, overlapped>>
    PROVE  JobsMakeSense' /\ AgesAgree' /\ NothingFromTheFuture' /\ BakerIsAhead'
<1>1. TypeOK
  BY DEF BInv
<1>2. /\ \A i \in Jobs :
            /\ snap'[i] = snap[i] \/ snap'[i] = 0
            /\ pc'[i] \in Packed => pc[i] \in Packed /\ snap'[i] = snap[i]
            /\ pc'[i] = "finish" => /\ pc[i] = "finish" /\ todo'[i] = todo[i]
                                    /\ from'[i] = from[i]
            /\ pc'[i] = "name" => /\ pc[i] = "name" /\ todo'[i] = todo[i]
                                  /\ layers'[i] = layers[i]
      /\ \A i \in Jobs : pc'[i] # "idle" => pc[i] # "idle" /\ kind'[i] = kind[i]
      /\ \A i \in Jobs : pc'[i] # "idle" => pc'[i] = pc[i]
  BY <1>1, EndFacts, PlacesApart
<1>3. creds' \in Nat /\ creds <= creds'
  BY <1>1 DEF TypeOK
<1>4. ~overlapped' => \A i, k \in Baking' : i = k
  BY <1>2, BakersGoOn
<1>5. AgesAgree' /\ NothingFromTheFuture' /\ BakerIsAhead'
  BY <1>2, <1>3, <1>4, QuietStep
<1>6. JobsMakeSense'
  BY <1>2, PlacesApart DEF BInv, JobsMakeSense
<1> QED
  BY <1>5, <1>6

-----------------------------------------------------------------------------
\* A job that starts.
LEMMA StartKeeps ==
    ASSUME BInv, NEW j \in Jobs,
           NEW k \in {"bootstrap", "build", "fresh", "refresh", "bake"},
           NEW place \in {"build", "pack"},
           place = "pack" => k = "bake",
           NEW s \in Seq(Tags), Start(j, k, place, s),
           marker' \in BOOLEAN, booted' \in BOOLEAN, early' \in BOOLEAN
    PROVE  BInv'
<1>0. /\ pc[j] = "idle"
      /\ pc' = [pc EXCEPT ![j] = place] /\ kind' = [kind EXCEPT ![j] = k]
      /\ todo' = [todo EXCEPT ![j] = s] /\ started' = started + 1
      /\ overlapped' = (overlapped \/ (k \in {"refresh", "bake"} /\ Baking # {}))
      /\ UNCHANGED <<base, baseLatest, builds, dev, devLatest, creds, layers, snap, from,
                     cached, newest, mixed, failed, torn>>
  BY DEF Start, Goto, baseVars, devVars, layerVars, failVars
<1>t. TypeOK
  BY DEF BInv
<1>1. /\ pc'[j] = place /\ kind'[j] = k /\ todo'[j] = s
      /\ \A i \in Jobs \ {j} : pc'[i] = pc[i] /\ kind'[i] = kind[i] /\ todo'[i] = todo[i]
  BY <1>0, <1>t DEF TypeOK
<1>2. TypeOK'
  <2>1. k \in Kinds /\ place \in Places
    BY PlacesApart DEF Kinds
  <2>2. overlapped' \in BOOLEAN
    BY <1>0, <1>t DEF TypeOK
  <2>3. /\ kind' \in [Jobs -> Kinds] /\ todo' \in [Jobs -> Seq(Tags)]
        /\ pc' \in [Jobs -> Places] /\ started' \in Nat
    BY <1>0, <1>t, <2>1 DEF TypeOK
  <2>4. \A i \in Jobs : /\ pc'[i] \in {"name", "finish"} => todo'[i] # <<>>
                        /\ pc'[i] = "finish" => from'[i] # NoImage
    BY <1>0, <1>1, <1>t DEF TypeOK
  <2> QED
    BY <1>0, <1>t, <2>2, <2>3, <2>4 DEF TypeOK
<1>3. JobsMakeSense'
  <2>1. ASSUME NEW i \in Jobs, pc'[i] \in {"pack"} \cup Packed
        PROVE  kind'[i] \in {"refresh", "bake"}
    <3>1. CASE i = j
      BY <1>1, <2>1, <3>1, PlacesApart
    <3>2. CASE i # j
      BY <1>1, <2>1, <3>2 DEF BInv, JobsMakeSense
    <3> QED
      BY <3>1, <3>2
  <2> QED
    BY <2>1 DEF JobsMakeSense
<1>4. ~overlapped' => ~overlapped /\ \A i, m \in Baking' : i = m
  <2> SUFFICES ASSUME ~overlapped' PROVE ~overlapped /\ \A i, m \in Baking' : i = m
    OBVIOUS
  <2>1. Baking' \subseteq Baking \cup {j}
    BY <1>1 DEF Baking
  <2>2. ~overlapped /\ (k \in {"refresh", "bake"} => Baking = {})
    BY <1>0, <1>t DEF TypeOK
  <2>3. k \notin {"refresh", "bake"} => j \notin Baking'
    BY <1>1 DEF Baking
  <2>4. \A i, m \in Baking : i = m
    BY <2>2 DEF BInv, BakerIsAhead
  <2> QED
    BY <2>1, <2>2, <2>3, <2>4
<1>5. AgesAgree' /\ NothingFromTheFuture' /\ BakerIsAhead'
  <2>1. \A i \in Jobs :
            /\ snap'[i] = snap[i] \/ snap'[i] = 0
            /\ pc'[i] \in Packed => pc[i] \in Packed /\ snap'[i] = snap[i]
            /\ pc'[i] = "finish" => /\ pc[i] = "finish" /\ todo'[i] = todo[i]
                                    /\ from'[i] = from[i]
            /\ pc'[i] = "name" => /\ pc[i] = "name" /\ todo'[i] = todo[i]
                                  /\ layers'[i] = layers[i]
    BY <1>0, <1>1, PlacesApart
  <2>2. creds' \in Nat /\ creds <= creds' /\ (~mixed' => ~mixed) /\ UNCHANGED <<base, dev>>
    BY <1>0, <1>t DEF TypeOK
  <2> QED
    BY <1>4, <2>1, <2>2, QuietStep
<1>6. LatestIsDue'
  <2>1. \A i \in Jobs : pc[i] # "idle" => pc'[i] = pc[i]
    BY <1>0, <1>1
  <2> QED
    BY <1>0, <2>1, PlacesApart DEF BInv, LatestIsDue
<1> QED
  BY <1>2, <1>3, <1>5, <1>6 DEF BInv

-----------------------------------------------------------------------------
\* The build of a variant starts.
LEMMA BuildVariantKeeps == ASSUME BInv, NEW j \in Jobs, BuildVariant(j) PROVE BInv'
<1> DEFINE v == Head(todo[j])
<1>t. TypeOK /\ pc[j] = "build" /\ todo[j] \in Seq(Tags) /\ todo[j] # <<>>
  BY DEF BInv, TypeOK, BuildVariant
<1>u. UNCHANGED <<base, baseLatest, builds, dev, devLatest, creds, kind, todo, snap, from,
                  marker, booted, early, started, overlapped, failed, torn>>
  BY DEF BuildVariant, baseVars, devVars, bootVars, failVars
<1>v. v \in Tags
  BY <1>t, TodoRest
<1>1. /\ pc' = [pc EXCEPT ![j] = "name"] /\ TakeLayer(j, v)
  BY DEF BuildVariant, Goto
<1> HIDE DEF v
<1>2. /\ layers' \in [Jobs -> Nat] /\ cached' \in Nat /\ newest' \in Nat /\ mixed' \in BOOLEAN
      /\ \A i \in Jobs \ {j} : layers'[i] = layers[i]
  <2>1. \/ layers' = layers /\ UNCHANGED <<cached, newest>>
        \/ layers' = [layers EXCEPT ![j] = cached] /\ UNCHANGED <<cached, newest>>
        \/ /\ newest' = newest + 1 /\ layers' = [layers EXCEPT ![j] = newest']
           /\ cached' = cached \/ cached' = newest'
    BY <1>1 DEF TakeLayer
  <2>2. newest' \in Nat /\ cached' \in Nat
    BY <1>t, <2>1 DEF TypeOK
  <2>3. layers' \in [Jobs -> Nat] /\ \A i \in Jobs \ {j} : layers'[i] = layers[i]
    BY <1>t, <2>1, <2>2 DEF TypeOK
  <2>4. mixed' \in BOOLEAN
    BY <1>t, <1>1 DEF TypeOK, TakeLayer
  <2> QED
    BY <2>2, <2>3, <2>4
<1>3. /\ ~mixed' => ~mixed
      /\ ~mixed' => ~(layers'[j] < base[v].cli)
      /\ ~mixed' => \A k \in Jobs \ {j} : ~(pc[k] = "name" /\ Head(todo[k]) = v)
  BY <1>t, <1>1 DEF TypeOK, TakeLayer
<1>4. pc'[j] = "name" /\ \A i \in Jobs \ {j} : pc'[i] = pc[i]
  BY <1>t, <1>1 DEF TypeOK
<1>5. TypeOK'
  <2>1. pc' \in [Jobs -> Places]
    BY <1>t, <1>1, PlacesApart DEF TypeOK
  <2>2. \A i \in Jobs : /\ pc'[i] \in {"name", "finish"} => todo'[i] # <<>>
                        /\ pc'[i] = "finish" => from'[i] # NoImage
    BY <1>t, <1>u, <1>4 DEF TypeOK
  <2> QED
    BY <1>t, <1>u, <1>2, <2>1, <2>2 DEF TypeOK
<1>6. JobsMakeSense'
  BY <1>u, <1>4, PlacesApart DEF BInv, JobsMakeSense
<1>7. AgesAgree'
  <2> SUFFICES ASSUME ~mixed' PROVE AgesAgree'
    BY DEF AgesAgree
  <2>1. base[v].cli <= layers'[j]
    BY <1>t, <1>2, <1>3, <1>v, ImageFields DEF TypeOK
  <2>2. ~mixed
    BY <1>3
  <2>3. \A i \in Jobs : pc'[i] = "finish" => from'[i].cli <= base'[Head(todo'[i])].cli
    BY <1>u, <1>4, <2>2 DEF BInv, AgesAgree
  <2>4. ASSUME NEW i \in Jobs, pc'[i] = "name" PROVE base'[Head(todo'[i])].cli <= layers'[i]
    <3>1. CASE i = j
      BY <1>u, <2>1, <3>1 DEF v
    <3>2. CASE i # j
      BY <1>u, <1>2, <1>4, <2>2, <2>4, <3>2 DEF BInv, AgesAgree
    <3> QED
      BY <3>1, <3>2
  <2>5. ASSUME NEW i \in Jobs, NEW k \in Jobs, pc'[i] = "name", pc'[k] = "name",
               Head(todo'[i]) = Head(todo'[k])
        PROVE  i = k
    <3>1. CASE i # j /\ k # j
      BY <1>u, <1>4, <2>2, <2>5, <3>1 DEF BInv, AgesAgree
    <3>2. CASE i = j \/ k = j
      BY <1>u, <1>3, <1>4, <2>5, <3>2 DEF v
    <3> QED
      BY <3>1, <3>2
  <2>6. \A w \in Tags : dev'[w].base.cli <= base'[w].cli
    BY <1>u, <2>2 DEF BInv, AgesAgree
  <2> QED
    BY <2>3, <2>4, <2>5, <2>6 DEF AgesAgree
<1>8. NothingFromTheFuture'
  BY <1>u DEF BInv, NothingFromTheFuture
<1>9. BakerIsAhead'
  <2>1. ~overlapped' => \A i, k \in Baking' : i = k
    BY <1>t, <1>u, <1>4, BakersGoOn
  <2> QED
    BY <1>u, <1>3, <1>4, <2>1, PlacesApart DEF BInv, BakerIsAhead
<1>10. LatestIsDue'
  BY <1>t, <1>u, <1>4, PlacesApart DEF BInv, LatestIsDue
<1> QED
  BY <1>5, <1>6, <1>7, <1>8, <1>9, <1>10 DEF BInv

\* A variant is built.
LEMMA BuildNameKeeps == ASSUME BInv, NEW j \in Jobs, BuildName(j) PROVE BInv'
<1> DEFINE v == Head(todo[j])
           n == [build |-> builds + 1, cli |-> layers[j]]
           rest == Tail(todo[j])
<1>t. /\ TypeOK /\ pc[j] = "name" /\ todo[j] \in Seq(Tags) /\ todo[j] # <<>>
      /\ layers[j] \in Nat /\ builds \in Nat
  BY DEF BInv, TypeOK, BuildName
<1>u. UNCHANGED <<baseLatest, dev, devLatest, creds, kind, layers, snap, from, cached, newest,
                  mixed, marker, booted, early, started, overlapped, failed, torn>>
  BY DEF BuildName, layerVars, devVars, bootVars, failVars
<1>v. v \in Tags /\ rest \in Seq(Tags)
  BY <1>t, TodoRest
<1>n. n \in Image /\ n.cli = layers[j] /\ n # NoImage
  BY <1>t, ImageFields
<1>1. /\ pc' = [pc EXCEPT ![j] = "build"] /\ base' = [base EXCEPT ![v] = n]
      /\ todo' = [todo EXCEPT ![j] = rest] /\ builds' = builds + 1
  BY <1>t DEF BuildName, Goto, TypeOK
<1> HIDE DEF v, n, rest
<1>2. /\ pc'[j] = "build" /\ \A i \in Jobs \ {j} : pc'[i] = pc[i] /\ todo'[i] = todo[i]
      /\ \A w \in Tags : base'[w] = IF w = v THEN n ELSE base[w]
      /\ \A w \in Tags : base[w].cli \in Nat
  BY <1>t, <1>1, ImageFields DEF TypeOK
<1>3. TypeOK'
  <2>1. /\ pc' \in [Jobs -> Places] /\ base' \in [Tags -> Image]
        /\ todo' \in [Jobs -> Seq(Tags)] /\ builds' \in Nat
    BY <1>t, <1>v, <1>n, <1>1, PlacesApart DEF TypeOK
  <2>2. \A i \in Jobs : /\ pc'[i] \in {"name", "finish"} => todo'[i] # <<>>
                        /\ pc'[i] = "finish" => from'[i] # NoImage
    BY <1>t, <1>u, <1>2 DEF TypeOK
  <2> QED
    BY <1>t, <1>u, <2>1, <2>2 DEF TypeOK
<1>4. JobsMakeSense'
  BY <1>u, <1>2, PlacesApart DEF BInv, JobsMakeSense
<1>5. AgesAgree'
  <2> SUFFICES ASSUME ~mixed PROVE AgesAgree'
    BY <1>u DEF AgesAgree
  <2>1. base[v].cli <= n.cli
    BY <1>t, <1>n DEF BInv, AgesAgree, v
  <2>2. \A w \in Tags : base[w].cli <= base'[w].cli
    BY <1>2, <2>1
  <2>3. \A w \in Tags : dev'[w].base.cli <= base'[w].cli
    <3>1. ASSUME NEW w \in Tags PROVE dev'[w].base.cli <= base'[w].cli
      <4>1. dev[w].base.cli <= base[w].cli /\ dev[w].base.cli \in Nat
        BY <1>t, DevFields DEF BInv, AgesAgree, TypeOK
      <4>2. base'[w].cli \in Nat
        BY <1>3, ImageFields DEF TypeOK
      <4> QED
        BY <1>u, <1>2, <2>2, <4>1, <4>2
    <3> QED
      BY <3>1
  <2>4. ASSUME NEW i \in Jobs, pc'[i] = "finish" PROVE from'[i].cli <= base'[Head(todo'[i])].cli
    <3> DEFINE w == Head(todo[i])
    <3>1. i # j /\ pc[i] = "finish" /\ todo'[i] = todo[i] /\ from'[i] = from[i]
      BY <1>u, <1>2, <2>4
    <3>2. w \in Tags
      BY <1>t, <3>1, TodoRest DEF TypeOK
    <3>3. from[i].cli <= base[w].cli /\ from[i].cli \in Nat
      BY <1>t, <3>1, ImageFields DEF BInv, AgesAgree, TypeOK
    <3> HIDE DEF w
    <3>4. base[w].cli \in Nat /\ base'[w].cli \in Nat
      BY <1>t, <1>3, <3>2, ImageFields DEF TypeOK
    <3>5. from[i].cli <= base'[w].cli
      BY <2>2, <3>2, <3>3, <3>4
    <3> QED
      BY <3>1, <3>5 DEF w
  <2>5. ASSUME NEW i \in Jobs, pc'[i] = "name" PROVE base'[Head(todo'[i])].cli <= layers'[i]
    <3> DEFINE w == Head(todo[i])
    <3>1. i # j /\ pc[i] = "name" /\ todo'[i] = todo[i]
      BY <1>2, <2>5
    <3>2. w \in Tags
      BY <1>t, <3>1, TodoRest DEF TypeOK
    <3>3. w # v
      BY <1>t, <3>1 DEF BInv, AgesAgree, v
    <3>4. base[w].cli <= layers[i]
      BY <3>1 DEF BInv, AgesAgree
    <3> HIDE DEF w
    <3>5. base'[w].cli <= layers'[i]
      BY <1>u, <1>2, <3>2, <3>3, <3>4
    <3> QED
      BY <3>1, <3>5 DEF w
  <2>6. \A i, k \in Jobs :
            pc'[i] = "name" /\ pc'[k] = "name" /\ Head(todo'[i]) = Head(todo'[k]) => i = k
    BY <1>2 DEF BInv, AgesAgree
  <2> QED
    BY <2>3, <2>4, <2>5, <2>6 DEF AgesAgree
<1>6. NothingFromTheFuture'
  BY <1>u DEF BInv, NothingFromTheFuture
<1>7. BakerIsAhead'
  <2>1. ~overlapped' => \A i, k \in Baking' : i = k
    BY <1>t, <1>u, <1>2, BakersGoOn
  <2> QED
    BY <1>u, <1>2, <2>1, PlacesApart DEF BInv, BakerIsAhead
<1>8. LatestIsDue'
  <2>1. pc'[j] \in Building /\ \A i \in Jobs : pc[i] \in Packed => pc'[i] = pc[i]
    BY <1>t, <1>2, PlacesApart
  <2>2. base'[Default] = NoImage => base[Default] = NoImage
    BY <1>2, <1>n
  <2> QED
    BY <1>u, <2>1, <2>2 DEF BInv, LatestIsDue
<1> QED
  BY <1>3, <1>4, <1>5, <1>6, <1>7, <1>8 DEF BInv

\* The default variant becomes :latest.
LEMMA BuildTagKeeps == ASSUME BInv, NEW j \in Jobs, BuildTag(j) PROVE BInv'
<1>t. TypeOK /\ pc[j] = "build"
  BY DEF BInv, BuildTag
<1>u. UNCHANGED <<base, builds, dev, devLatest, creds, cached, newest, mixed, marker, booted,
                  early, started, overlapped, failed>>
  BY DEF BuildTag, devVars, layerVars, bootVars
<1>1. /\ baseLatest' = IF base[Default] = NoImage THEN baseLatest ELSE base[Default]
      /\ torn' = IF base[Default] = NoImage THEN torn ELSE torn \ {"base"}
  BY DEF BuildTag
<1>2. baseLatest' \in Image /\ torn' \subseteq {"base", "dev"} /\ ("dev" \in torn <=> "dev" \in torn')
  BY <1>t, <1>1 DEF TypeOK
<1>3. ASSUME \A i \in Jobs : pc[i] \in Packed => pc'[i] = pc[i]
      PROVE  LatestIsDue'
  <2>1. baseLatest' = base'[Default]
    BY <1>u, <1>1 DEF BInv, LatestIsDue
  <2> QED
    BY <1>u, <1>2, <1>3, <2>1 DEF BInv, LatestIsDue
<1>4. CASE End(j)
  <2>1. TypeOK'
    BY <1>t, <1>u, <1>2, <1>4, EndFacts DEF TypeOK
  <2>2. \A i \in Jobs : pc[i] \in Packed => pc'[i] = pc[i]
    BY <1>t, <1>4, EndFacts, PlacesApart
  <2> QED
    BY <1>3, <1>4, <1>u, <2>1, <2>2, EndIsQuiet DEF BInv
<1>5. CASE ~End(j)
  <2>1. AfterTag(j)
    BY <1>5 DEF BuildTag
  <2>2. PICK place \in {"mark", "pack"}, s \in Seq(Tags) :
            /\ pc' = [pc EXCEPT ![j] = place] /\ todo' = [todo EXCEPT ![j] = s]
            /\ place = "pack" => kind[j] = "refresh"
    <3>1. todo[j] \in Seq(Tags) /\ todo' \in {todo, [todo EXCEPT ![j] = Variants]}
      BY <1>t, <1>5, <2>1 DEF AfterTag, TypeOK
    <3>2. CASE kind[j] = "bootstrap"
      <4>1. pc' = [pc EXCEPT ![j] = "mark"] /\ todo' = [todo EXCEPT ![j] = todo[j]]
        BY <1>t, <2>1, <3>2 DEF AfterTag, Goto, TypeOK
      <4> QED
        BY <3>1, <4>1
    <3>3. CASE kind[j] # "bootstrap"
      <4>1. /\ pc' = [pc EXCEPT ![j] = "pack"] /\ todo' = [todo EXCEPT ![j] = Variants]
            /\ kind[j] = "refresh"
        BY <1>5, <2>1, <3>3 DEF AfterTag, Goto
      <4> QED
        BY <4>1
    <3> QED
      BY <3>2, <3>3
  <2>3. UNCHANGED <<kind, layers, snap, from>>
    BY <1>5, <2>1 DEF AfterTag
  <2>4. /\ pc'[j] = place /\ todo'[j] = s
        /\ \A i \in Jobs \ {j} : pc'[i] = pc[i] /\ todo'[i] = todo[i]
    BY <1>t, <2>2 DEF TypeOK
  <2>5. TypeOK'
    <3>1. pc' \in [Jobs -> Places] /\ todo' \in [Jobs -> Seq(Tags)]
      BY <1>t, <2>2, PlacesApart DEF TypeOK
    <3>2. \A i \in Jobs : /\ pc'[i] \in {"name", "finish"} => todo'[i] # <<>>
                          /\ pc'[i] = "finish" => from'[i] # NoImage
      BY <1>t, <2>3, <2>4 DEF TypeOK
    <3> QED
      BY <1>t, <1>u, <1>2, <2>3, <3>1, <3>2 DEF TypeOK
  <2>6. JobsMakeSense'
    <3>1. ASSUME NEW i \in Jobs, pc'[i] \in {"pack"} \cup Packed
          PROVE  kind'[i] \in {"refresh", "bake"}
      <4>1. CASE i = j
        BY <2>2, <2>3, <2>4, <3>1, <4>1, PlacesApart
      <4>2. CASE i # j
        BY <2>3, <2>4, <3>1, <4>2 DEF BInv, JobsMakeSense
      <4> QED
        BY <4>1, <4>2
    <3> QED
      BY <3>1 DEF JobsMakeSense
  <2>7. AgesAgree' /\ NothingFromTheFuture' /\ BakerIsAhead'
    <3>1. \A i \in Jobs :
              /\ snap'[i] = snap[i] \/ snap'[i] = 0
              /\ pc'[i] \in Packed => pc[i] \in Packed /\ snap'[i] = snap[i]
              /\ pc'[i] = "finish" => /\ pc[i] = "finish" /\ todo'[i] = todo[i]
                                      /\ from'[i] = from[i]
              /\ pc'[i] = "name" => /\ pc[i] = "name" /\ todo'[i] = todo[i]
                                    /\ layers'[i] = layers[i]
      BY <2>3, <2>4, PlacesApart
    <3>2. creds' \in Nat /\ creds <= creds'
      BY <1>t, <1>u DEF TypeOK
    <3>3. ~overlapped' => \A i, k \in Baking' : i = k
      BY <1>t, <1>u, <2>3, <2>4, BakersGoOn
    <3> QED
      BY <1>u, <3>1, <3>2, <3>3, QuietStep
  <2>8. LatestIsDue'
    BY <1>t, <1>3, <2>4, PlacesApart
  <2> QED
    BY <2>5, <2>6, <2>7, <2>8 DEF BInv
<1> QED
  BY <1>4, <1>5

\* The bootstrap is done.
LEMMA BootstrapMarkKeeps == ASSUME BInv, NEW j \in Jobs, BootstrapMark(j) PROVE BInv'
<1>t. TypeOK /\ pc[j] = "mark" /\ End(j) /\ marker' = TRUE
  BY DEF BInv, BootstrapMark
<1>u. UNCHANGED <<base, baseLatest, builds, dev, devLatest, creds, cached, newest, mixed,
                  booted, early, started, overlapped, failed, torn>>
  BY DEF BootstrapMark, baseVars, devVars, layerVars, failVars
<1>1. TypeOK'
  BY <1>t, <1>u, EndFacts DEF TypeOK
<1>2. LatestIsDue'
  <2>1. \A i \in Jobs : pc[i] \in Building \cup Packed => pc'[i] = pc[i]
    BY <1>t, EndFacts, PlacesApart
  <2> QED
    BY <1>u, <2>1 DEF BInv, LatestIsDue
<1> QED
  BY <1>t, <1>u, <1>1, <1>2, EndIsQuiet DEF BInv

\* The credentials are packed.
LEMMA BakePackKeeps == ASSUME BInv, NEW j \in Jobs, BakePack(j) PROVE BInv'
<1>t. TypeOK /\ pc[j] = "pack" /\ creds \in Nat
  BY DEF BInv, TypeOK, BakePack
<1>u. UNCHANGED <<base, baseLatest, builds, dev, devLatest, creds, kind, todo, layers, from,
                  cached, newest, mixed, marker, booted, early, started, overlapped, failed,
                  torn>>
  BY DEF BakePack, baseVars, devVars, layerVars, bootVars, failVars
<1>1. pc' = [pc EXCEPT ![j] = "bake"] /\ snap' = [snap EXCEPT ![j] = creds]
  BY DEF BakePack, Goto
<1>2. /\ pc'[j] = "bake" /\ snap'[j] = creds
      /\ \A i \in Jobs \ {j} : pc'[i] = pc[i] /\ snap'[i] = snap[i]
  BY <1>t, <1>1 DEF TypeOK
<1>3. TypeOK'
  <2>1. pc' \in [Jobs -> Places] /\ snap' \in [Jobs -> Nat]
    BY <1>t, <1>1, PlacesApart DEF TypeOK
  <2>2. \A i \in Jobs : /\ pc'[i] \in {"name", "finish"} => todo'[i] # <<>>
                        /\ pc'[i] = "finish" => from'[i] # NoImage
    BY <1>t, <1>u, <1>2 DEF TypeOK
  <2> QED
    BY <1>t, <1>u, <2>1, <2>2 DEF TypeOK
<1>4. JobsMakeSense'
  BY <1>t, <1>u, <1>2, PlacesApart DEF BInv, JobsMakeSense
<1>5. AgesAgree'
  <2>1. \A i \in Jobs : pc'[i] \in {"name", "finish"} => pc[i] = pc'[i]
    BY <1>2
  <2> QED
    BY <1>u, <2>1 DEF BInv, AgesAgree
<1>6. NothingFromTheFuture'
  BY <1>t, <1>u, <1>2 DEF BInv, NothingFromTheFuture
<1>7. BakerIsAhead'
  <2>1. ~overlapped' => \A i, k \in Baking' : i = k
    BY <1>t, <1>u, <1>2, BakersGoOn
  <2>2. \A v \in Tags : dev[v].creds <= snap'[j]
    BY <1>2 DEF BInv, NothingFromTheFuture
  <2>3. ASSUME ~overlapped, NEW i \in Jobs, pc'[i] \in Packed, NEW v \in Tags
        PROVE  dev'[v].creds <= snap'[i]
    BY <1>u, <1>2, <2>2, <2>3 DEF BInv, BakerIsAhead
  <2>4. ASSUME ~overlapped, NEW i \in Jobs, pc'[i] = "finish", ~mixed
        PROVE  dev'[Head(todo'[i])].base.cli <= from'[i].cli
    BY <1>u, <1>2, <2>4 DEF BInv, BakerIsAhead
  <2> QED
    BY <1>u, <2>1, <2>3, <2>4 DEF BakerIsAhead
<1>8. LatestIsDue'
  BY <1>t, <1>u, <1>2, PlacesApart DEF BInv, LatestIsDue
<1> QED
  BY <1>3, <1>4, <1>5, <1>6, <1>7, <1>8 DEF BInv

\* The base image of the next variant is read, or there is none.
LEMMA BakeVariantKeeps == ASSUME BInv, NEW j \in Jobs, BakeVariant(j) PROVE BInv'
<1> DEFINE v == Head(todo[j])
<1>t. TypeOK /\ pc[j] = "bake" /\ todo[j] \in Seq(Tags) /\ todo[j] # <<>>
  BY DEF BInv, TypeOK, BakeVariant
<1>u. UNCHANGED <<base, baseLatest, builds, dev, devLatest, creds, kind, layers, snap, cached,
                  newest, mixed, marker, booted, early, started, overlapped, failed, torn>>
  BY DEF BakeVariant, baseVars, devVars, layerVars, bootVars, failVars
<1>v. v \in Tags /\ Tail(todo[j]) \in Seq(Tags)
  BY <1>t, TodoRest
<1>1. \/ /\ todo' = [todo EXCEPT ![j] = Tail(todo[j])] /\ UNCHANGED <<pc, from>>
      \/ /\ base[v] # NoImage /\ from' = [from EXCEPT ![j] = base[v]]
         /\ pc' = [pc EXCEPT ![j] = "finish"] /\ UNCHANGED todo
  BY <1>t DEF BakeVariant, Goto, TypeOK
<1> HIDE DEF v
<1>2. /\ pc'[j] \in Packed
      /\ pc'[j] = "finish" => base[v] # NoImage /\ from'[j] = base[v] /\ todo'[j] = todo[j]
      /\ \A i \in Jobs \ {j} : pc'[i] = pc[i] /\ todo'[i] = todo[i] /\ from'[i] = from[i]
  BY <1>t, <1>1, PlacesApart DEF TypeOK
<1>3. TypeOK'
  <2>t. /\ pc \in [Jobs -> Places] /\ todo \in [Jobs -> Seq(Tags)]
        /\ from \in [Jobs -> Image] /\ base[v] \in Image /\ "finish" \in Places
    BY <1>t, <1>v, PlacesApart DEF TypeOK
  <2>1. /\ pc' \in [Jobs -> Places] /\ todo' \in [Jobs -> Seq(Tags)]
        /\ from' \in [Jobs -> Image]
    BY ONLY <2>t, <1>v, <1>1, j \in Jobs
  <2>2. \A i \in Jobs : /\ pc'[i] \in {"name", "finish"} => todo'[i] # <<>>
                        /\ pc'[i] = "finish" => from'[i] # NoImage
    BY <1>t, <1>2, PlacesApart DEF TypeOK
  <2> QED
    BY <1>t, <1>u, <2>1, <2>2 DEF TypeOK
<1>4. JobsMakeSense'
  BY <1>t, <1>u, <1>2, PlacesApart DEF BInv, JobsMakeSense
<1>5. AgesAgree'
  <2> SUFFICES ASSUME ~mixed PROVE AgesAgree'
    BY <1>u DEF AgesAgree
  <2>1. ASSUME NEW i \in Jobs, pc'[i] = "finish" PROVE from'[i].cli <= base'[Head(todo'[i])].cli
    <3>1. CASE i = j
      <4>1. base[v].cli <= base[v].cli
        BY <1>t, <1>v, ImageFields DEF TypeOK
      <4> QED
        BY <1>u, <1>2, <2>1, <3>1, <4>1 DEF v
    <3>2. CASE i # j
      BY <1>u, <1>2, <2>1, <3>2 DEF BInv, AgesAgree
    <3> QED
      BY <3>1, <3>2
  <2>2. \A i \in Jobs : pc'[i] = "name" => /\ pc[i] = "name" /\ todo'[i] = todo[i]
    BY <1>2, PlacesApart
  <2> QED
    BY <1>u, <2>1, <2>2 DEF BInv, AgesAgree
<1>6. NothingFromTheFuture'
  BY <1>u DEF BInv, NothingFromTheFuture
<1>7. BakerIsAhead'
  <2>1. \A i \in Jobs : pc'[i] \in Packed => pc[i] \in Packed
    BY <1>t, <1>2, PlacesApart
  <2>2. ASSUME ~overlapped, ~mixed, NEW i \in Jobs, pc'[i] = "finish"
        PROVE  dev'[Head(todo'[i])].base.cli <= from'[i].cli
    <3>1. CASE i = j
      <4>1. dev[v].base.cli <= base[v].cli
        BY <1>v, <2>2 DEF BInv, AgesAgree
      <4> QED
        BY <1>u, <1>2, <2>2, <3>1, <4>1 DEF v
    <3>2. CASE i # j
      BY <1>u, <1>2, <2>2, <3>2 DEF BInv, BakerIsAhead
    <3> QED
      BY <3>1, <3>2
  <2>3. ~overlapped' => \A i, k \in Baking' : i = k
    BY <1>t, <1>u, <1>2, BakersGoOn
  <2> QED
    BY <1>u, <2>1, <2>2, <2>3 DEF BInv, BakerIsAhead
<1>8. LatestIsDue'
  BY <1>t, <1>u, <1>2, PlacesApart DEF BInv, LatestIsDue
<1> QED
  BY <1>3, <1>4, <1>5, <1>6, <1>7, <1>8 DEF BInv

\* A dev image appears.
LEMMA BakeFinishKeeps == ASSUME BInv, NEW j \in Jobs, BakeFinish(j) PROVE BInv'
<1> DEFINE v == Head(todo[j])
           d == [base |-> from[j], creds |-> snap[j]]
<1>t. /\ TypeOK /\ pc[j] = "finish" /\ todo[j] \in Seq(Tags) /\ todo[j] # <<>>
      /\ from[j] \in Image /\ from[j] # NoImage /\ snap[j] \in Nat
  BY DEF BInv, TypeOK, BakeFinish
<1>u. UNCHANGED <<base, baseLatest, builds, devLatest, creds, kind, layers, snap, from, cached,
                  newest, mixed, marker, booted, early, started, overlapped, failed, torn>>
  BY DEF BakeFinish, baseVars, layerVars, bootVars, failVars
<1>1. /\ pc' = [pc EXCEPT ![j] = "bake"] /\ dev' = [dev EXCEPT ![v] = d]
      /\ todo' = [todo EXCEPT ![j] = Tail(todo[j])]
  BY <1>t DEF BakeFinish, Goto, TypeOK
<1>v. v \in Tags /\ Tail(todo[j]) \in Seq(Tags)
  BY <1>t, TodoRest
<1>d. d \in Dev /\ d.base = from[j] /\ d.creds = snap[j] /\ d # NoDev
  BY <1>t, DevFields
<1>2. /\ pc'[j] = "bake" /\ \A i \in Jobs \ {j} : pc'[i] = pc[i] /\ todo'[i] = todo[i]
      /\ \A w \in Tags : dev'[w] = IF w = v THEN d ELSE dev[w]
  BY <1>t, <1>1, <1>v DEF TypeOK
<1>b. ~mixed => d.base.cli <= base[v].cli
  BY <1>t, <1>d DEF BInv, AgesAgree
<1>c. d.creds <= creds
  BY <1>d DEF BInv, NothingFromTheFuture
<1> HIDE DEF d, v
<1>3. TypeOK'
  <2>1. /\ pc' \in [Jobs -> Places] /\ todo' \in [Jobs -> Seq(Tags)] /\ dev' \in [Tags -> Dev]
    BY <1>t, <1>v, <1>d, <1>1, PlacesApart DEF TypeOK
  <2>2. \A i \in Jobs : /\ pc'[i] \in {"name", "finish"} => todo'[i] # <<>>
                        /\ pc'[i] = "finish" => from'[i] # NoImage
    BY <1>t, <1>u, <1>2 DEF TypeOK
  <2> QED
    BY <1>t, <1>u, <2>1, <2>2 DEF TypeOK
<1>4. JobsMakeSense'
  BY <1>t, <1>u, <1>2, PlacesApart DEF BInv, JobsMakeSense
<1>5. AgesAgree'
  <2> SUFFICES ASSUME ~mixed PROVE AgesAgree'
    BY <1>u DEF AgesAgree
  <2>1. \A w \in Tags : dev'[w].base.cli <= base'[w].cli
    BY <1>u, <1>2, <1>b DEF BInv, AgesAgree
  <2>2. \A i \in Jobs : pc'[i] \in {"name", "finish"} => pc[i] = pc'[i] /\ todo'[i] = todo[i]
    BY <1>2
  <2> QED
    BY <1>u, <2>1, <2>2 DEF BInv, AgesAgree
<1>6. NothingFromTheFuture'
  BY <1>u, <1>2, <1>c DEF BInv, NothingFromTheFuture
<1>7. BakerIsAhead'
  <2>1. ASSUME ~overlapped, NEW i \in Jobs, pc'[i] \in Packed PROVE i = j
    <3>1. pc[i] \in Packed /\ pc[j] \in Packed
      BY <1>t, <1>2, <2>1, PlacesApart
    <3>2. i \in Baking /\ j \in Baking
      BY <3>1, PlacesApart DEF BInv, JobsMakeSense, Baking
    <3> QED
      BY <2>1, <3>2 DEF BInv, BakerIsAhead
  <2>2. ASSUME ~overlapped, NEW w \in Tags PROVE dev'[w].creds <= snap[j]
    <3>1. dev[w].creds <= snap[j]
      BY <1>t, <2>2, PlacesApart DEF BInv, BakerIsAhead
    <3> QED
      BY <1>t, <1>2, <1>d, <3>1
  <2>3. ~overlapped' => \A i, k \in Baking' : i = k
    BY <1>t, <1>u, <1>2, BakersGoOn
  <2> QED
    BY <1>u, <1>2, <2>1, <2>2, <2>3, PlacesApart DEF BakerIsAhead
<1>8. LatestIsDue'
  <2>1. pc'[j] \in Packed /\ \A i \in Jobs : pc[i] \in Building => pc'[i] = pc[i]
    BY <1>t, <1>2, PlacesApart
  <2>2. dev'[Default] = NoDev => dev[Default] = NoDev
    BY <1>2, <1>d
  <2> QED
    BY <1>u, <2>1, <2>2 DEF BInv, LatestIsDue
<1> QED
  BY <1>3, <1>4, <1>5, <1>6, <1>7, <1>8 DEF BInv

\* The default dev image becomes :latest.
LEMMA BakeTagKeeps == ASSUME BInv, NEW j \in Jobs, BakeTag(j) PROVE BInv'
<1>t. TypeOK /\ pc[j] = "bake" /\ End(j)
  BY DEF BInv, BakeTag
<1>u. /\ UNCHANGED <<base, baseLatest, builds, dev, creds, cached, newest, mixed, marker,
                     booted, early, started, overlapped, failed>>
      /\ devLatest' = IF dev[Default] # NoDev THEN dev[Default] ELSE devLatest
      /\ torn' = torn \ {"dev"}
  BY DEF BakeTag, baseVars, layerVars, bootVars
<1>1. TypeOK'
  <2>1. devLatest' \in Dev /\ torn' \subseteq {"base", "dev"}
    BY <1>t, <1>u DEF TypeOK
  <2> QED
    BY <1>t, <1>u, <2>1, EndFacts DEF TypeOK
<1>2. LatestIsDue'
  <2>1. \A i \in Jobs : pc[i] \in Building => pc'[i] = pc[i]
    BY <1>t, EndFacts, PlacesApart
  <2>2. devLatest' = dev'[Default]
    BY <1>u DEF BInv, LatestIsDue
  <2>3. "base" \in torn' <=> "base" \in torn
    BY <1>u
  <2> QED
    BY <1>u, <2>1, <2>2, <2>3 DEF BInv, LatestIsDue
<1> QED
  BY <1>t, <1>u, <1>1, <1>2, EndIsQuiet DEF BInv

-----------------------------------------------------------------------------
\* A job fails.
LEMMA FailKeeps == ASSUME BInv, NEW j \in Jobs, Fail(j) PROVE BInv'
<1>t. TypeOK /\ End(j) /\ failed' = TRUE /\ torn' = torn \cup Tears({j})
  BY DEF BInv, Fail
<1>u. UNCHANGED <<base, baseLatest, builds, dev, devLatest, creds, cached, newest, mixed,
                  marker, booted, early, started, overlapped>>
  BY DEF Fail, baseVars, devVars, layerVars, bootVars
<1>1. TypeOK'
  <2>1. torn' \subseteq {"base", "dev"}
    BY <1>t DEF TypeOK, Tears
  <2> QED
    BY <1>t, <1>u, <2>1, EndFacts DEF TypeOK
<1>2. LatestIsDue'
  <2>1. \A i \in Jobs \ {j} : pc'[i] = pc[i]
    BY <1>t, EndFacts
  <2>2. /\ pc[j] \in Building => "base" \in torn'
        /\ pc[j] \in Packed => "dev" \in torn'
    BY <1>t DEF Tears
  <2>3. torn \subseteq torn'
    BY <1>t
  <2> QED
    BY <1>u, <2>1, <2>2, <2>3 DEF BInv, LatestIsDue
<1> QED
  BY <1>t, <1>u, <1>1, <1>2, EndIsQuiet DEF BInv

\* The machine boots again.
LEMMA BootKeeps == ASSUME BInv, Boot PROVE BInv'
<1>t. TypeOK /\ torn' = torn \cup Tears(Jobs) /\ failed' = (failed \/ ~Idle) /\ booted' = FALSE
  BY DEF BInv, Boot
<1>u. UNCHANGED <<base, baseLatest, builds, dev, devLatest, creds, cached, newest, mixed,
                  marker, early, started, overlapped>>
  BY DEF Boot, baseVars, devVars, layerVars
<1>0. /\ kind' = [j \in Jobs |-> "none"] /\ pc' = [j \in Jobs |-> "idle"]
      /\ todo' = [j \in Jobs |-> <<>>] /\ layers' = [j \in Jobs |-> 0]
      /\ snap' = [j \in Jobs |-> 0] /\ from' = [j \in Jobs |-> NoImage]
  BY DEF Boot
<1>1. TypeOK'
  <2>1. torn' \subseteq {"base", "dev"} /\ failed' \in BOOLEAN
    BY <1>t DEF TypeOK, Tears
  <2>2. <<>> \in Seq(Tags) /\ "none" \in Kinds /\ "idle" \in Places
    BY PlacesApart DEF Kinds
  <2>3. /\ kind' \in [Jobs -> Kinds] /\ pc' \in [Jobs -> Places]
        /\ todo' \in [Jobs -> Seq(Tags)] /\ layers' \in [Jobs -> Nat]
        /\ snap' \in [Jobs -> Nat] /\ from' \in [Jobs -> Image]
    BY <1>0, <2>2, ImageFields
  <2> QED
    BY <1>t, <1>u, <1>0, <2>1, <2>3 DEF TypeOK
<1>2. JobsMakeSense'
  BY <1>0, PlacesApart DEF JobsMakeSense
<1>3. AgesAgree' /\ NothingFromTheFuture' /\ BakerIsAhead'
  <2>1. \A i \in Jobs : pc'[i] = "idle" /\ snap'[i] = 0
    BY <1>0
  <2>2. ~overlapped' => \A i, k \in Baking' : i = k
    BY <2>1 DEF Baking
  <2>3. creds' \in Nat /\ creds <= creds'
    BY <1>t, <1>u DEF TypeOK
  <2>4. \A i \in Jobs :
            /\ snap'[i] = snap[i] \/ snap'[i] = 0
            /\ pc'[i] \in Packed => pc[i] \in Packed /\ snap'[i] = snap[i]
            /\ pc'[i] = "finish" => /\ pc[i] = "finish" /\ todo'[i] = todo[i]
                                    /\ from'[i] = from[i]
            /\ pc'[i] = "name" => /\ pc[i] = "name" /\ todo'[i] = todo[i]
                                  /\ layers'[i] = layers[i]
    BY <2>1, PlacesApart
  <2> QED
    BY <1>u, <2>2, <2>3, <2>4, QuietStep
<1>4. LatestIsDue'
  <2>1. /\ (\E i \in Jobs : pc[i] \in Building) => "base" \in torn'
        /\ (\E i \in Jobs : pc[i] \in Packed) => "dev" \in torn'
    BY <1>t DEF Tears
  <2>2. torn \subseteq torn'
    BY <1>t
  <2> QED
    BY <1>u, <2>1, <2>2 DEF BInv, LatestIsDue
<1> QED
  BY <1>1, <1>2, <1>3, <1>4 DEF BInv

\* Somebody logs in.
LEMMA CredentialsKeep == ASSUME BInv, CredentialsChange PROVE BInv'
<1>t. TypeOK /\ creds' = creds + 1
  BY DEF BInv, CredentialsChange
<1>u. UNCHANGED <<base, baseLatest, builds, dev, devLatest, kind, pc, todo, layers, snap, from,
                  cached, newest, mixed, marker, booted, early, started, overlapped, failed,
                  torn>>
  BY DEF CredentialsChange, jobVars, layerVars, baseVars, devVars, bootVars, failVars
<1>1. TypeOK'
  BY <1>t, <1>u DEF TypeOK
<1>2. JobsMakeSense' /\ LatestIsDue'
  BY <1>u DEF BInv, JobsMakeSense, LatestIsDue
<1>3. ~overlapped' => \A i, k \in Baking' : i = k
  BY <1>u, BakersGoOn
<1>4. AgesAgree' /\ NothingFromTheFuture' /\ BakerIsAhead'
  <2>1. creds' \in Nat /\ creds <= creds'
    BY <1>t DEF TypeOK
  <2> QED
    BY <1>u, <1>3, <2>1, QuietStep
<1> QED
  BY <1>1, <1>2, <1>4 DEF BInv

\* A job starts, or the bootstrap finds its work done.
LEMMA StartsKeep ==
    ASSUME BInv, NEW j \in Jobs,
           StartBuild(j) \/ StartRefresh(j) \/ StartBake(j) \/ Bootstrap(j)
    PROVE  BInv'
<1>t. marker \in BOOLEAN /\ booted \in BOOLEAN /\ early \in BOOLEAN
  BY DEF BInv, TypeOK
<1>1. CASE StartBuild(j)
  <2>1. PICK s \in Seq(Tags), k \in {"build", "fresh"} : Start(j, k, "build", s)
    BY <1>1, SelectionsAreLists DEF StartBuild
  <2>2. UNCHANGED <<marker, booted>> /\ early' \in BOOLEAN
    BY <1>1, <1>t DEF StartBuild, Waited
  <2> QED
    BY <1>t, <2>1, <2>2, StartKeeps
<1>2. CASE StartRefresh(j)
  <2>1. Start(j, "refresh", "build", Variants) /\ UNCHANGED <<marker, booted>> /\ early' \in BOOLEAN
    BY <1>2, <1>t DEF StartRefresh, Waited
  <2> QED
    BY <1>t, <2>1, StartKeeps
<1>3. CASE StartBake(j)
  <2>1. PICK s \in Seq(Tags) : Start(j, "bake", "pack", s)
    BY <1>3, SelectionsAreLists DEF StartBake
  <2>2. UNCHANGED <<marker, booted, early>>
    BY <1>3 DEF StartBake, bootVars
  <2> QED
    BY <1>t, <2>1, <2>2, StartKeeps
<1>4. CASE Bootstrap(j)
  <2>1. CASE base[Default] # NoImage
    <3>1. /\ marker' = TRUE /\ booted' = TRUE
          /\ UNCHANGED <<base, baseLatest, builds, dev, devLatest, creds, kind, pc, todo,
                         layers, snap, from, cached, newest, mixed, early, started,
                         overlapped, failed, torn>>
      BY <1>4, <2>1 DEF Bootstrap, jobVars, layerVars, baseVars, devVars, failVars
    <3>2. TypeOK'
      BY <3>1 DEF BInv, TypeOK
    <3>3. ~overlapped' => \A i, k \in Baking' : i = k
      BY <3>1, BakersGoOn
    <3>4. creds' \in Nat /\ creds <= creds'
      BY <3>1 DEF BInv, TypeOK
    <3>5. AgesAgree' /\ NothingFromTheFuture' /\ BakerIsAhead'
      BY <3>1, <3>3, <3>4, QuietStep
    <3> QED
      BY <3>1, <3>2, <3>5 DEF BInv, JobsMakeSense, LatestIsDue
  <2>2. CASE base[Default] = NoImage
    <3>1. /\ Start(j, "bootstrap", "build", Variants) /\ marker' = marker /\ booted' = TRUE
          /\ early' = early
      BY <1>4, <2>2 DEF Bootstrap
    <3> QED
      BY <1>t, <3>1, StartKeeps
  <2> QED
    BY <2>1, <2>2
<1> QED
  BY <1>1, <1>2, <1>3, <1>4

LEMMA BuildsNext == BInv /\ [Next]_vars => BInv'
<1> SUFFICES ASSUME BInv, [Next]_vars PROVE BInv'
  OBVIOUS
<1>1. CASE UNCHANGED vars
  <2> USE <1>1 DEF vars, jobVars, layerVars, baseVars, devVars, bootVars, failVars
  <2>1. TypeOK' /\ JobsMakeSense' /\ AgesAgree'
    BY DEF BInv, TypeOK, JobsMakeSense, AgesAgree
  <2>2. NothingFromTheFuture' /\ BakerIsAhead' /\ LatestIsDue'
    BY DEF BInv, NothingFromTheFuture, BakerIsAhead, LatestIsDue, Baking
  <2> QED
    BY <2>1, <2>2 DEF BInv
<1> QED
  BY <1>1, StartsKeep, BuildVariantKeeps, BuildNameKeeps, BuildTagKeeps, BootstrapMarkKeeps,
     BakePackKeeps, BakeVariantKeeps, BakeFinishKeeps, BakeTagKeeps, FailKeeps, BootKeeps,
     CredentialsKeep DEF Next

\* Nothing is newer than what it was made of, a lone bake is ahead of the dev
\* images, and :latest is due as long as a job runs.
THEOREM BuildsInductive == Spec => []BInv
<1> QED
  BY BuildsInit, BuildsNext, PTL DEF Spec

-----------------------------------------------------------------------------
\* The images, the jobs and their lists keep their types.
THEOREM BuildsTypeCorrect == Spec => []TypeOK
<1>1. BInv => TypeOK
  BY DEF BInv
<1> QED
  BY <1>1, BuildsInductive, PTL

\* Between jobs :latest is the default variant, however the jobs before it
\* overlapped, unless the last one to replace images failed.
THEOREM BuildsLatestIsDefault == Spec => []LatestIsDefault
<1>1. BInv => LatestIsDefault
  BY PlacesApart DEF BInv, LatestIsDue, LatestIsDefault, Idle
<1> QED
  BY <1>1, BuildsInductive, PTL

\* Whatever fails, as long as no two jobs bake at once, no job puts older
\* credentials into a dev image, nor older CLIs unless a build mixed their ages.
THEOREM BuildsNeverGoBack == Spec => DevNeverBack
<1> DEFINE Ahead == ~overlapped =>
               \A v \in Tags : /\ dev'[v].creds >= dev[v].creds
                               /\ ~mixed => dev'[v].base.cli >= dev[v].base.cli
<1>1. BInv /\ [Next]_vars => [Ahead]_vars
  <2> SUFFICES ASSUME BInv, Next, ~overlapped, NEW v \in Tags
               PROVE  /\ dev'[v].creds >= dev[v].creds
                      /\ ~mixed => dev'[v].base.cli >= dev[v].base.cli
    OBVIOUS
  <2>t. dev[v].base.cli \in Nat /\ dev[v].creds \in Nat
    BY DevFields DEF BInv, TypeOK
  <2>1. CASE \E j \in Jobs : BakeFinish(j)
    <3>1. PICK j \in Jobs : BakeFinish(j)
      BY <2>1
    <3> DEFINE w == Head(todo[j])
               d == [base |-> from[j], creds |-> snap[j]]
    <3>2. /\ pc[j] = "finish" /\ from[j].cli \in Nat /\ snap[j] \in Nat /\ w \in Tags
          /\ dev' = [dev EXCEPT ![w] = d]
      BY <3>1, TodoRest, ImageFields DEF BInv, TypeOK, BakeFinish
    <3>3. dev[v].creds <= snap[j] /\ (~mixed => dev[w].base.cli <= from[j].cli)
      BY <3>2, PlacesApart DEF BInv, BakerIsAhead
    <3>4. d.creds = snap[j] /\ d.base = from[j]
      OBVIOUS
    <3> HIDE DEF w, d
    <3>5. dev'[v] = IF v = w THEN d ELSE dev[v]
      BY <3>2 DEF BInv, TypeOK
    <3>6. CASE v = w
      BY <2>t, <3>2, <3>3, <3>4, <3>5, <3>6
    <3>7. CASE v # w
      BY <2>t, <3>5, <3>7
    <3> QED
      BY <3>6, <3>7
  <2>2. CASE ~(\E j \in Jobs : BakeFinish(j))
    <3>1. dev' = dev
      BY <2>2 DEF Next, StartBuild, StartRefresh, StartBake, Bootstrap, Start, BuildVariant,
         BuildName, BuildTag, BootstrapMark, BakePack, BakeVariant, BakeTag, Fail,
         CredentialsChange, Boot, devVars
    <3> QED
      BY <2>t, <3>1
  <2> QED
    BY <2>1, <2>2
<1> QED
  BY <1>1, BuildsInductive, PTL DEF Spec, DevNeverBack

-----------------------------------------------------------------------------
(***************************************************************************)
(* The bootstrap.  As long as no job was cut short and nobody built before *)
(* it: before it has started no image exists and nobody builds; while it   *)
(* runs each variant exists or is still on its list, whatever the jobs     *)
(* beside it do; and once it is marked complete each exists.               *)
(***************************************************************************)
Complete == \A v \in Tags : base[v] # NoImage
ToCome(s) == {s[i] : i \in 1 .. Len(s)}
Bootstrapping(j) == kind[j] = "bootstrap" /\ pc[j] # "idle"

BootstrapWorks(j) ==
    \/ pc[j] \in Building /\ \A v \in Tags : base[v] # NoImage \/ v \in ToCome(todo[j])
    \/ pc[j] = "mark" /\ Complete

BootstrapDue ==
    /\ marker => Complete
    /\ ~marker /\ ~booted => /\ \A v \in Tags : base[v] = NoImage
                             /\ \A j \in Jobs : pc[j] \notin Building \cup {"mark"}
    /\ ~marker /\ booted => \E j \in Jobs : Bootstrapping(j)
    /\ \A j \in Jobs : Bootstrapping(j) => BootstrapWorks(j)
    /\ \A j \in Jobs : pc[j] = "mark" => kind[j] = "bootstrap"

BootInv == AutoBuild /\ ~failed /\ ~early => BootstrapDue

LEMMA ToComeRest ==
    ASSUME NEW s \in Seq(Tags), s # <<>>, NEW v \in ToCome(s), v # Head(s)
    PROVE  v \in ToCome(Tail(s))
<1>1. PICK i \in 1 .. Len(s) : v = s[i]
  BY DEF ToCome
<1>2. i # 1 /\ i - 1 \in 1 .. Len(Tail(s)) /\ Tail(s)[i - 1] = s[i]
  BY <1>1
<1> QED
  BY <1>1, <1>2 DEF ToCome

LEMMA AllToCome == ToCome(Variants) = Tags
BY DEF ToCome, Tags

\* A step of jobs that are not the bootstrap, that removes no image and builds
\* none before the bootstrap, leaves what is due as it was.
LEMMA DueKept ==
    ASSUME TypeOK, BootstrapDue, UNCHANGED <<marker, booted>>,
           \/ Waited
           \/ base' = base /\ \A i \in Jobs : pc'[i] \in Building => pc[i] \in Building,
           \A v \in Tags : base[v] # NoImage => base'[v] # NoImage,
           \A i \in Jobs : \/ pc'[i] = pc[i] /\ kind'[i] = kind[i] /\ todo'[i] = todo[i]
                           \/ /\ ~Bootstrapping(i) /\ pc'[i] # "mark"
                              /\ kind'[i] # "bootstrap" \/ pc'[i] = "idle"
    PROVE  BootstrapDue'
<1>1. \A i \in Jobs : Bootstrapping(i)' => /\ Bootstrapping(i) /\ todo'[i] = todo[i]
                                           /\ pc'[i] = pc[i]
  BY DEF Bootstrapping
<1>2. \A i \in Jobs : Bootstrapping(i) => Bootstrapping(i)'
  BY DEF Bootstrapping
<1>3. ASSUME NEW i \in Jobs, Bootstrapping(i)' PROVE BootstrapWorks(i)'
  BY <1>1, <1>3 DEF BootstrapDue, BootstrapWorks, Complete
<1>4. \A i \in Jobs : pc'[i] = "mark" => kind'[i] = "bootstrap"
  BY DEF BootstrapDue
<1>5. (marker => Complete)'
  BY DEF BootstrapDue, Complete
<1>6. ASSUME ~marker', ~booted'
      PROVE  /\ \A v \in Tags : base'[v] = NoImage
             /\ \A i \in Jobs : pc'[i] \notin Building \cup {"mark"}
  <2>1. base' = base /\ \A i \in Jobs : pc'[i] \in Building => pc[i] \in Building
    BY <1>6 DEF Waited
  <2>2. /\ \A v \in Tags : base[v] = NoImage
        /\ \A i \in Jobs : pc[i] \notin Building \cup {"mark"}
    BY <1>6 DEF BootstrapDue
  <2>3. \A i \in Jobs : pc'[i] # "mark"
    BY <2>2
  <2> QED
    BY <2>1, <2>2, <2>3
<1>7. ~marker' /\ booted' => \E i \in Jobs : Bootstrapping(i)'
  BY <1>2 DEF BootstrapDue
<1> QED
  BY <1>3, <1>4, <1>5, <1>6, <1>7 DEF BootstrapDue

\* A step of the bootstrap itself before its last.
LEMMA BootstrapGoesOn ==
    ASSUME TypeOK, BootstrapDue, UNCHANGED <<marker, booted, kind>>,
           \A v \in Tags : base[v] # NoImage => base'[v] # NoImage,
           NEW j \in Jobs, Bootstrapping(j), Bootstrapping(j)', BootstrapWorks(j)',
           \A i \in Jobs \ {j} : pc'[i] = pc[i] /\ todo'[i] = todo[i]
    PROVE  BootstrapDue'
<1>1. ASSUME NEW i \in Jobs \ {j}, Bootstrapping(i)' PROVE BootstrapWorks(i)'
  BY <1>1 DEF Bootstrapping, BootstrapDue, BootstrapWorks, Complete
<1>2. \A i \in Jobs : pc'[i] = "mark" => kind'[i] = "bootstrap"
  BY DEF BootstrapDue, Bootstrapping
<1>3. (marker => Complete)'
  BY DEF BootstrapDue, Complete
<1>4. marker' \/ booted'
  BY DEF BootstrapDue, BootstrapWorks
<1> QED
  BY <1>1, <1>2, <1>3, <1>4 DEF BootstrapDue

LEMMA BootInit == Init => BootInv
<1> SUFFICES ASSUME Init, AutoBuild PROVE BootstrapDue
  BY DEF BootInv
<1>1. \A j \in Jobs : pc[j] = "idle"
  BY DEF Init
<1>2. \A j \in Jobs : ~Bootstrapping(j) /\ pc[j] # "mark" /\ pc[j] \notin Building
  BY <1>1, PlacesApart DEF Bootstrapping
<1>3. ~marker /\ ~booted
  BY DEF Init
<1> QED
  BY <1>1, <1>2, <1>3 DEF BootstrapDue, Init

LEMMA BootNext == BInv /\ BootInv /\ [Next]_vars => BootInv'
<1> SUFFICES ASSUME BInv, BootInv, [Next]_vars, AutoBuild, ~failed', ~early'
             PROVE  BootstrapDue'
  BY DEF BootInv
<1>t. TypeOK /\ JobsMakeSense
  BY DEF BInv
<1>f. ~failed /\ ~early
  <2>1. failed => failed'
    BY <1>t DEF TypeOK, Next, vars, StartBuild, StartRefresh, StartBake, Bootstrap, Start,
       BuildVariant, BuildName, BuildTag, BootstrapMark, BakePack, BakeVariant, BakeFinish,
       BakeTag, Fail, CredentialsChange, Boot, failVars
  <2>2. early => early'
    BY <1>t DEF TypeOK, Next, vars, StartBuild, StartRefresh, StartBake, Bootstrap,
       BuildVariant, BuildName, BuildTag, BootstrapMark, BakePack, BakeVariant, BakeFinish,
       BakeTag, Fail, CredentialsChange, Boot, bootVars
  <2> QED
    BY <2>1, <2>2
<1>d. BootstrapDue
  BY <1>f DEF BootInv
<1>q. \A i \in Jobs : pc[i] \in Building \cup {"mark"} => Waited
  BY <1>d DEF BootstrapDue, Waited
<1>1. ASSUME NEW j \in Jobs, NEW k \in {"build", "fresh", "refresh", "bake"},
             NEW place \in {"build", "pack"}, NEW s, Start(j, k, place, s),
             Waited \/ place = "pack", UNCHANGED <<marker, booted>>
      PROVE  BootstrapDue'
  <2>1. /\ pc[j] = "idle" /\ pc'[j] = place /\ kind'[j] = k /\ base' = base
        /\ \A i \in Jobs \ {j} : pc'[i] = pc[i] /\ kind'[i] = kind[i] /\ todo'[i] = todo[i]
    BY <1>t, <1>1 DEF Start, Goto, TypeOK, baseVars
  <2>2. Waited \/ \A i \in Jobs : pc'[i] \in Building => pc[i] \in Building
    BY <1>1, <2>1, PlacesApart
  <2>3. ~Bootstrapping(j) /\ pc'[j] # "mark" /\ kind'[j] # "bootstrap"
    BY <2>1 DEF Bootstrapping
  <2> QED
    BY <1>t, <1>d, <1>1, <2>1, <2>2, <2>3, DueKept
<1>2. ASSUME NEW j \in Jobs, StartBuild(j) \/ StartRefresh(j) \/ StartBake(j)
      PROVE  BootstrapDue'
  <2>1. CASE StartBuild(j)
    BY <1>1, <2>1 DEF StartBuild
  <2>2. CASE StartRefresh(j)
    BY <1>1, <2>2 DEF StartRefresh
  <2>3. CASE StartBake(j)
    BY <1>1, <2>3 DEF StartBake, bootVars
  <2> QED
    BY <1>2, <2>1, <2>2, <2>3
<1>3. ASSUME NEW j \in Jobs, Bootstrap(j) PROVE BootstrapDue'
  <2>1. /\ base[Default] = NoImage
        /\ \A i \in Jobs : pc[i] \notin Building \cup {"mark"} /\ ~Bootstrapping(i)
    BY <1>d, <1>3 DEF Bootstrap, BootstrapDue, BootstrapWorks
  <2>2. /\ pc'[j] = "build" /\ kind'[j] = "bootstrap" /\ todo'[j] = Variants
        /\ \A i \in Jobs \ {j} : pc'[i] = pc[i] /\ kind'[i] = kind[i]
        /\ booted' /\ ~marker'
    BY <1>t, <1>3, <2>1 DEF Bootstrap, Start, Goto, TypeOK
  <2>3. BootstrapWorks(j)'
    BY <2>2, AllToCome, PlacesApart DEF BootstrapWorks
  <2>4. Bootstrapping(j)' /\ \A i \in Jobs \ {j} : ~Bootstrapping(i)'
    BY <2>1, <2>2 DEF Bootstrapping
  <2>5. \A i \in Jobs : pc'[i] = "mark" => kind'[i] = "bootstrap"
    BY <2>1, <2>2
  <2> QED
    BY <2>2, <2>3, <2>4, <2>5 DEF BootstrapDue
<1>4. ASSUME NEW j \in Jobs, BuildVariant(j) PROVE BootstrapDue'
  <2>1. /\ pc[j] = "build" /\ pc'[j] = "name"
        /\ UNCHANGED <<marker, booted, kind, todo, base>>
        /\ \A i \in Jobs \ {j} : pc'[i] = pc[i]
    BY <1>t, <1>4 DEF BuildVariant, Goto, TypeOK, baseVars, bootVars
  <2>2. CASE kind[j] = "bootstrap"
    <3>1. BootstrapWorks(j)'
      BY <1>d, <2>1, <2>2, PlacesApart DEF BootstrapDue, Bootstrapping, BootstrapWorks
    <3> QED
      BY <1>t, <1>d, <2>1, <2>2, <3>1, BootstrapGoesOn DEF Bootstrapping
  <2>3. CASE kind[j] # "bootstrap"
    BY <1>t, <1>d, <1>q, <2>1, <2>3, DueKept, PlacesApart DEF Bootstrapping
  <2> QED
    BY <2>2, <2>3
<1>5. ASSUME NEW j \in Jobs, BuildName(j) PROVE BootstrapDue'
  <2> DEFINE v == Head(todo[j])
             n == [build |-> builds + 1, cli |-> layers[j]]
  <2>1. /\ pc[j] = "name" /\ pc'[j] = "build" /\ UNCHANGED <<marker, booted, kind>>
        /\ todo[j] \in Seq(Tags) /\ todo[j] # <<>> /\ todo'[j] = Tail(todo[j])
        /\ base' = [base EXCEPT ![v] = n]
        /\ \A i \in Jobs \ {j} : pc'[i] = pc[i] /\ todo'[i] = todo[i]
    BY <1>t, <1>5 DEF BuildName, Goto, TypeOK, bootVars
  <2>2. n # NoImage
    BY <1>t, ImageFields DEF TypeOK
  <2> HIDE DEF n
  <2>3. /\ base'[v] # NoImage
        /\ \A w \in Tags : base[w] # NoImage => base'[w] # NoImage
    BY <1>t, <2>1, <2>2, TodoRest DEF TypeOK
  <2>4. CASE kind[j] = "bootstrap"
    <3>1. \A w \in Tags : base[w] # NoImage \/ w \in ToCome(todo[j])
      BY <1>d, <2>1, <2>4 DEF BootstrapDue, Bootstrapping, BootstrapWorks
    <3>2. \A w \in Tags : base'[w] # NoImage \/ w \in ToCome(todo'[j])
      BY <2>1, <2>3, <3>1, ToComeRest
    <3>3. BootstrapWorks(j)' /\ Bootstrapping(j) /\ Bootstrapping(j)'
      BY <2>1, <2>4, <3>2, PlacesApart DEF BootstrapWorks, Bootstrapping
    <3> QED
      BY <1>t, <1>d, <2>1, <2>3, <3>3, BootstrapGoesOn
  <2>5. CASE kind[j] # "bootstrap"
    BY <1>t, <1>d, <1>q, <2>1, <2>3, <2>5, DueKept, PlacesApart DEF Bootstrapping
  <2> QED
    BY <2>4, <2>5
<1>6. ASSUME NEW j \in Jobs, BuildTag(j) PROVE BootstrapDue'
  <2>1. /\ pc[j] = "build" /\ todo[j] = <<>> /\ UNCHANGED <<marker, booted, base>>
    BY <1>6 DEF BuildTag, bootVars
  <2>2. CASE kind[j] = "bootstrap"
    <3>1. Complete
      BY <1>d, <2>1, <2>2 DEF BootstrapDue, Bootstrapping, BootstrapWorks, ToCome, Complete
    <3>2. AfterTag(j)
      BY <1>6, <3>1 DEF BuildTag, Complete
    <3>3. /\ pc'[j] = "mark" /\ UNCHANGED <<kind, todo>>
          /\ \A i \in Jobs \ {j} : pc'[i] = pc[i]
      BY <1>t, <2>2, <3>2 DEF AfterTag, Goto, TypeOK
    <3>4. BootstrapWorks(j)' /\ Bootstrapping(j) /\ Bootstrapping(j)'
      BY <2>1, <2>2, <3>1, <3>3 DEF BootstrapWorks, Bootstrapping, Complete
    <3> QED
      BY <1>t, <1>d, <2>1, <3>3, <3>4, BootstrapGoesOn
  <2>3. CASE kind[j] # "bootstrap"
    <3>1. /\ pc'[j] \in {"idle", "pack"} /\ kind'[j] # "bootstrap"
          /\ \A i \in Jobs \ {j} : pc'[i] = pc[i] /\ kind'[i] = kind[i] /\ todo'[i] = todo[i]
      BY <1>t, <1>6, <2>3 DEF BuildTag, AfterTag, End, Goto, TypeOK
    <3>2. ~Bootstrapping(j) /\ Waited
      BY <1>q, <2>1, <2>3, PlacesApart DEF Bootstrapping
    <3> QED
      BY <1>t, <1>d, <2>1, <3>1, <3>2, DueKept
  <2> QED
    BY <2>2, <2>3
<1>7. ASSUME NEW j \in Jobs, BootstrapMark(j) PROVE BootstrapDue'
  <2>1. Complete
    BY <1>d, <1>7, PlacesApart DEF BootstrapMark, BootstrapDue, Bootstrapping, BootstrapWorks
  <2>2. /\ marker' /\ pc'[j] = "idle" /\ base' = base
        /\ \A i \in Jobs \ {j} : pc'[i] = pc[i] /\ kind'[i] = kind[i] /\ todo'[i] = todo[i]
    BY <1>t, <1>7, EndFacts DEF BootstrapMark, baseVars
  <2>3. ASSUME NEW i \in Jobs, Bootstrapping(i)' PROVE BootstrapWorks(i)'
    BY <1>d, <2>2, <2>3 DEF BootstrapDue, Bootstrapping, BootstrapWorks, Complete
  <2>4. \A i \in Jobs : pc'[i] = "mark" => kind'[i] = "bootstrap"
    BY <1>d, <2>2 DEF BootstrapDue
  <2> QED
    BY <2>1, <2>2, <2>3, <2>4 DEF BootstrapDue, Complete
<1>8. ASSUME NEW j \in Jobs, BakePack(j) \/ BakeVariant(j) \/ BakeFinish(j)
      PROVE  BootstrapDue'
  <2>1. /\ pc[j] \in {"pack"} \cup Packed /\ UNCHANGED <<marker, booted, kind, base>>
        /\ pc'[j] \in Packed
        /\ \A i \in Jobs \ {j} : pc'[i] = pc[i] /\ todo'[i] = todo[i]
    BY <1>t, <1>8, PlacesApart DEF BakePack, BakeVariant, BakeFinish, Goto, TypeOK, baseVars,
       bootVars
  <2>2. ~Bootstrapping(j) /\ kind'[j] # "bootstrap"
    BY <1>t, <2>1 DEF JobsMakeSense, Bootstrapping
  <2>3. pc'[j] # "mark" /\ \A i \in Jobs : pc'[i] \in Building => pc[i] \in Building
    BY <2>1, PlacesApart
  <2> QED
    BY <1>t, <1>d, <2>1, <2>2, <2>3, DueKept
<1>9. ASSUME NEW j \in Jobs, BakeTag(j) PROVE BootstrapDue'
  <2>1. /\ pc[j] = "bake" /\ UNCHANGED <<marker, booted, base>> /\ pc'[j] = "idle"
        /\ \A i \in Jobs \ {j} : pc'[i] = pc[i] /\ kind'[i] = kind[i] /\ todo'[i] = todo[i]
    BY <1>t, <1>9, EndFacts DEF BakeTag, baseVars, bootVars
  <2>2. ~Bootstrapping(j)
    BY <1>t, <2>1, PlacesApart DEF JobsMakeSense, Bootstrapping
  <2>3. pc'[j] # "mark" /\ \A i \in Jobs : pc'[i] \in Building => pc[i] \in Building
    BY <2>1, PlacesApart
  <2> QED
    BY <1>t, <1>d, <2>1, <2>2, <2>3, DueKept
<1>10. CASE CredentialsChange \/ UNCHANGED vars
  BY <1>d, <1>10 DEF CredentialsChange, vars, BootstrapDue, Bootstrapping, BootstrapWorks,
     Complete, baseVars, jobVars, bootVars
<1>11. ASSUME NEW j \in Jobs, Fail(j) PROVE FALSE
  BY <1>11 DEF Fail
\* A boot that cuts nobody short comes before the bootstrap or after its end.
<1>12. CASE Boot
  <2>1. Idle /\ booted' = FALSE
    BY <1>12 DEF Boot
  <2>2. marker \/ \A v \in Tags : base[v] = NoImage
    BY <1>d, <1>t, <2>1 DEF BootstrapDue, Bootstrapping, Idle, TypeOK
  <2>3. /\ marker' = marker /\ base' = base /\ \A i \in Jobs : pc'[i] = "idle"
    BY <1>12 DEF Boot, baseVars
  <2> QED
    BY <1>d, <2>1, <2>2, <2>3, PlacesApart DEF BootstrapDue, Bootstrapping, Complete
<1> QED
  BY <1>2, <1>3, <1>4, <1>5, <1>6, <1>7, <1>8, <1>9, <1>10, <1>11, <1>12 DEF Next

\* The bootstrap counts as complete only with every variant there, whatever the
\* jobs beside it do, as long as no job was cut short and nobody built before it.
THEOREM BuildsBootstrapComplete == Spec => []BootstrapCompleteUndisturbed
<1>1. Spec => []BootInv
  BY BootInit, BootNext, BuildsInductive, PTL DEF Spec
<1>2. BootInv => BootstrapCompleteUndisturbed
  BY DEF BootInv, BootstrapDue, Complete, BootstrapCompleteUndisturbed, BootstrapComplete
<1> QED
  BY <1>1, <1>2, PTL
=============================================================================
