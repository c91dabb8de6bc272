---------------------------- MODULE ImageBuilds ----------------------------
(***************************************************************************)
(* The image jobs (exe-image-forge build, bake and refresh, and the        *)
(* appliance's bootstrap.sh): which build each base image is from, and     *)
(* which base image and which credentials each dev image is made of.  The  *)
(* operator's shell, the admin console, the weekly timer and the boot each *)
(* start jobs; nothing in the scripts keeps two of them apart.  A variant  *)
(* is built and baked in two steps: the layer with the CLIs and the base   *)
(* image are taken when the docker command starts, the image appears at    *)
(* its end.  The layer that holds the CLIs all variants share              *)
(* (image/Dockerfile:111-125) is one for all variants; how new an image's  *)
(* CLIs are is the age of that layer, which the others are built upon.     *)
(***************************************************************************)
EXTENDS Naturals, Sequences, FiniteSets

CONSTANTS
    Variants,    \* the variants in the order of VARIANTS
    Default,     \* min, the variant that :latest stands for
    Jobs,        \* jobs that may run at once
    AutoBuild,   \* FORGE_AUTO_BUILD: whether the first boot builds the images
    Failures,    \* whether a docker command or the power may fail
    Early,       \* whether anybody starts a job before the boot's bootstrap
    MaxJobs,     \* bound: jobs started
    MaxLogins    \* bound: changes of the credentials

Tags == {Variants[i] : i \in DOMAIN Variants}

ASSUME VariantsListed == Variants \in Seq(Tags)
ASSUME DefaultIsVariant == Default \in Tags
ASSUME Modes ==
    /\ AutoBuild \in BOOLEAN /\ Failures \in BOOLEAN /\ Early \in BOOLEAN
    /\ MaxJobs \in Nat /\ MaxLogins \in Nat

VARIABLES
    base, baseLatest,   \* base images: which build they are from, how new their CLIs are
    dev, devLatest,     \* dev images: base image and credentials
    creds,              \* credentials in the authentication home, 0 for none
    kind, pc, todo,     \* the jobs: what they are, where, and the variants to come
    layers,             \* the layer of CLIs a job builds upon, 0 for none yet
    snap, from,         \* credentials a job packed, base image it is baking on
    marker,             \* bootstrap-complete
    booted,             \* whether the bootstrap job of this boot has been started
    cached, newest,     \* layers of CLIs: the one plain builds find, the newest one made
    builds, started,    \* counters
    overlapped,         \* history: whether two jobs baked at once
    mixed,              \* history: whether a variant was built upon a layer older than it
                        \* had, or by two jobs at once
    early,              \* history: whether somebody built before the boot's bootstrap
    failed,             \* history: whether a job did not reach its end
    torn                \* history: whose :latest a job that failed did not come to set

jobVars == <<kind, pc, todo, layers, snap, from>>
layerVars == <<cached, newest, mixed>>
baseVars == <<base, baseLatest, builds>>
devVars == <<dev, devLatest>>
bootVars == <<marker, booted, early>>
failVars == <<failed, torn>>
vars == <<jobVars, layerVars, baseVars, devVars, bootVars, failVars, creds, started, overlapped>>

NoImage == [build |-> 0, cli |-> 0]
Image == [build : Nat, cli : Nat]
NoDev == [base |-> NoImage, creds |-> 0]
Dev == [base : Image, creds : Nat]
Kinds == {"none", "bootstrap", "build", "fresh", "refresh", "bake"}
Building == {"build", "name"}
Packed == {"bake", "finish"}
Places == {"idle", "mark", "pack"} \cup Building \cup Packed
Idle == \A j \in Jobs : pc[j] = "idle"

TypeOK ==
    /\ base \in [Tags -> Image] /\ baseLatest \in Image
    /\ dev \in [Tags -> Dev] /\ devLatest \in Dev
    /\ creds \in Nat /\ cached \in Nat /\ newest \in Nat
    /\ kind \in [Jobs -> Kinds] /\ pc \in [Jobs -> Places]
    /\ todo \in [Jobs -> Seq(Tags)] /\ layers \in [Jobs -> Nat]
    /\ snap \in [Jobs -> Nat] /\ from \in [Jobs -> Image]
    /\ marker \in BOOLEAN /\ booted \in BOOLEAN
    /\ builds \in Nat /\ started \in Nat
    /\ overlapped \in BOOLEAN /\ mixed \in BOOLEAN
    /\ early \in BOOLEAN /\ failed \in BOOLEAN /\ torn \subseteq {"base", "dev"}
    /\ \A j \in Jobs : /\ pc[j] \in {"name", "finish"} => todo[j] # <<>>
                       /\ pc[j] = "finish" => from[j] # NoImage

Init ==
    /\ base = [v \in Tags |-> NoImage] /\ baseLatest = NoImage
    /\ dev = [v \in Tags |-> NoDev] /\ devLatest = NoDev
    /\ creds = 0 /\ cached = 0 /\ newest = 0
    /\ kind = [j \in Jobs |-> "none"] /\ pc = [j \in Jobs |-> "idle"]
    /\ todo = [j \in Jobs |-> <<>>] /\ layers = [j \in Jobs |-> 0]
    /\ snap = [j \in Jobs |-> 0] /\ from = [j \in Jobs |-> NoImage]
    /\ marker = ~AutoBuild /\ booted = FALSE /\ builds = 0 /\ started = 0
    /\ overlapped = FALSE /\ mixed = FALSE /\ early = FALSE /\ failed = FALSE /\ torn = {}

Goto(j, place) == pc' = [pc EXCEPT ![j] = place]

\* A job that ends leaves nothing of its own behind.
End(j) ==
    /\ Goto(j, "idle") /\ kind' = [kind EXCEPT ![j] = "none"]
    /\ todo' = [todo EXCEPT ![j] = <<>>] /\ layers' = [layers EXCEPT ![j] = 0]
    /\ snap' = [snap EXCEPT ![j] = 0] /\ from' = [from EXCEPT ![j] = NoImage]

-----------------------------------------------------------------------------
(***************************************************************************)
(* Jobs start, for all variants or for one.  The bootstrap waits for the   *)
(* network and the registry: the operator may be there before it.          *)
(***************************************************************************)
Selections == {Variants} \cup {<<v>> : v \in Tags}
Baking == {j \in Jobs : pc[j] # "idle" /\ kind[j] \in {"refresh", "bake"}}
Waited == marker \/ booted   \* the boot's bootstrap has been started, or is not needed

Start(j, k, place, selection) ==
    /\ pc[j] = "idle" /\ started < MaxJobs
    /\ started' = started + 1
    /\ kind' = [kind EXCEPT ![j] = k] /\ Goto(j, place)
    /\ todo' = [todo EXCEPT ![j] = selection]
    /\ overlapped' = (overlapped \/ (k \in {"refresh", "bake"} /\ Baking # {}))
    /\ UNCHANGED <<baseVars, devVars, failVars, creds, layers, snap, from, layerVars>>

\* build, with --fresh or without.
StartBuild(j) ==
    /\ Early \/ Waited
    /\ \E s \in Selections, k \in {"build", "fresh"} : Start(j, k, "build", s)
    /\ early' = (early \/ ~Waited) /\ UNCHANGED <<marker, booted>>

StartRefresh(j) ==
    /\ Early \/ Waited
    /\ Start(j, "refresh", "build", Variants)
    /\ early' = (early \/ ~Waited) /\ UNCHANGED <<marker, booted>>

StartBake(j) ==
    /\ Early \/ Waited
    /\ \E s \in Selections : Start(j, "bake", "pack", s)
    /\ UNCHANGED bootVars

\* bootstrap.sh, once per boot until the marker is there.
Bootstrap(j) ==
    /\ ~marker /\ ~booted /\ booted' = TRUE /\ UNCHANGED early
    /\ IF base[Default] # NoImage
       THEN /\ marker' = TRUE
            /\ UNCHANGED <<jobVars, layerVars, baseVars, devVars, failVars, creds, started,
                           overlapped>>
       ELSE Start(j, "bootstrap", "build", Variants) /\ UNCHANGED marker

-----------------------------------------------------------------------------
(***************************************************************************)
(* cmd_build.  A job with --fresh has a CLI_REFRESH of its own: it makes   *)
(* the layer once and finds it for its other variants.  The others share   *)
(* CLI_REFRESH=0 and find what a plain build made, if it is still cached   *)
(* and upon the same Ubuntu (--pull).                                      *)
(***************************************************************************)
Fresh(j) == kind[j] \in {"fresh", "refresh"}

TakeLayer(j, v) ==
    /\ \/ /\ Fresh(j) /\ layers[j] # 0 /\ UNCHANGED <<layers, cached, newest>>
       \/ /\ ~Fresh(j) /\ cached # 0 /\ layers' = [layers EXCEPT ![j] = cached]
          /\ UNCHANGED <<cached, newest>>
       \/ /\ Fresh(j) => layers[j] = 0
          /\ newest' = newest + 1 /\ layers' = [layers EXCEPT ![j] = newest']
          /\ cached' = IF Fresh(j) THEN cached ELSE newest'
    /\ mixed' = \/ mixed \/ layers'[j] < base[v].cli
                \/ \E k \in Jobs \ {j} : pc[k] = "name" /\ Head(todo[k]) = v

\* docker buildx build starts.
BuildVariant(j) ==
    /\ pc[j] = "build" /\ todo[j] # <<>> /\ Goto(j, "name")
    /\ TakeLayer(j, Head(todo[j]))
    /\ UNCHANGED <<baseVars, devVars, bootVars, failVars, creds, kind, todo, snap, from, started,
                   overlapped>>

\* Mutant: a variant that cannot be built is passed over.
BuildNameTolerant(j) ==
    /\ pc[j] = "name" /\ Goto(j, "build")
    /\ builds' = builds + 1
    /\ base' \in {base, [base EXCEPT ![Head(todo[j])] = [build |-> builds', cli |-> layers[j]]]}
    /\ todo' = [todo EXCEPT ![j] = Tail(@)]
    /\ UNCHANGED <<layers, layerVars, baseLatest, devVars, bootVars, failVars, creds, kind, snap,
                   from, started, overlapped>>

\* It ends: the image has the variant's name.
BuildName(j) ==
    /\ pc[j] = "name" /\ Goto(j, "build")
    /\ builds' = builds + 1
    /\ base' = [base EXCEPT ![Head(todo[j])] = [build |-> builds', cli |-> layers[j]]]
    /\ todo' = [todo EXCEPT ![j] = Tail(@)]
    /\ UNCHANGED <<layers, layerVars, baseLatest, devVars, bootVars, failVars, creds, kind, snap,
                   from, started, overlapped>>

\* cmd_build returns: to the bootstrap, to a refresh that goes on to bake, or ends.
AfterTag(j) ==
    IF kind[j] = "bootstrap" THEN Goto(j, "mark") /\ UNCHANGED <<kind, todo, layers, snap, from>>
    ELSE IF kind[j] = "refresh" /\ creds # 0
    THEN /\ Goto(j, "pack") /\ todo' = [todo EXCEPT ![j] = Variants]
         /\ UNCHANGED <<kind, layers, snap, from>>
    ELSE End(j)

\* Mutant: :latest is set to the build this job saw last.
BuildTagLast(j) ==
    /\ pc[j] = "build" /\ todo[j] = <<>> /\ base[Default] # NoImage
    /\ baseLatest' = [build |-> builds, cli |-> layers[j]] /\ torn' = torn \ {"base"}
    /\ AfterTag(j)
    /\ UNCHANGED <<layerVars, base, builds, devVars, bootVars, failed, creds, started, overlapped>>

\* After the last variant the default one becomes :latest; without it the job fails.
BuildTag(j) ==
    /\ pc[j] = "build" /\ todo[j] = <<>>
    /\ IF base[Default] = NoImage
       THEN End(j) /\ UNCHANGED <<baseLatest, torn>>
       ELSE baseLatest' = base[Default] /\ torn' = torn \ {"base"} /\ AfterTag(j)
    /\ UNCHANGED <<layerVars, base, builds, devVars, bootVars, failed, creds, started, overlapped>>

BootstrapMark(j) ==
    /\ pc[j] = "mark" /\ End(j)
    /\ marker' = TRUE
    /\ UNCHANGED <<layerVars, baseVars, devVars, failVars, creds, booted, early, started,
                   overlapped>>

-----------------------------------------------------------------------------
(***************************************************************************)
(* cmd_bake                                                                *)
(***************************************************************************)

\* The credential files are packed for all variants to come.
BakePack(j) ==
    /\ pc[j] = "pack" /\ Goto(j, "bake")
    /\ snap' = [snap EXCEPT ![j] = creds]
    /\ UNCHANGED <<layerVars, baseVars, devVars, bootVars, failVars, creds, kind, todo, layers,
                   from, started, overlapped>>

\* Mutant: the first base image is kept for the variants that follow.
BakeVariantKeepsBase(j) ==
    /\ pc[j] = "bake" /\ todo[j] # <<>>
    /\ IF base[Head(todo[j])] = NoImage
       THEN todo' = [todo EXCEPT ![j] = Tail(@)] /\ UNCHANGED <<pc, from>>
       ELSE /\ from' = [from EXCEPT ![j] = IF @ # NoImage THEN @ ELSE base[Head(todo[j])]]
            /\ Goto(j, "finish") /\ UNCHANGED todo
    /\ UNCHANGED <<layerVars, baseVars, devVars, bootVars, failVars, creds, kind, layers, snap,
                   started, overlapped>>

\* A variant without a base image is skipped.
BakeVariant(j) ==
    /\ pc[j] = "bake" /\ todo[j] # <<>>
    /\ IF base[Head(todo[j])] = NoImage
       THEN todo' = [todo EXCEPT ![j] = Tail(@)] /\ UNCHANGED <<pc, from>>
       ELSE /\ from' = [from EXCEPT ![j] = base[Head(todo[j])]]
            /\ Goto(j, "finish") /\ UNCHANGED todo
    /\ UNCHANGED <<layerVars, baseVars, devVars, bootVars, failVars, creds, kind, layers, snap,
                   started, overlapped>>

BakeFinish(j) ==
    /\ pc[j] = "finish" /\ Goto(j, "bake")
    /\ dev' = [dev EXCEPT ![Head(todo[j])] = [base |-> from[j], creds |-> snap[j]]]
    /\ todo' = [todo EXCEPT ![j] = Tail(@)]
    /\ UNCHANGED <<layerVars, baseVars, devLatest, bootVars, failVars, creds, kind, layers, snap,
                   from, started, overlapped>>

\* The default variant becomes :latest, if there is one.
BakeTag(j) ==
    /\ pc[j] = "bake" /\ todo[j] = <<>> /\ End(j)
    /\ devLatest' = IF dev[Default] # NoDev THEN dev[Default] ELSE devLatest
    /\ torn' = torn \ {"dev"}
    /\ UNCHANGED <<layerVars, baseVars, dev, bootVars, failed, creds, started, overlapped>>

-----------------------------------------------------------------------------
\* A login in the terminal, the shell or by import.
CredentialsChange ==
    /\ creds < MaxLogins /\ creds' = creds + 1
    /\ UNCHANGED <<jobVars, layerVars, baseVars, devVars, bootVars, failVars, started, overlapped>>

\* What jobs that end where they are do not come to.
Tears(jobs) ==
    {x \in {"base", "dev"} :
        \E j \in jobs : pc[j] \in IF x = "base" THEN Building ELSE Packed}

\* set -e: a docker command fails and with it the job.
Fail(j) ==
    /\ Failures /\ pc[j] # "idle" /\ End(j)
    /\ failed' = TRUE /\ torn' = torn \cup Tears({j})
    /\ UNCHANGED <<layerVars, baseVars, devVars, bootVars, creds, started, overlapped>>

\* The power fails, or the operator boots again.
Boot ==
    /\ Failures /\ booted' = FALSE
    /\ kind' = [j \in Jobs |-> "none"] /\ pc' = [j \in Jobs |-> "idle"]
    /\ todo' = [j \in Jobs |-> <<>>] /\ layers' = [j \in Jobs |-> 0]
    /\ snap' = [j \in Jobs |-> 0] /\ from' = [j \in Jobs |-> NoImage]
    /\ failed' = (failed \/ ~Idle) /\ torn' = torn \cup Tears(Jobs)
    /\ UNCHANGED <<layerVars, baseVars, devVars, creds, marker, early, started, overlapped>>

Next ==
    \/ \E j \in Jobs :
        \/ StartBuild(j) \/ StartRefresh(j) \/ StartBake(j) \/ Bootstrap(j)
        \/ BuildVariant(j) \/ BuildName(j) \/ BuildTag(j) \/ BootstrapMark(j)
        \/ BakePack(j) \/ BakeVariant(j) \/ BakeFinish(j) \/ BakeTag(j)
        \/ Fail(j)
    \/ CredentialsChange \/ Boot

Spec == Init /\ [][Next]_vars

-----------------------------------------------------------------------------
\* "Populate the selectable base images" (bootstrap.sh:2): when the bootstrap
\* counts as complete every variant is there.
BootstrapComplete == AutoBuild /\ marker => \A v \in Tags : base[v] # NoImage

\* What the code achieves of that: as long as no job was cut short and nobody
\* built before the boot's bootstrap had started, although other jobs may
\* build, tag and bake beside it.
BootstrapCompleteUndisturbed == ~failed /\ ~early => BootstrapComplete

\* ":latest is the default variant" (exe-image-forge:150): between jobs,
\* however they overlapped, unless the last job to replace images failed; the
\* next one that reaches its end repairs it.
LatestIsDefault ==
    Idle => /\ "base" \notin torn => baseLatest = base[Default]
            /\ "dev" \notin torn => devLatest = dev[Default]

\* "So freshly vended images are never stale" (exe-image-forge:488).  What the
\* code achieves of that, whatever fails, as long as no two jobs bake at once: no
\* job puts older credentials into a dev image than it has, nor older CLIs,
\* unless a build gave the variant older ones than it had, as a plain one does
\* after a refresh, or two jobs built it at once.
DevNeverBack ==
    [][~overlapped =>
         \A v \in Tags : /\ dev'[v].creds >= dev[v].creds
                         /\ ~mixed => dev'[v].base.cli >= dev[v].base.cli]_vars
=============================================================================
