------------------------------ MODULE MCPages ------------------------------
(* What the pages show: lists over several requests (Listings), images of  *)
(* one document (ImageModel) and tags in their order (TagOrder).  A         *)
(* behaviour looks at one of them, for they share nothing.                 *)
EXTENDS Listings, ImageModel, TagOrder

CONSTANTS MaxChanges, MaxRows

VARIABLE subject   \* what is looked at

-----------------------------------------------------------------------------
(* Lists: the display order is what sortTags makes of four names.          *)

Dot == 46
MCLatest == <<108, 97, 116, 101, 115, 116>>

\* In the registry's order "02", "1", "latest", "v".
FourTags == <<<<48, 50>>, <<49>>, MCLatest, <<118>>>>
DisplayOrder == <<3, 4, 1, 2>>
ASSUME DisplayAssumption ==
    \A t \in 1 .. 4 : SortTags(FourTags)[DisplayOrder[t]] = FourTags[t]

\* No filter, and one that leaves the second repository out.
TwoQueries == {Repos, Repos \ {2}}

-----------------------------------------------------------------------------
(* Documents: every combination of type and shape; one manifest against    *)
(* histories of up to four steps; an index of up to two children of all    *)
(* sorts, and of three that differ in their platforms.                     *)

Plain == [type |-> "manifest", header |-> "", schema1 |-> FALSE,
          config |-> [digest |-> "", size |-> 0, blob |-> Absent],
          layers |-> <<>>, manifests |-> <<>>]

Blob(digest, size) == [digest |-> digest, size |-> size]
Config(os, arch, created, history) ==
    [os |-> os, arch |-> arch, variant |-> IF arch = "arm64" THEN "v8" ELSE "",
     created |-> created, history |-> history]
ConfigRef(digest, blob) == [digest |-> digest, size |-> 1, blob |-> blob]

Short(S, n) == UNION {[1 .. k -> S] : k \in 0 .. n}

\* One manifest: layers of very different sizes, and any history.
Layered == {[Plain EXCEPT !.config = ConfigRef("k", Config("linux", "arm64", 1, history)),
                          !.layers = layers] :
              history \in Short(BOOLEAN, 4), layers \in Short({Blob("a", 1), Blob("b", 30)}, 4)}

\* What children are made of: shared blobs, a blob without a digest, configs
\* that say something, nothing, or cannot be read.
ChildConfigs == {ConfigRef("k", Config("linux", "arm64", 1, <<TRUE, FALSE>>)),
                 ConfigRef("m", Config("", "", 0, <<FALSE>>)),
                 ConfigRef("k", Absent), Plain.config}
ChildLayers == {<<>>, <<Blob("a", 1)>>, <<Blob("b", 2), Blob("a", 1)>>,
                <<Blob("a", 2), Blob("a", 1)>>, <<Blob("", 1)>>}
ChildDocs == {[Plain EXCEPT !.config = config, !.layers = layers] :
                config \in ChildConfigs, layers \in ChildLayers}

Platform(os, arch, version) == [os |-> os, arch |-> arch, variant |-> "", version |-> version]
Amd64 == Platform("linux", "amd64", "")
Arm64 == Platform("linux", "arm64", "")
Attestation == Platform("unknown", "unknown", "")
Platforms == {Amd64, Arm64, Platform("windows", "amd64", "1"), Platform("windows", "amd64", "2"),
              [Amd64 EXCEPT !.variant = "v2"], Attestation, Platform("unknown", "arm64", ""),
              Platform("Unknown", "Unknown", ""), Platform("Unknown", "unknown", ""),
              Platform("", "", ""), Absent}

Ref(platform, doc) == [digest |-> "child", size |-> 1, platform |-> platform, answer |-> doc]
IndexDoc(refs) == [Plain EXCEPT !.type = "index", !.manifests = refs]

Nested == IndexDoc(<<Ref(Amd64, Plain)>>)
Schema1 == [Plain EXCEPT !.type = "schema1"]
OneLayer == [Plain EXCEPT !.config = ConfigRef("k", Config("linux", "arm64", 1, <<FALSE>>)),
                          !.layers = <<Blob("a", 1)>>]

\* Two children that share blobs or not; three, of any platforms; and children
\* that cannot be read or addressed.
Pairs == {IndexDoc(<<Ref(on[1], d), Ref(on[2], e)>>) :
            on \in {<<Amd64, Arm64>>, <<Attestation, Amd64>>, <<Absent, Arm64>>, <<Arm64, Absent>>},
            d, e \in ChildDocs \cup {Absent}}
Triples == {IndexDoc(<<Ref(p, d), Ref(q, OneLayer), Ref(r, OneLayer)>>) :
              p, q, r \in Platforms, d \in {OneLayer, Absent}}
Broken == {IndexDoc(<<Ref(p, d), [Ref(q, e) EXCEPT !.digest = digest]>>) :
             p, q \in {Amd64, Arm64}, d, e \in {OneLayer, Nested, Schema1, Absent},
             digest \in {"child", Unusable}}

\* Documents that say what they are, do not, or lie.
Typed == {[doc EXCEPT !.type = type, !.header = header, !.schema1 = schema1] :
            doc \in {Plain, OneLayer, Nested}, type \in {"index", "manifest", "schema1", "other", ""},
            header \in {"index", "manifest", "schema1", ""}, schema1 \in BOOLEAN}

MCDocuments == Layered \cup Pairs \cup Triples \cup Broken \cup Typed \cup {IndexDoc(<<>>)}

-----------------------------------------------------------------------------
(* Tags.                                                                   *)

Letter == 97

\* All tags of one or two of the bytes ".", "0", "1", "9" and "a"; versions of
\* two numbers; and "latest".
MCTagNames == UNION {[1 .. k -> {Dot, 48, 49, 57, Letter}] : k \in 1 .. 2}
              \cup {<<49, Dot, 57>>, <<49, Dot, 49, 48>>, <<48, 49, Dot, 57>>, MCLatest}

-----------------------------------------------------------------------------
\* Bounds: all repositories are there at first; the registry changes MaxChanges
\* times in all; nobody loads more once MaxRows rows are shown, since a registry
\* that repeats its list never takes the button away.
MCInit == /\ Init /\ ImageInit /\ TagInit
          /\ repos = Repos
          /\ subject \in {"lists", "image", "tags"}
          /\ subject # "lists" => tags = {} /\ style = "linking"
MCNext ==
    /\ \/ /\ subject = "lists"
          /\ Next /\ changes' <= MaxChanges /\ Len(view'.rows) <= MaxRows
          /\ UNCHANGED <<imageVars, tagVars>>
       \/ subject = "image" /\ ImageNext /\ UNCHANGED <<vars, tagVars>>
       \/ subject = "tags" /\ TagNext /\ UNCHANGED <<vars, imageVars>>
    /\ UNCHANGED subject
MCSpec == MCInit /\ [][MCNext]_<<vars, imageVars, tagVars, subject>>
=============================================================================
